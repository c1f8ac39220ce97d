------------------------- MODULE FilesGatewayProofs -------------------------
(***************************************************************************)
(* Proofs about FilesGateway, for every set of requests, indices, sizes,   *)
(* allocations and faults.                                                 *)
(***************************************************************************)
EXTENDS FilesGateway, SumFacts, TLAPS

(* The file is created, with some size and some name. *)
Creation == \E n \in Allocations, named \in BOOLEAN : CreateFile(n, named)

Handler == [pc: InFlight \cup {"new", "created", "refused", "lost"},
            index: Index, size: Size]

(* The types that the safety of the catalog and the store depends on. *)
CatalogOK ==
  /\ rows \in [Index -> Request \cup {"free", "pending"}]
  /\ stored \subseteq Request
  /\ req \in [Request -> Handler]

(* A segment stands in the row of the index that its request named. *)
Placed == \A i \in Index : rows[i] \in Request => req[rows[i]].index = i

(* From the store's answer until a clean-up, the message exists.            *)
StoredWhenAttaching ==
  \A r \in Request : req[r].pc \in {"attaching", "created"} => r \in stored

(* A message nobody lost track of belongs to a handler that knows of it, or *)
(* to a segment: it is deleted before the reservation is withdrawn.         *)
Tracked ==
  \A r \in stored \ leaked : req[r].pc \in {"attaching", "deleting", "created"}

(* A completed file is gap-free and aligned, and no index is reserved in it. *)
Sealed ==
  Completed => /\ Exists /\ GapFree /\ FrameAligned
               /\ \A i \in Index : ~ PendingAt(i)

IInv ==
  /\ CatalogOK /\ AnswersHold /\ Placed
  /\ StoredWhenAttaching /\ Tracked /\ Sealed

----------------------------------------------------------------------------
(* Every step of a handler keeps to its own record. *)
LEMMA GotoKeeps ==
  ASSUME CatalogOK, NEW r \in Request,
         NEW pc \in InFlight \cup {"new", "created", "refused", "lost"}, Goto(r, pc)
  PROVE  /\ req' \in [Request -> Handler]
         /\ \A q \in Request : /\ req'[q].index = req[q].index
                               /\ req'[q].size = req[q].size
                               /\ req'[q].pc = IF q = r THEN pc ELSE req[q].pc
BY DEF CatalogOK, Handler, Goto

(* Withdrawing a reservation takes no segment away. *)
LEMMA ClearedKeeps ==
  ASSUME CatalogOK, NEW i \in Index
  PROVE  /\ Cleared(i) \in [Index -> Request \cup {"free", "pending"}]
         /\ \A j \in Index : Cleared(i)[j] = rows[j] \/ (rows[j] = "pending" /\ Cleared(i)[j] = "free")
         /\ \A j \in Index : (Cleared(i)[j] \in Request <=> rows[j] \in Request)
<1>1. "free" \notin Request /\ "pending" \notin Request
  BY GatewayAssumption
<1> QED
  BY <1>1 DEF CatalogOK, Cleared, PendingAt

(* The invariant holds at the start. *)
LEMMA InitIInv == Init => IInv
<1> SUFFICES ASSUME Init PROVE IInv
  OBVIOUS
<1>1. (CHOOSE i \in Index : TRUE) \in Index /\ (CHOOSE n \in Size : TRUE) \in Size
  BY GatewayAssumption
<1>2. "free" \notin Request
  BY GatewayAssumption
<1>3. CatalogOK
  BY <1>1 DEF Init, CatalogOK, Handler, InFlight
<1>4. AnswersHold /\ Placed /\ StoredWhenAttaching /\ Tracked /\ ~ Completed
  BY <1>2 DEF Init, AnswersHold, Placed, StoredWhenAttaching, Tracked, Completed, NoFile
<1> QED
  BY <1>3, <1>4 DEF IInv, Sealed

(* A completed file stays gap-free and aligned while its rows stay and no   *)
(* segment changes its size.                                                *)
LEMMA SealedKept ==
  ASSUME Sealed, file' = file, Completed => rows' = rows,
         Completed => \A i \in Index : rows[i] \in Request => req'[rows[i]].size = req[rows[i]].size
  PROVE  Sealed'
BY DEF Sealed, Completed, Exists, GapFree, FrameAligned, AttachedAt, SizeAt, PendingAt

(* A request that is new, or refused at once. *)
LEMMA ReserveKeeps ==
  ASSUME IInv, NEW r \in Request, NEW i \in Index, NEW n \in Size,
         Reserve(r, i, n) \/ FailReserve(r, i, n)
  PROVE  IInv'
<1> DEFINE granted == Exists /\ ~ Completed /\ rows[i] = "free"
<1> USE DEF IInv
<1>1. PICK pc \in {"uploading", "refused"} : req' = [req EXCEPT ![r] = [pc |-> pc, index |-> i, size |-> n]]
  BY DEF Reserve, FailReserve
<1>2. /\ \/ UNCHANGED rows
         \/ granted /\ rows' = [rows EXCEPT ![i] = "pending"]
      /\ UNCHANGED <<file, stored, leaked>>
      /\ req[r].pc = "new"
  BY DEF Reserve, FailReserve
<1>3. "free" \notin Request /\ "pending" \notin Request
  BY GatewayAssumption
<1>4. CatalogOK'
  BY <1>1, <1>2 DEF CatalogOK, Handler, InFlight
<1>5. \A j \in Index : rows'[j] \in Request <=> rows[j] \in Request
  BY <1>2, <1>3 DEF CatalogOK
<1>6. \A j \in Index : rows[j] \in Request => rows'[j] = rows[j] /\ rows[j] # r
  BY <1>2, <1>3 DEF CatalogOK, AnswersHold
<1>7. \A q \in Request : q # r => req'[q] = req[q]
  BY <1>1 DEF CatalogOK
<1>8. req'[r] = [pc |-> pc, index |-> i, size |-> n]
  BY <1>1 DEF CatalogOK
<1>9. AnswersHold'
  BY <1>2, <1>5, <1>6, <1>7, <1>8 DEF AnswersHold
<1>10. Placed'
  BY <1>5, <1>6, <1>7 DEF Placed
<1>11. StoredWhenAttaching' /\ Tracked'
  BY <1>2, <1>7, <1>8 DEF StoredWhenAttaching, Tracked, CatalogOK
<1>12. Sealed'
  BY <1>2, <1>6, <1>7, SealedKept
<1> QED
  BY <1>4, <1>9, <1>10, <1>11, <1>12

(* A step of a handler that leaves the rows of segments alone and does not  *)
(* answer "created": the store and the reservations are what it may change. *)
LEMMA QuietHandler ==
  ASSUME IInv, NEW r \in Request,
         NEW pc \in InFlight \cup {"refused"}, Goto(r, pc),
         req[r].pc \notin {"new", "created"},
         UNCHANGED file,
         rows' = rows \/ rows' = Cleared(req[r].index),
         stored' \subseteq Request, stored' \ {r} = stored \ {r},
         leaked' \ {r} = leaked \ {r},
         pc = "attaching" => r \in stored',
         r \in stored' \ leaked' => pc \in {"attaching", "deleting"}
  PROVE  IInv'
<1> USE DEF IInv
<1>1. /\ req' \in [Request -> Handler]
      /\ \A q \in Request : /\ req'[q].index = req[q].index
                            /\ req'[q].size = req[q].size
                            /\ req'[q].pc = IF q = r THEN pc ELSE req[q].pc
  BY GotoKeeps
<1>2. req[r].index \in Index
  BY DEF CatalogOK, Handler
<1>3. /\ rows' \in [Index -> Request \cup {"free", "pending"}]
      /\ \A j \in Index : rows'[j] = rows[j] \/ (rows[j] = "pending" /\ rows'[j] = "free")
      /\ \A j \in Index : (rows'[j] \in Request <=> rows[j] \in Request)
  BY <1>2, ClearedKeeps DEF CatalogOK
<1>4. "free" \notin Request /\ "pending" \notin Request
  BY GatewayAssumption
<1>5. CatalogOK'
  BY <1>1, <1>3 DEF CatalogOK
<1>6. AnswersHold'
  BY <1>1, <1>3, <1>4 DEF AnswersHold, InFlight
<1>7. Placed'
  BY <1>1, <1>3, <1>4 DEF Placed
<1>8. StoredWhenAttaching'
  BY <1>1 DEF StoredWhenAttaching, InFlight
<1>9. Tracked'
  BY <1>1, <1>5 DEF Tracked, CatalogOK
<1>10. Sealed'
  <2>1. Completed => rows' = rows
    BY <1>2 DEF Sealed, Cleared
  <2> QED
    BY <1>1, <2>1, SealedKept
<1> QED
  BY <1>5, <1>6, <1>7, <1>8, <1>9, <1>10

(* What the transaction of attach_segment does to the rows. *)
LEMMA AttachKeeps ==
  ASSUME IInv, NEW r \in Request, Attach(r)
  PROVE  IInv'
<1> DEFINE i == req[r].index
<1> USE DEF IInv
<1>1. /\ req[r].pc = "attaching" /\ r \in stored
      /\ i \in Index
  BY DEF Attach, StoredWhenAttaching, CatalogOK, Handler
<1>2. CASE Goto(r, "deleting") /\ (rows' = rows \/ rows' = Cleared(i))
  BY <1>1, <1>2, QuietHandler DEF Attach, InFlight, CatalogOK
<1>3. CASE /\ ~ Completed /\ PendingAt(i)
           /\ Goto(r, "created") /\ rows' = [rows EXCEPT ![i] = r]
  <2>1. UNCHANGED <<file, stored, leaked>>
    BY DEF Attach
  <2>2. /\ req' \in [Request -> Handler]
        /\ \A q \in Request : /\ req'[q].index = req[q].index
                              /\ req'[q].size = req[q].size
                              /\ req'[q].pc = IF q = r THEN "created" ELSE req[q].pc
    BY <1>3, GotoKeeps
  <2>3. "pending" \notin Request
    BY GatewayAssumption
  <2>4. CatalogOK'
    BY <1>3, <2>1, <2>2 DEF CatalogOK
  <2>5. \A j \in Index : rows'[j] = IF j = i THEN r ELSE rows[j]
    BY <1>1, <1>3 DEF CatalogOK
  <2>6. AnswersHold'
    BY <1>1, <1>3, <2>2, <2>3, <2>5 DEF AnswersHold, PendingAt
  <2>7. Placed'
    BY <1>1, <2>2, <2>5 DEF Placed
  <2>8. StoredWhenAttaching' /\ Tracked'
    BY <1>1, <2>1, <2>2 DEF StoredWhenAttaching, Tracked, CatalogOK
  <2>9. Sealed'
    BY <1>3, <2>1 DEF Sealed, Completed
  <2> QED
    BY <2>4, <2>6, <2>7, <2>8, <2>9
<1> QED
  BY <1>2, <1>3 DEF Attach

(* Each of the other steps of a handler is a quiet one. *)
LEMMA HandleKeeps ==
  ASSUME IInv, NEW r \in Request, Handle(r)
  PROVE  IInv'
<1> USE DEF IInv, CatalogOK, InFlight
<1>1. CASE Store(r)
  BY <1>1, QuietHandler DEF Store
<1>2. CASE FailUpload(r)
  BY <1>2, QuietHandler DEF FailUpload, Tracked
<1>3. CASE Attach(r)
  BY <1>3, AttachKeeps
<1>4. CASE FailAttach(r)
  BY <1>4, QuietHandler DEF FailAttach
<1>5. CASE Delete(r)
  BY <1>5, QuietHandler DEF Delete
<1>6. CASE CancelReservation(r)
  BY <1>6, QuietHandler DEF CancelReservation, Tracked
<1> QED
  BY <1>1, <1>2, <1>3, <1>4, <1>5, <1>6 DEF Handle, Settle

(* Handlers are lost: reservations may stay or go with the process. *)
LEMMA LoseKeeps ==
  ASSUME IInv, NEW R \in SUBSET Request, \A r \in R : Flying(r), Lose(R),
         UNCHANGED file,
         \/ rows' = rows
         \/ rows' = [i \in Index |-> IF PendingAt(i) THEN "free" ELSE rows[i]]
  PROVE  IInv'
<1> USE DEF IInv
<1>1. \A r \in Request : /\ req'[r].pc = IF r \in R THEN "lost" ELSE req[r].pc
                         /\ req'[r].index = req[r].index
                         /\ req'[r].size = req[r].size
  BY DEF Lose, CatalogOK, Handler
<1>2. req' \in [Request -> Handler]
  BY DEF Lose, CatalogOK, Handler
<1>3. /\ stored' \subseteq Request /\ stored' \ R = stored \ R
      /\ leaked' = leaked \cup R
  BY DEF Lose, CatalogOK
<1>4. "free" \notin Request /\ "pending" \notin Request
  BY GatewayAssumption
<1>5. /\ rows' \in [Index -> Request \cup {"free", "pending"}]
      /\ \A j \in Index : rows'[j] = rows[j] \/ (rows[j] = "pending" /\ rows'[j] = "free")
      /\ \A j \in Index : (rows'[j] \in Request <=> rows[j] \in Request)
  BY <1>4 DEF CatalogOK, PendingAt
<1>6. CatalogOK'
  BY <1>2, <1>3, <1>5 DEF CatalogOK
<1>7. AnswersHold'
  BY <1>1, <1>4, <1>5 DEF AnswersHold, Flying, InFlight
<1>8. Placed'
  BY <1>1, <1>4, <1>5 DEF Placed
<1>9. StoredWhenAttaching' /\ Tracked'
  BY <1>1, <1>3 DEF StoredWhenAttaching, Tracked, CatalogOK
<1>10. Sealed'
  <2>1. Completed => rows' = rows
    BY DEF Sealed, CatalogOK
  <2> QED
    BY <1>1, <2>1, SealedKept
<1> QED
  BY <1>6, <1>7, <1>8, <1>9, <1>10

(* Completion seals what the checks of complete_file have found. *)
LEMMA CompleteKeeps ==
  ASSUME IInv, Complete
  PROVE  IInv'
<1>1. UNCHANGED <<rows, stored, req, leaked>> /\ file' = [file EXCEPT !.size = Used]
  BY DEF Complete
<1>2. CatalogOK' /\ AnswersHold' /\ Placed' /\ StoredWhenAttaching' /\ Tracked'
  BY <1>1 DEF IInv, CatalogOK, AnswersHold, Placed, StoredWhenAttaching, Tracked
<1>3. (GapFree /\ FrameAligned /\ \A i \in Index : ~ PendingAt(i))'
  BY <1>1 DEF Complete, Completable, GapFree, FrameAligned, AttachedAt, SizeAt, PendingAt
<1>4. Exists'
  BY <1>1 DEF Complete, Exists
<1> QED
  BY <1>2, <1>3, <1>4 DEF IInv, Sealed

(* Every step keeps the invariant. *)
LEMMA NextIInv == IInv /\ [Next]_vars => IInv'
<1> SUFFICES ASSUME IInv, [Next]_vars PROVE IInv'
  OBVIOUS
<1>1. CASE UNCHANGED <<rows, stored, req, leaked>> /\ (UNCHANGED file \/ Creation)
  <2>1. Sealed'
    BY <1>1, SealedKept DEF IInv, Sealed, Creation, CreateFile, NoFile, Completed
  <2> QED
    BY <1>1, <2>1 DEF IInv, CatalogOK, AnswersHold, Placed, StoredWhenAttaching, Tracked
<1>2. CASE Creation
  BY <1>1, <1>2 DEF Creation, CreateFile
<1>3. ASSUME NEW r \in Request, NEW i \in Index, NEW n \in Size,
             Reserve(r, i, n) \/ FailReserve(r, i, n)
      PROVE  IInv'
  BY <1>3, ReserveKeeps
<1>4. ASSUME NEW r \in Request, Handle(r)
      PROVE  IInv'
  BY <1>4, HandleKeeps
<1>5. ASSUME NEW r \in Request, Drop(r)
      PROVE  IInv'
  BY <1>5, LoseKeeps DEF Drop
<1>6. CASE Restart
  BY <1>6, LoseKeeps DEF Restart
<1>7. CASE Complete
  BY <1>7, CompleteKeeps
<1>8. CASE OpenDownload \/ ListObjects \/ UNCHANGED vars
  BY <1>1, <1>8 DEF OpenDownload, ListObjects, vars
<1> QED
  BY <1>2, <1>3, <1>4, <1>5, <1>6, <1>7, <1>8 DEF Next, Creation, RefuseCreate

(* The catalog, the store and the clients agree, always. *)
THEOREM InvariantHolds == Spec => []IInv
BY InitIInv, NextIInv, PTL DEF Spec

(* 201 was answered exactly for what is part of the file (lib.rs:201), with *)
(* any number of requests, failures, disconnects and restarts.              *)
THEOREM AnswersAreTrue == Spec => []AnswersHold
<1>1. IInv => AnswersHold
  BY DEF IInv
<1> QED
  BY <1>1, InvariantHolds, PTL

(* No clean-up deletes the message of an attached segment (lib.rs:193). *)
THEOREM AttachedIsStored == Spec => []AttachedStored
<1>1. IInv => AttachedStored
  <2> SUFFICES ASSUME IInv, NEW i \in AttachedAt(rows) PROVE rows[i] \in stored
    BY DEF AttachedStored
  <2>1. rows[i] \in Request /\ req[rows[i]].pc = "created"
    BY DEF IInv, AnswersHold, AttachedAt
  <2> QED
    BY <2>1 DEF IInv, StoredWhenAttaching
<1> QED
  BY <1>1, InvariantHolds, PTL

(* A message without a segment has a handler that will delete it, or was    *)
(* lost with a handler or a failed clean-up.                                *)
THEOREM NothingForgotten == Spec => []NoOrphans
<1>1. IInv => NoOrphans
  BY DEF IInv, NoOrphans, Tracked, Flying, InFlight, CatalogOK
<1> QED
  BY <1>1, InvariantHolds, PTL

(* A completed file is contiguous and frame-aligned, and no step changes    *)
(* its size or its segments: the part of SegmentedFile that needs no sum.   *)
THEOREM CompletedIsFinal ==
  Spec => [][Completed => GapFree /\ FrameAligned /\ UNCHANGED <<file, rows>>]_vars
<1>1. ASSUME IInv, Completed, [Next]_vars PROVE UNCHANGED <<file, rows>>
  <2> USE <1>1
  <2>1. Exists /\ \A i \in Index : ~ PendingAt(i)
    BY DEF IInv, Sealed
  <2>2. \A r \in Request : Cleared(req[r].index) = rows
    BY <2>1 DEF IInv, CatalogOK, Handler, Cleared
  <2>3. ASSUME NEW r \in Request, Handle(r)
        PROVE  UNCHANGED <<file, rows>>
    BY <2>2, <2>3 DEF Handle, Settle, Store, FailUpload, Attach, FailAttach, Delete, CancelReservation
  <2>4. CASE Restart
    BY <2>1, <2>4 DEF Restart, IInv, CatalogOK
  <2> QED
    BY <2>1, <2>3, <2>4
       DEF Next, vars, Creation, CreateFile, RefuseCreate, Reserve, FailReserve, Drop, Complete, OpenDownload, ListObjects
<1>2. IInv /\ [Next]_vars => [Completed => GapFree /\ FrameAligned /\ UNCHANGED <<file, rows>>]_vars
  BY <1>1 DEF IInv, Sealed
<1> QED
  BY <1>2, InvariantHolds, PTL DEF Spec
----------------------------------------------------------------------------
(* Sizes and downloads *)

(* The bytes of a file can be counted, and completion has recorded them.    *)
Counted ==
  /\ IsFiniteSet(AttachedAt(rows))
  /\ file \in [expected: Allocations \cup {-1}, size: Nat \cup {-1}]
  /\ Completed => file.size = Used /\ Used <= file.expected

(* A download that began reads a completed file, whose segments are final.  *)
Reading ==
  /\ get = [pc |-> get.pc, size |-> get.size, objects |-> get.objects]
  /\ get.pc \in {"off", "sized", "open"} /\ get.size \in Nat
  /\ DOMAIN get.objects \subseteq Index
  /\ get.pc # "off" => Completed /\ get.size = file.size
  /\ get.pc = "open" => get.objects = [i \in AttachedAt(rows) |-> rows[i]]

(* No attached segment comes, goes or changes its size.                     *)
SegmentsKept ==
  /\ AttachedAt(rows)' = AttachedAt(rows)
  /\ \A i \in AttachedAt(rows) : rows'[i] = rows[i] /\ SizeAt(i)' = SizeAt(i)

(* A segment is added: the successful transaction of attach_segment.        *)
Added(r, i) ==
  /\ Exists /\ ~ Completed /\ Fits(r) /\ UNCHANGED file
  /\ i \notin AttachedAt(rows)
  /\ \A j \in AttachedAt(rows) : rows[j] # r
  /\ AttachedAt(rows)' = AttachedAt(rows) \cup {i}
  /\ rows'[i] = r /\ SizeAt(i)' = req[r].size
  /\ \A j \in AttachedAt(rows) : rows'[j] = rows[j] /\ SizeAt(j)' = SizeAt(j)

(* A file that a request refers to exists: nobody removes it.               *)
Known == \A r \in Request : req[r].pc \in InFlight \cup {"created", "lost"} => Exists

(* Rows and sizes that stay, stay segments.                                 *)
LEMMA KeptByRows ==
  ASSUME CatalogOK, \A i \in Index : rows'[i] \in Request <=> rows[i] \in Request,
         \A i \in Index : rows[i] \in Request =>
           rows'[i] = rows[i] /\ req'[rows[i]].size = req[rows[i]].size
  PROVE  SegmentsKept
BY DEF SegmentsKept, AttachedAt, SizeAt

(* Every step keeps the segments, or adds one.                              *)
LEMMA SegmentsStep ==
  ASSUME IInv, Known, [Next]_vars
  PROVE  SegmentsKept \/ \E r \in Request, i \in Index : Added(r, i)
<1> USE DEF IInv
<1>0. "free" \notin Request /\ "pending" \notin Request
  BY GatewayAssumption
<1>1. CASE UNCHANGED <<rows, req>>
  BY <1>1, KeptByRows
<1>2. ASSUME NEW r \in Request, NEW i \in Index, NEW n \in Size,
             Reserve(r, i, n) \/ FailReserve(r, i, n)
      PROVE  SegmentsKept
  <2>1. \A j \in Index : rows[j] # r
    BY <1>2 DEF Reserve, FailReserve, AnswersHold
  <2>2. \A q \in Request : q # r => req'[q] = req[q]
    BY <1>2 DEF Reserve, FailReserve, CatalogOK
  <2>3. \A j \in Index : rows'[j] = rows[j] \/ (rows[j] = "free" /\ rows'[j] = "pending")
    BY <1>2 DEF Reserve, FailReserve, CatalogOK
  <2>4. QED
    BY <1>0, <2>1, <2>2, <2>3, KeptByRows
<1>3. ASSUME NEW r \in Request, Handle(r)
      PROVE  SegmentsKept \/ \E i \in Index : Added(r, i)
  <2>1. PICK i \in Index : i = req[r].index
    BY DEF CatalogOK, Handler
  <2>2. \A q \in Request : req'[q].size = req[q].size
    <3>1. PICK pc \in InFlight \cup {"created", "refused"} : Goto(r, pc)
      BY <1>3 DEF Handle, Settle, Store, FailUpload, Attach, FailAttach, Delete, CancelReservation, InFlight
    <3>2. QED
      BY <3>1, GotoKeeps
  <2>3. CASE rows' = rows \/ rows' = Cleared(req[r].index)
    <3>1. \A j \in Index : rows'[j] = rows[j] \/ (rows[j] = "pending" /\ rows'[j] = "free")
      BY <2>1, <2>3, ClearedKeeps
    <3>2. QED
      BY <1>0, <2>2, <3>1, KeptByRows
  <2>4. CASE ~ (rows' = rows \/ rows' = Cleared(req[r].index))
    <3>1. /\ ~ Completed /\ Fits(r) /\ PendingAt(i) /\ UNCHANGED file
          /\ req[r].pc = "attaching"
          /\ rows' = [rows EXCEPT ![i] = r]
      BY <1>3, <2>1, <2>4 DEF Handle, Settle, Store, FailUpload, Attach, FailAttach, Delete, CancelReservation
    <3>2. Exists /\ \A j \in Index : rows[j] # r
      BY <3>1 DEF Known, InFlight, AnswersHold
    <3>3. i \notin AttachedAt(rows)
      BY <1>0, <3>1 DEF AttachedAt, PendingAt
    <3>4. \A j \in Index : rows'[j] = IF j = i THEN r ELSE rows[j]
      BY <2>1, <3>1 DEF CatalogOK
    <3>5. AttachedAt(rows)' = AttachedAt(rows) \cup {i}
      BY <2>1, <3>4 DEF AttachedAt
    <3>6. SizeAt(i)' = req[r].size
      BY <2>1, <2>2, <3>4 DEF SizeAt
    <3>7. \A j \in AttachedAt(rows) : rows'[j] = rows[j] /\ SizeAt(j)' = SizeAt(j)
      BY <2>2, <3>3, <3>4 DEF SizeAt, AttachedAt
    <3>8. QED
      BY <2>1, <3>1, <3>2, <3>3, <3>4, <3>5, <3>6, <3>7 DEF Added, AttachedAt
  <2>5. QED
    BY <2>3, <2>4
<1>4. ASSUME NEW R, Lose(R), rows' = rows \/ rows' = [i \in Index |-> IF PendingAt(i) THEN "free" ELSE rows[i]]
      PROVE  SegmentsKept
  <2>1. \A q \in Request : req'[q].size = req[q].size
    BY <1>4 DEF Lose, CatalogOK, Handler
  <2>2. \A j \in Index : rows'[j] = rows[j] \/ (rows[j] = "pending" /\ rows'[j] = "free")
    BY <1>4 DEF PendingAt
  <2>3. QED
    BY <1>0, <2>1, <2>2, KeptByRows
<1>5. QED
  BY <1>1, <1>2, <1>3, <1>4
     DEF Next, vars, Creation, CreateFile, RefuseCreate, Drop, Restart, Complete, OpenDownload, ListObjects
(* The sum over the segments stays, or grows by the one that is added.      *)
LEMMA UsedStep ==
  ASSUME IInv, Counted, SegmentsKept \/ \E r \in Request, i \in Index : Added(r, i)
  PROVE  /\ IsFiniteSet(AttachedAt(rows))'
         /\ Used' \in Nat
         /\ SegmentsKept => Used' = Used
         /\ \A r \in Request, i \in Index : Added(r, i) => Used' = Used + req[r].size
<1> DEFINE sizes == [i \in AttachedAt(rows) |-> SizeAt(i)]
<1>1. Used = SumFunctionOnSet(sizes, AttachedAt(rows)) /\ IsFiniteSet(AttachedAt(rows))
  BY DEF Used, SumFunction, Counted
<1>2. \A i \in AttachedAt(rows) : sizes[i] = SizeAt(i) /\ SizeAt(i) \in Nat
  BY GatewayAssumption DEF IInv, CatalogOK, Handler, AttachedAt, SizeAt
<1>3. Used \in Nat
  BY <1>1, <1>2, SumNat
<1>4. ASSUME SegmentsKept
      PROVE  Used' = Used /\ IsFiniteSet(AttachedAt(rows))'
  <2>1. [i \in AttachedAt(rows) |-> SizeAt(i)]' = [i \in AttachedAt(rows) |-> SizeAt(i)]
    BY <1>4 DEF SegmentsKept
  <2>2. Used' = Used
    BY <2>1 DEF Used
  <2>3. IsFiniteSet(AttachedAt(rows)) /\ AttachedAt(rows)' = AttachedAt(rows)
    BY <1>4 DEF SegmentsKept, Counted
  <2>4. IsFiniteSet(AttachedAt(rows))'
    BY <2>3, Zenon
  <2>5. QED
    BY <2>2, <2>4
<1>5. ASSUME NEW r \in Request, NEW i \in Index, Added(r, i)
      PROVE  Used' = Used + req[r].size /\ IsFiniteSet(AttachedAt(rows))'
  <2> DEFINE A == AttachedAt(rows)
             grown == [j \in A \cup {i} |-> SizeAt(j)']
  <2>1. AttachedAt(rows)' = A \cup {i} /\ i \notin A
    BY <1>5 DEF Added
  <2>2. SizeAt(i)' = req[r].size /\ req[r].size \in Nat
    BY <1>5, GatewayAssumption DEF Added, IInv, CatalogOK, Handler
  <2>3. \A j \in A : grown[j] = sizes[j]
    BY <1>5 DEF Added
  <2>4. IsFiniteSet(A \cup {i})
    BY <1>1, FS_AddElement
  <2>5. IsFiniteSet(AttachedAt(rows))'
    BY <2>1, <2>4, Zenon
  <2>6. [j \in AttachedAt(rows) |-> SizeAt(j)]' = grown
    BY <2>1
  <2>7. Used' = SumFunctionOnSet(grown, A \cup {i})
    <3>1. Used' = SumFunction(grown)
      BY <2>6 DEF Used
    <3>2. DOMAIN grown = A \cup {i}
      OBVIOUS
    <3> HIDE DEF grown
    <3>3. QED
      BY <3>1, <3>2, Zenon DEF SumFunction
  <2>8. grown[i] = req[r].size
    BY <2>2
  <2>9. \A j \in A \cup {i} : grown[j] \in Int
    BY <1>2, <2>2, <2>3, <2>8
  <2> HIDE DEF grown, sizes
  <2>10. SumFunctionOnSet(grown, A) = SumFunctionOnSet(sizes, A)
    BY <1>1, <2>3, SumEqual
  <2>11. SumFunctionOnSet(grown, A \cup {i}) = SumFunctionOnSet(grown, A) + grown[i]
    BY <1>1, <2>1, <2>9, SumAdd
  <2>12. QED
    BY <1>1, <2>5, <2>7, <2>8, <2>10, <2>11
<1>6. \A r \in Request : req[r].size \in Nat
  BY GatewayAssumption DEF IInv, CatalogOK, Handler
<1>7. QED
  BY <1>3, <1>4, <1>5, <1>6

(* The sum is a number of bytes.                                            *)
LEMMA UsedNat == ASSUME IInv, Counted PROVE Used \in Nat
<1> DEFINE sizes == [i \in AttachedAt(rows) |-> SizeAt(i)]
<1>1. Used = SumFunctionOnSet(sizes, AttachedAt(rows)) /\ IsFiniteSet(AttachedAt(rows))
  BY DEF Used, SumFunction, Counted
<1>2. \A i \in AttachedAt(rows) : sizes[i] \in Nat
  BY GatewayAssumption DEF IInv, CatalogOK, Handler, AttachedAt, SizeAt
<1>3. QED
  BY <1>1, <1>2, SumNat

(* At the start there is nothing to count.                                  *)
LEMMA CountedAtStart == Init => Known /\ Counted /\ Reading /\ leaked \subseteq Request
<1> SUFFICES ASSUME Init PROVE Known /\ Counted /\ Reading /\ leaked \subseteq Request
  OBVIOUS
<1>1. AttachedAt(rows) = {}
  BY GatewayAssumption DEF Init, AttachedAt
<1>2. IsFiniteSet(AttachedAt(rows))
  BY <1>1, FS_EmptySet, Zenon
<1>3. Known
  BY DEF Init, Known, InFlight
<1>4. Counted
  BY <1>2 DEF Init, Counted, NoFile, Completed
<1>5. get = [pc |-> "off", size |-> 0, objects |-> <<>>] /\ DOMAIN <<>> = {}
  BY DEF Init
<1>6. Reading
  BY <1>5 DEF Reading
<1>7. QED
  BY <1>3, <1>4, <1>6 DEF Init

(* The file of a request stays.                                             *)
LEMMA KnownStep == IInv /\ Known /\ Counted /\ [Next]_vars => Known'
<1> SUFFICES ASSUME IInv, Known, Counted, [Next]_vars PROVE Known'
  OBVIOUS
<1> USE DEF IInv
<1>1. Exists => Exists'
  BY DEF Counted, Next, vars, Creation, CreateFile, RefuseCreate, Reserve, FailReserve, Handle, Settle, Store, FailUpload, Attach, FailAttach, Delete,
         CancelReservation, Drop, Restart, Complete, OpenDownload, ListObjects, Exists
<1>2. ASSUME NEW q \in Request, req'[q].pc \in InFlight \cup {"created", "lost"}
      PROVE  Exists
  <2>1. CASE req[q].pc \in InFlight \cup {"created", "lost"}
    BY <2>1 DEF Known
  <2>2. CASE req[q].pc \notin InFlight \cup {"created", "lost"}
    <3>1. CASE UNCHANGED req
      BY <1>2, <2>2, <3>1
    <3>2. ASSUME NEW r \in Request, NEW i \in Index, NEW n \in Size,
                 Reserve(r, i, n) \/ FailReserve(r, i, n)
          PROVE  Exists
      <4>1. PICK pc \in {"uploading", "refused"} :
              /\ pc = "refused" \/ Exists
              /\ req' = [req EXCEPT ![r] = [pc |-> pc, index |-> i, size |-> n]]
        BY <3>2 DEF Reserve, FailReserve
      <4>2. q = r /\ req'[r].pc # "refused"
        BY <1>2, <2>2, <4>1 DEF CatalogOK, InFlight
      <4>3. QED
        BY <4>1, <4>2 DEF CatalogOK
    <3>3. ASSUME NEW r \in Request, Handle(r)
          PROVE  Exists
      <4>1. PICK pc \in InFlight \cup {"created", "refused"} : Goto(r, pc)
        BY <3>3 DEF Handle, Settle, Store, FailUpload, Attach, FailAttach, Delete, CancelReservation, InFlight
      <4>2. req[r].pc \in InFlight
        BY <3>3 DEF Handle, Settle, Store, FailUpload, Attach, FailAttach, Delete, CancelReservation, InFlight
      <4>3. QED
        BY <4>2 DEF Known
    <3>4. ASSUME NEW R \in SUBSET Request, \A r \in R : Flying(r), Lose(R)
          PROVE  Exists
      <4>1. req'[q].pc = IF q \in R THEN "lost" ELSE req[q].pc
        BY <3>4 DEF Lose, CatalogOK, Handler
      <4>2. QED
        BY <1>2, <2>2, <3>4, <4>1 DEF Flying
    <3>5. ASSUME NEW r \in Request, Drop(r)
          PROVE  Exists
      BY <3>4, <3>5 DEF Drop
    <3>6. CASE Restart
      BY <3>4, <3>6 DEF Restart
    <3>7. QED
      BY <3>1, <3>2, <3>3, <3>5, <3>6
         DEF Next, vars, Creation, CreateFile, RefuseCreate, Complete, OpenDownload, ListObjects
  <2>3. QED
    BY <2>1, <2>2
<1>3. QED
  BY <1>1, <1>2 DEF Known
(* What was counted stays counted.                                          *)
LEMMA CountedStep == IInv /\ Known /\ Counted /\ [Next]_vars => Counted'
<1> SUFFICES ASSUME IInv, Known, Counted, [Next]_vars PROVE Counted'
  OBVIOUS
<1>1. SegmentsKept \/ \E r \in Request, i \in Index : Added(r, i)
  BY SegmentsStep
<1>2. IsFiniteSet(AttachedAt(rows))' /\ Used' \in Nat /\ (SegmentsKept => Used' = Used)
  BY <1>1, UsedStep
<1>3. Used \in Nat
  BY UsedNat
<1>4. \/ UNCHANGED file \/ Creation
      \/ Complete /\ SegmentsKept
  <2>1. Complete => SegmentsKept
    BY KeptByRows DEF IInv, Complete
  <2>2. QED
    BY <2>1 DEF Next, vars, Creation, RefuseCreate, Reserve, FailReserve, Handle, Settle, Store, FailUpload, Attach, FailAttach, Delete,
         CancelReservation, Drop, Restart, OpenDownload, ListObjects
<1>5. CASE UNCHANGED file
  <2>1. Completed => SegmentsKept
    BY <1>1 DEF Added
  <2>2. QED
    BY <1>2, <1>5, <2>1 DEF Counted, Completed
<1>6. CASE Creation
  BY <1>2, <1>6 DEF Creation, CreateFile, NoFile, Counted, Completed
<1>7. CASE Complete /\ SegmentsKept
  BY <1>2, <1>3, <1>7 DEF Complete, Completable, Counted, Completed
<1>8. QED
  BY <1>4, <1>5, <1>6, <1>7

(* A download keeps reading the file it began with.                         *)
LEMMA ReadingStep == IInv /\ Known /\ Counted /\ Reading /\ [Next]_vars => Reading'
<1> SUFFICES ASSUME IInv, Known, Counted, Reading, [Next]_vars PROVE Reading'
  OBVIOUS
<1>1. SegmentsKept \/ \E r \in Request, i \in Index : Added(r, i)
  BY SegmentsStep
<1>2. Completed => UNCHANGED file /\ SegmentsKept
  <2>1. Completed => UNCHANGED file
    BY DEF Next, vars, Creation, CreateFile, RefuseCreate, Reserve, FailReserve, Handle, Settle, Store, FailUpload, Attach, FailAttach, Delete,
         CancelReservation, Drop, Restart, Complete, OpenDownload, ListObjects, IInv, Sealed
  <2>2. QED
    BY <1>1, <2>1 DEF Added
<1>3. Completed => [i \in AttachedAt(rows) |-> rows[i]]' = [i \in AttachedAt(rows) |-> rows[i]]
  BY <1>2 DEF SegmentsKept
<1>4. CASE UNCHANGED get
  BY <1>2, <1>3, <1>4 DEF Reading, Completed
<1>5. CASE Restart
  BY <1>5 DEF Restart, Reading
<1>6. CASE OpenDownload
  <2>1. file.size \in Nat
    BY <1>6 DEF OpenDownload, Completed, Counted
  <2>2. QED
    BY <1>6, <2>1 DEF OpenDownload, Reading, Completed
<1>7. CASE ListObjects
  <2>1. get' = [get EXCEPT !.pc = "open", !.objects = [i \in AttachedAt(rows) |-> rows[i]]]
    BY <1>7 DEF ListObjects
  <2>2. get'.pc = "open" /\ get'.size = get.size
        /\ get'.objects = [i \in AttachedAt(rows) |-> rows[i]]
        /\ get' = [pc |-> get'.pc, size |-> get'.size, objects |-> get'.objects]
    <3> DEFINE segments == [i \in AttachedAt(rows) |-> rows[i]]
    <3>1. get' = [get EXCEPT !.pc = "open", !.objects = segments]
      BY <2>1
    <3> HIDE DEF segments
    <3>2. get'.pc = "open" /\ get'.size = get.size /\ get'.objects = segments
          /\ get' = [pc |-> get'.pc, size |-> get'.size, objects |-> get'.objects]
      BY <3>1 DEF Reading
    <3>3. QED
      BY <3>2 DEF segments
  <2>3. UNCHANGED <<file, rows>> /\ Completed
    BY <1>7 DEF ListObjects, Reading
  <2>4. AttachedAt(rows)' = AttachedAt(rows) /\ AttachedAt(rows) \subseteq Index
    BY <2>3 DEF AttachedAt
  <2>5. [i \in AttachedAt(rows) |-> rows[i]]' = [i \in AttachedAt(rows) |-> rows[i]]
    BY <2>3, <2>4
  <2>6. DOMAIN get'.objects \subseteq Index
    BY <2>2, <2>4
  <2>7. get'.objects = [i \in AttachedAt(rows) |-> rows[i]]'
    BY <2>2, <2>5
  <2>8. get'.size \in Nat /\ Completed' /\ get'.size = file'.size
    BY <1>7, <2>2, <2>3 DEF ListObjects, Reading, Completed
  <2>9. QED
    BY <2>2, <2>6, <2>7, <2>8 DEF Reading
<1>8. QED
  BY <1>4, <1>5, <1>6, <1>7
     DEF Next, vars, Creation, CreateFile, RefuseCreate, Reserve, FailReserve, Handle, Settle, Store, FailUpload, Attach, FailAttach, Delete,
         CancelReservation, Drop, Complete

(* The history variable names requests.                                     *)
LEMMA HistoryStep == leaked \subseteq Request /\ [Next]_vars => leaked' \subseteq Request
<1> SUFFICES ASSUME leaked \subseteq Request, [Next]_vars PROVE leaked' \subseteq Request
  OBVIOUS
<1>1. ASSUME NEW R \in SUBSET Request, Lose(R) PROVE leaked' \subseteq Request
  BY <1>1 DEF Lose
<1>2. ASSUME NEW r \in Request, Handle(r) PROVE leaked' \subseteq Request
  BY <1>2 DEF Handle, Settle, Store, FailUpload, Attach, FailAttach, Delete, CancelReservation
<1>3. QED
  BY <1>1, <1>2 DEF Next, vars, Creation, CreateFile, RefuseCreate, Reserve, FailReserve, Drop, Restart, Complete, OpenDownload, ListObjects

(* All of it, always.                                                       *)
LEMMA FileInvariant ==
  Spec => [](IInv /\ Known /\ Counted /\ Reading /\ leaked \subseteq Request)
<1>1. Init => IInv /\ Known /\ Counted /\ Reading /\ leaked \subseteq Request
  BY InitIInv, CountedAtStart
<1>2. IInv /\ Known /\ Counted /\ Reading /\ leaked \subseteq Request /\ [Next]_vars
        => (IInv /\ Known /\ Counted /\ Reading /\ leaked \subseteq Request)'
  BY NextIInv, KnownStep, CountedStep, ReadingStep, HistoryStep
<1>3. QED
  BY <1>1, <1>2, PTL DEF Spec

(* Every variable has its type; the size a file was completed with is       *)
(* within what was allocated for it.                                        *)
THEOREM TypeCorrect == Spec => []TypeOK
<1>1. IInv /\ Counted /\ Reading /\ leaked \subseteq Request => TypeOK
  <2> SUFFICES ASSUME IInv, Counted, Reading, leaked \subseteq Request PROVE TypeOK
    OBVIOUS
  <2>1. file.expected \in Allocations \cup {-1} /\ file.size \in Nat \cup {-1}
    BY DEF Counted
  <2>2. Completed => file.expected \in Nat /\ file.size <= file.expected
    BY <2>1, GatewayAssumption DEF Counted, IInv, Sealed, Exists
  <2>3. file.expected = -1 \/ file.expected \in Nat
    BY <2>1, GatewayAssumption
  <2>4. file.size \in -1..file.expected
    BY <2>1, <2>2, <2>3 DEF Completed
  <2>5. QED
    BY <2>1, <2>4 DEF TypeOK, IInv, CatalogOK, Handler, Reading
<1>2. QED
  BY <1>1, FileInvariant, PTL

(* A downwards closed finite set of indices is an interval from zero.       *)
LEMMA InitialSegment ==
  ASSUME NEW A \in SUBSET Nat, IsFiniteSet(A), \A i \in A : \A j \in 0..i : j \in A
  PROVE  A = 0..(Cardinality(A) - 1)
<1> DEFINE n == Cardinality(A)
<1>1. n \in Nat
  BY FS_CardinalityType
<1>2. n \notin A
  <2>1. SUFFICES ASSUME n \in A PROVE FALSE
    OBVIOUS
  <2>2. (0..n) \in SUBSET A
    BY <1>1, <2>1
  <2>3. Cardinality(0..n) = n + 1
    BY <1>1, FS_Interval
  <2>4. Cardinality(0..n) <= n
    BY <2>2, FS_Subset
  <2>5. QED
    BY <1>1, <2>3, <2>4
<1>3. A \in SUBSET (0..(n - 1))
  <2>1. SUFFICES ASSUME NEW i \in A, ~ (i < n) PROVE FALSE
    BY <1>1
  <2>2. n \in 0..i
    BY <1>1, <2>1
  <2>3. QED
    BY <1>2, <2>1, <2>2
<1> HIDE DEF n
<1>4. IsFiniteSet(0..(n - 1)) /\ Cardinality(0..(n - 1)) = n
  <2>1. 0 \in Int /\ n - 1 \in Int
    BY <1>1
  <2>2. /\ IsFiniteSet(0..(n - 1))
        /\ Cardinality(0..(n - 1)) = IF 0 > n - 1 THEN 0 ELSE (n - 1) - 0 + 1
    BY <2>1, FS_Interval, Zenon
  <2>3. QED
    BY <1>1, <2>2
<1>5. QED
  BY <1>3, <1>4, FS_Subset DEF n

(* The size and the objects of a download, read in two queries, are those   *)
(* of one file: its objects have the size, and their indices have no gap.   *)
THEOREM DownloadsAreWhole == Spec => []DownloadsAgree
<1>1. ASSUME IInv, Counted, Reading, get.pc = "open"
      PROVE  /\ get.size = SumFunction([i \in DOMAIN get.objects |-> req[get.objects[i]].size])
             /\ DOMAIN get.objects = 0..(Cardinality(DOMAIN get.objects) - 1)
  <2> DEFINE A == AttachedAt(rows)
  <2>1. /\ Completed /\ get.size = Used /\ IsFiniteSet(A) /\ GapFree
        /\ get.objects = [i \in A |-> rows[i]]
    BY <1>1 DEF Reading, Counted, IInv, Sealed
  <2>2. DOMAIN get.objects = A
    BY <2>1
  <2>3. [i \in DOMAIN get.objects |-> req[get.objects[i]].size] = [i \in A |-> SizeAt(i)]
    BY <2>1, <2>2 DEF SizeAt
  <2>4. get.size = SumFunction([i \in DOMAIN get.objects |-> req[get.objects[i]].size])
    BY <2>1, <2>3, Zenon DEF Used
  <2>5. A \in SUBSET Nat /\ \A i \in A : \A j \in 0..i : j \in A
    BY <2>1, GatewayAssumption DEF AttachedAt, GapFree
  <2> HIDE DEF A
  <2>6. A = 0..(Cardinality(A) - 1)
    BY <2>1, <2>5, InitialSegment
  <2>7. DOMAIN get.objects = 0..(Cardinality(DOMAIN get.objects) - 1)
    BY <2>2, <2>6, Zenon
  <2>8. QED
    BY <2>4, <2>7
<1>2. IInv /\ Counted /\ Reading => DownloadsAgree
  BY <1>1 DEF DownloadsAgree
<1>3. QED
  BY <1>2, FileInvariant, PTL
----------------------------------------------------------------------------
(* The gateway implements SegmentedFile *)

(* The segments of the catalog, as SegmentedFile sees them.                 *)
Segments == [i \in AttachedAt(rows) |-> [id |-> rows[i], size |-> SizeAt(i)]]

(* Both modules take their sum from the same library module.                *)
LEMMA SameSum == \A f : File!SumFunction(f) = SumFunction(f)
BY DEF File!SumFunction, File!SumFunctionOnSet, File!FoldFunctionOnSet, File!MapThenFoldSet,
       SumFunction, SumFunctionOnSet, FoldFunctionOnSet, MapThenFoldSet

(* Segments that are kept are kept in the abstract file.                    *)
LEMMA SegmentsSame == SegmentsKept => Segments' = Segments
BY DEF SegmentsKept, Segments

(* The successful transaction of attach_segment is an addition within the   *)
(* allocation: the check of the sum happens in the same transaction.        *)
LEMMA AddedAdds ==
  ASSUME IInv, Counted, NEW r \in Request, NEW i \in Index, Added(r, i)
  PROVE  File!Add
<1>1. Used' = Used + req[r].size
  BY UsedStep
<1>2. req[r].size \in Size
  BY DEF IInv, CatalogOK, Handler
<1>3. /\ Exists /\ ~ Completed /\ Fits(r) /\ UNCHANGED file
      /\ i \in Index \ DOMAIN Segments
      /\ \A j \in DOMAIN Segments : Segments[j].id # r
  BY DEF Added, Segments
<1>4. Segments' = [j \in DOMAIN Segments \cup {i} |->
                     IF j = i THEN [id |-> r, size |-> req[r].size] ELSE Segments[j]]
  <2>1. /\ AttachedAt(rows)' = AttachedAt(rows) \cup {i} /\ i \notin AttachedAt(rows)
        /\ rows'[i] = r /\ SizeAt(i)' = req[r].size
        /\ \A j \in AttachedAt(rows) : rows'[j] = rows[j] /\ SizeAt(j)' = SizeAt(j)
    BY DEF Added
  <2>2. QED
    BY <2>1 DEF Segments
<1>5. [j \in DOMAIN Segments' |-> Segments'[j].size] = [j \in AttachedAt(rows) |-> SizeAt(j)]'
  BY DEF Segments
<1>6. SumFunction([j \in DOMAIN Segments' |-> Segments'[j].size]) = Used'
  BY <1>5, Zenon DEF Used
<1>7. Used' <= file.expected
  BY <1>1, <1>3 DEF Fits
<1> DEFINE Abstract ==
      /\ file.expected # -1 /\ ~ Completed
      /\ \E j \in Index \ DOMAIN Segments, id \in Request, size \in Size :
           /\ \A k \in DOMAIN Segments : Segments[k].id # id
           /\ Segments' = [k \in DOMAIN Segments \cup {j} |->
                            IF k = j THEN [id |-> id, size |-> size] ELSE Segments[k]]
      /\ SumFunction([j \in DOMAIN Segments' |-> Segments'[j].size]) <= file.expected
      /\ file'.expected = file.expected /\ Completed' = Completed
<1>8. Abstract
  BY <1>2, <1>3, <1>4, <1>6, <1>7 DEF Exists, Completed
<1>9. File!Add <=> Abstract
  BY SameSum, Zenon DEF File!Add, File!Bytes, Segments
<1>10. QED
  BY <1>8, <1>9

(* Completion seals a contiguous and aligned file.                          *)
LEMMA CompleteSeals ==
  ASSUME IInv, Known, Counted, Complete
  PROVE  File!Seal
<1>1. UNCHANGED <<rows, req>> /\ file' = [file EXCEPT !.size = Used] /\ Used \in Nat
  BY UsedNat DEF Complete
<1>2. Segments' = Segments
  BY <1>1 DEF Segments, AttachedAt, SizeAt
<1>3. Exists /\ ~ Completed /\ Completed' /\ file'.expected = file.expected
  BY <1>1 DEF Complete, Counted, Completed
<1>4. GapFree /\ FrameAligned
  BY DEF Complete, Completable
<1>5. File!Contiguous(Segments)
  BY <1>4 DEF File!Contiguous, Segments, GapFree
<1>6. File!Aligned(Segments)
  <2>1. SUFFICES ASSUME NEW i \in AttachedAt(rows), i + 1 \in AttachedAt(rows)
                 PROVE  SizeAt(i) % Payload = 0
    BY DEF File!Aligned, Segments
  <2>2. i + 1 > i
    BY GatewayAssumption DEF AttachedAt
  <2>3. QED
    BY <1>4, <2>1, <2>2 DEF FrameAligned
<1> DEFINE Abstract ==
      /\ file.expected # -1 /\ ~ Completed
      /\ File!Contiguous(Segments) /\ File!Aligned(Segments)
      /\ Completed'
      /\ file'.expected = file.expected /\ Segments' = Segments
<1>7. Abstract
  BY <1>2, <1>3, <1>5, <1>6 DEF Exists
<1>8. File!Seal <=> Abstract
  BY DEF File!Seal, Segments
<1>9. QED
  BY <1>7, <1>8

(* Every step of the gateway is one of the file's, or none.                 *)
LEMMA FileStep ==
  IInv /\ Known /\ Counted /\ [Next]_vars
    => [File!Next]_<<file.expected, Segments, Completed>>
<1> SUFFICES ASSUME IInv, Known, Counted, [Next]_vars
             PROVE  File!Next \/ UNCHANGED <<file.expected, Segments, Completed>>
  OBVIOUS
<1>1. SegmentsKept \/ \E r \in Request, i \in Index : Added(r, i)
  BY SegmentsStep
<1>2. CASE Complete
  BY <1>2, CompleteSeals DEF File!Next
<1>3. CASE UNCHANGED file /\ SegmentsKept
  BY <1>3, SegmentsSame DEF Completed
<1>4. ASSUME NEW r \in Request, NEW i \in Index, Added(r, i)
      PROVE  File!Next
  BY <1>4, AddedAdds DEF File!Next
<1>5. CASE Creation
  <2>1. SegmentsKept
    BY <1>5, KeptByRows DEF Creation, CreateFile, IInv
  <2>2. file.expected = -1 /\ ~ Completed
    BY <1>5 DEF Creation, CreateFile, Exists, IInv, Sealed
  <2>3. file'.expected \in Nat /\ ~ Completed'
    BY <1>5, GatewayAssumption DEF Creation, CreateFile, NoFile, Completed
  <2>4. Segments' = Segments
    BY <2>1, SegmentsSame
  <2>5. File!Allocate
    <3>1. UNCHANGED <<Segments, Completed>>
      BY <2>2, <2>3, <2>4 DEF Completed
    <3>2. QED
      BY <2>2, <2>3, <3>1, Zenon DEF File!Allocate, Segments
  <2>6. QED
    BY <2>5 DEF File!Next
<1>6. UNCHANGED file \/ Complete \/ Creation
  BY DEF Next, vars, Creation, RefuseCreate, Reserve, FailReserve, Handle, Settle, Store, FailUpload, Attach, FailAttach, Delete,
         CancelReservation, Drop, Restart, OpenDownload, ListObjects
<1>7. QED
  BY <1>1, <1>2, <1>3, <1>4, <1>5, <1>6

(* Whatever the interleaving of uploads, clean-ups, losses and restarts,    *)
(* segments are only ever added, one per index and within the allocation,   *)
(* and a completed file is contiguous, aligned and final.                   *)
THEOREM GatewayImplementsFile == Spec => ImplementsFile
<1>1. Init => File!Init
  <2> SUFFICES ASSUME Init PROVE File!Init
    OBVIOUS
  <2>1. AttachedAt(rows) = {}
    BY GatewayAssumption DEF Init, AttachedAt
  <2>2. file.expected = -1 /\ ~ Completed
    BY DEF Init, NoFile, Completed
  <2>3. Segments = <<>>
    BY <2>1 DEF Segments
  <2>4. QED
    BY <2>2, <2>3 DEF File!Init, Segments
<1>2. IInv /\ Known /\ Counted /\ [Next]_vars
        => [File!Next]_<<file.expected, Segments, Completed>>
  BY FileStep
<1>3. QED
  BY <1>1, <1>2, FileInvariant, PTL DEF Spec, ImplementsFile, File!Spec, Segments
============================================================================
