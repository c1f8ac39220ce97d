------------------------- MODULE FilesServiceProofs -------------------------
(***************************************************************************)
(* Proofs about FilesService: the client, the gateway and the cached URLs  *)
(* together, for every order, input, number of attempts and readers, every *)
(* fault and mishap, and every margin.                                     *)
(***************************************************************************)
EXTENDS FilesService, FilesGatewayProofs

(* What reaches the gateway is a block, at its own index. *)
Asked ==
  \A r \in Request : req[r].pc # "new" =>
    req[r].index = BlockOf[r] /\ req[r].size = Input[BlockOf[r] + 1]

(* An attempt that the client counts as done has been answered 201. *)
Heard == \A r \in Request : try[r] = "ok" => req[r].pc = "created"

(* Only blocks that were read have been tried. *)
Begun == \A r \in Request : try[r] # "none" => BlockOf[r] < read

(* Completion is asked for when every block is done. *)
Ready ==
  /\ cli \in {"completing", "printed"} => \A b \in Block : Acknowledged(b)
  /\ cli = "printed" => Completed

ClientIInv == IInv /\ ClientTypeOK /\ Asked /\ Heard /\ Begun /\ Ready

(* The gateway never goes back on an answer or on a completion. *)
LEMMA GatewayKeeps ==
  ASSUME IInv, [Next]_vars
  PROVE  /\ \A r \in Request : req[r].pc = "created" => req'[r] = req[r]
         /\ Completed => Completed'
         /\ \A r \in Request : req[r].pc # "new" =>
              /\ req'[r].pc # "new"
              /\ req'[r].index = req[r].index /\ req'[r].size = req[r].size
<1> USE DEF IInv
<1>1. CASE UNCHANGED <<file, req>>
  BY <1>1 DEF Completed
<1>2. CASE Creation \/ Complete
  BY <1>2 DEF Creation, CreateFile, Complete, Completed, Sealed, CatalogOK
<1>3. ASSUME NEW q \in Request, NEW i \in Index, NEW n \in Size,
             Reserve(q, i, n) \/ FailReserve(q, i, n)
      PROVE  /\ UNCHANGED file
             /\ \A r \in Request : req[r].pc # "new" => req'[r] = req[r]
  BY <1>3 DEF Reserve, FailReserve, CatalogOK
<1>4. ASSUME NEW q \in Request, Handle(q)
      PROVE  /\ UNCHANGED file
             /\ req[q].pc \in InFlight
             /\ \E pc \in InFlight \cup {"created", "refused"} : Goto(q, pc)
  BY <1>4 DEF Handle, Settle, Store, FailUpload, Attach, FailAttach, Delete, CancelReservation, InFlight
<1>5. ASSUME NEW R \in SUBSET Request, \A r \in R : Flying(r), Lose(R), UNCHANGED file
      PROVE  /\ \A r \in Request : req[r].pc = "created" => req'[r] = req[r]
             /\ \A r \in Request : req[r].pc # "new" =>
                  /\ req'[r].pc # "new"
                  /\ req'[r].index = req[r].index /\ req'[r].size = req[r].size
  BY <1>5 DEF Lose, Flying, InFlight, CatalogOK, Handler
<1>6. ASSUME NEW q \in Request, Handle(q)
      PROVE  /\ UNCHANGED file
             /\ \A r \in Request : req[r].pc = "created" => req'[r] = req[r]
             /\ \A r \in Request : req[r].pc # "new" =>
                  /\ req'[r].pc # "new"
                  /\ req'[r].index = req[r].index /\ req'[r].size = req[r].size
  <2>1. PICK pc \in InFlight \cup {"created", "refused"} : Goto(q, pc)
    BY <1>6, <1>4
  <2>2. req[q].pc # "created" /\ pc # "new" /\ UNCHANGED file
    BY <1>4, <1>6, <2>1 DEF InFlight
  <2> QED
    BY <2>1, <2>2 DEF Goto, CatalogOK, Handler
<1>7. CASE Restart \/ \E r \in Request : Drop(r)
  BY <1>5, <1>7 DEF Restart, Drop, Completed
<1> QED
  BY <1>1, <1>2, <1>3, <1>6, <1>7
     DEF Next, Creation, RefuseCreate, vars, OpenDownload, ListObjects, Completed

(* Each attempt at a block is one request. *)
LEMMA AttemptIsOne ==
  ASSUME NEW b \in Block, NEW a \in 0..Retries
  PROVE  /\ Attempt(b, a) \in Request
         /\ BlockOf[Attempt(b, a)] = b
         /\ AttemptOf[Attempt(b, a)] = a
<1>1. PICK r \in Request : {q \in Request : BlockOf[q] = b /\ AttemptOf[q] = a} = {r}
  BY ClientAssumption
<1>2. r \in Request /\ BlockOf[r] = b /\ AttemptOf[r] = a
  BY <1>1
<1> QED
  BY <1>2 DEF Attempt

(* A step of the client and the gateway is one of the gateway's, or none. *)
LEMMA ClientRefinesGateway ==
  ASSUME ClientTypeOK, ClientNext
  PROVE  [Next]_vars
<1> USE ClientAssumption
<1>1. ASSUME NEW r \in Request, Arrive(r) PROVE Next
  BY <1>1 DEF Arrive, Next
<1>2. ASSUME NEW r \in Request, Serve(r) PROVE Next
  BY <1>2 DEF Serve, Handle, Settle, Next
<1>3. ASSUME NEW r \in Request, Break(r) PROVE UNCHANGED vars
  BY <1>3 DEF Break
<1>4. CASE ServeComplete \/ Fail
  BY <1>4 DEF ServeComplete, Fail, Next
<1>5. CASE Create
  <2>1. order.size \in Allocations /\ order.named \in BOOLEAN
    BY DEF ClientTypeOK
  <2> QED
    BY <1>5, <2>1 DEF Create, Allocate, Next
<1>6. CASE Client /\ ~ Create
  BY <1>6 DEF Client, ReadBlock, Finish, PrintUrl, Answered, Retry, GiveUp, Next
<1> QED
  BY <1>1, <1>2, <1>3, <1>4, <1>5, <1>6 DEF ClientNext

(* The client's variables stay in their types. *)
LEMMA ClientTypes ==
  ASSUME ClientTypeOK, ClientNext
  PROVE  ClientTypeOK'
<1> USE ClientAssumption DEF ClientTypeOK
<1>1. Len(Input) \in Nat
  OBVIOUS
<1>2. ASSUME NEW r \in Request, Arrive(r) \/ Serve(r) \/ Break(r) PROVE ClientTypeOK'
  BY <1>2 DEF Arrive, Serve, Break, clientVars
<1>3. CASE ServeComplete \/ Fail
  BY <1>3 DEF ServeComplete, Fail, clientVars
<1>4. CASE ReadBlock
  <2>1. read' \in 0..Len(Input)
    BY <1>1, <1>4 DEF ReadBlock
  <2> QED
    BY <1>4, <2>1 DEF ReadBlock
<1>5. ASSUME NEW r \in Request, Answered(r) \/ Retry(r) \/ GiveUp(r) PROVE ClientTypeOK'
  BY <1>5 DEF Answered, Retry, GiveUp
<1>6. CASE Create \/ Finish \/ PrintUrl
  BY <1>6 DEF Create, Finish, PrintUrl
<1> QED
  BY <1>2, <1>3, <1>4, <1>5, <1>6 DEF ClientNext, Client

(* What arrives is what was read. *)
LEMMA AskedKept ==
  ASSUME IInv, ClientTypeOK, Asked, ClientNext
  PROVE  Asked'
<1>1. [Next]_vars
  BY ClientRefinesGateway
<1>2. ASSUME NEW r \in Request, req[r].pc # "new"
      PROVE  req'[r].index = BlockOf[r] /\ req'[r].size = Input[BlockOf[r] + 1]
  BY <1>1, <1>2, GatewayKeeps DEF Asked
<1>3. ASSUME NEW q \in Request, Arrive(q)
      PROVE  \A r \in Request : req[r].pc = "new" /\ req'[r].pc # "new" =>
               req'[r].index = BlockOf[r] /\ req'[r].size = Input[BlockOf[r] + 1]
  BY <1>3 DEF Arrive, Reserve, FailReserve, IInv, CatalogOK
<1>4. ASSUME NEW q \in Request, Serve(q)
      PROVE  \A r \in Request : req[r].pc = "new" => req'[r].pc = "new"
  <2>1. Handle(q)
    BY <1>4 DEF Serve, Handle, Settle
  <2>2. req[q].pc # "new" /\ \A r \in Request : r # q => req'[r] = req[r]
    BY <2>1 DEF Handle, Settle, Store, FailUpload, Attach, FailAttach, Delete, CancelReservation,
               Goto, IInv, CatalogOK
  <2> QED
    BY <2>2
<1>5. ASSUME NEW R \in SUBSET Request, \A r \in R : Flying(r), Lose(R)
      PROVE  \A r \in Request : req[r].pc = "new" => req'[r].pc = "new"
  BY <1>5 DEF Lose, Flying, InFlight, IInv, CatalogOK
<1>6. CASE Fail
  <2>1. \A r \in Request : req[r].pc = "new" => req'[r].pc = "new"
    BY <1>5, <1>6 DEF Fail, Restart, Drop
  <2> QED
    BY <1>2, <2>1 DEF Asked
<1>7. CASE Client \/ ServeComplete \/ \E r \in Request : Break(r)
  <2>1. UNCHANGED req
    BY <1>7 DEF Client, ServeComplete, Break, Create, Allocate, CreateFile, RefuseCreate,
                Complete, ReadBlock, Finish,
                PrintUrl, Answered, Retry, GiveUp, vars
  <2> QED
    BY <2>1 DEF Asked
<1>8. CASE \E r \in Request : Arrive(r) \/ Serve(r)
  BY <1>2, <1>3, <1>4, <1>8 DEF Asked
<1> QED
  BY <1>6, <1>7, <1>8 DEF ClientNext

(* The client believes an answer of success only. *)
LEMMA HeardKept ==
  ASSUME IInv, ClientTypeOK, Heard, ClientNext
  PROVE  Heard'
<1>1. [Next]_vars
  BY ClientRefinesGateway
<1>2. ASSUME NEW r \in Request, try'[r] = "ok", try[r] # "ok"
      PROVE  req[r].pc = "created"
  BY <1>2 DEF ClientNext, Client, Create, ReadBlock, Finish, PrintUrl, Answered, Retry, GiveUp,
              Break, Arrive, Serve, ServeComplete, Fail, clientVars, ClientTypeOK, Success
<1> QED
  BY <1>1, <1>2, GatewayKeeps DEF Heard

(* A request is tried for a block that was read. *)
LEMMA BegunKept ==
  ASSUME ClientTypeOK, Begun, ClientNext
  PROVE  Begun'
<1> USE ClientAssumption DEF ClientTypeOK, Begun
<1>1. \A r \in Request : BlockOf[r] \in Nat
  BY DEF Block
<1>2. CASE ReadBlock
  <2>1. \/ UNCHANGED <<read, try>>
        \/ /\ read \in Block /\ read' = read + 1
           /\ try' = [try EXCEPT ![Attempt(read, 0)] = "sent"]
    BY <1>2 DEF ReadBlock, Block
  <2>2. read \in Block => Attempt(read, 0) \in Request /\ BlockOf[Attempt(read, 0)] = read
    BY AttemptIsOne
  <2> QED
    BY <1>1, <2>1, <2>2
<1>3. ASSUME NEW r \in Request, Retry(r)
      PROVE  Begun'
  <2> DEFINE next == Attempt(BlockOf[r], AttemptOf[r] + 1)
  <2>1. AttemptOf[r] + 1 \in 0..Retries /\ BlockOf[r] \in Block
    BY <1>3 DEF Retry
  <2>2. next \in Request /\ BlockOf[next] = BlockOf[r]
    BY <2>1, AttemptIsOne
  <2>3. try[r] = "failed" /\ read' = read /\ try' = [try EXCEPT ![next] = "sent"]
    BY <1>3 DEF Retry
  <2> HIDE DEF next
  <2> QED
    BY <2>2, <2>3
<1> QED
  BY <1>2, <1>3 DEF ClientNext, Client, Create, Finish, PrintUrl, Answered, GiveUp,
                    Break, Arrive, Serve, ServeComplete, Fail, clientVars

(* A block stays done, and completion begins when all are. *)
LEMMA ReadyKept ==
  ASSUME IInv, ClientTypeOK, Begun, Ready, ClientNext
  PROVE  Ready'
<1> USE ClientAssumption
<1>1. [Next]_vars
  BY ClientRefinesGateway
<1>2. \A r \in Request : try[r] = "ok" => try'[r] = "ok"
  <2>1. CASE ReadBlock
    <3>1. /\ \/ UNCHANGED try
             \/ read \in Block /\ try' = [try EXCEPT ![Attempt(read, 0)] = "sent"]
      BY <2>1 DEF ReadBlock, ClientTypeOK, Block
    <3>2. read \in Block => try[Attempt(read, 0)] = "none"
      BY AttemptIsOne DEF Begun, ClientTypeOK, Block
    <3> QED
      BY <3>1, <3>2 DEF ClientTypeOK
  <2> QED
    BY <2>1
       DEF ClientNext, Client, Create, Finish, PrintUrl, Answered, Retry, GiveUp,
           Break, Arrive, Serve, ServeComplete, Fail, clientVars, ClientTypeOK
<1>3. \A b \in Block : Acknowledged(b) => Acknowledged(b)'
  BY <1>2 DEF Acknowledged
<1>4. CASE Finish
  <2>1. \A b \in Block : Acknowledged(b)
    BY <1>4 DEF Finish, AllSent, Current, Block
  <2> QED
    BY <1>3, <1>4, <2>1 DEF Finish, Ready
<1>5. CASE PrintUrl
  BY <1>1, <1>3, <1>5, GatewayKeeps DEF PrintUrl, Ready
<1>6. CASE Create
  BY <1>6 DEF Create, Ready
<1>7. CASE UNCHANGED cli \/ cli' = "failed"
  BY <1>1, <1>3, <1>7, GatewayKeeps DEF Ready
<1> QED
  BY <1>4, <1>5, <1>6, <1>7
     DEF ClientNext, Client, ReadBlock, Answered, Retry, GiveUp,
         Break, Arrive, Serve, ServeComplete, Fail, clientVars

LEMMA ClientStep ==
  ASSUME ClientIInv, ClientNext
  PROVE  ClientIInv'
BY ClientRefinesGateway, NextIInv, ClientTypes, AskedKept, HeardKept, BegunKept,
   ReadyKept DEF ClientIInv

----------------------------------------------------------------------------
(* The cached URLs *)

Look == [pc: {"none", "looking", "resolving", "saving", "held"},
         segment: Request, due: Nat, url: Nat]

(* A URL that was chosen outlives what is left of the margin. *)
TicketOK(t) ==
  /\ t.due <= Margin
  /\ t.pc \in {"saving", "held"} /\ t.due > 0 => t.url > t.due

UrlIInv ==
  /\ cached \in [Request -> Nat]
  /\ ticket \in [Reader -> Look]
  /\ \A d \in Reader : TicketOK(ticket[d])

(* A download changes one reader's ticket, or lets time pass. *)
LEMMA UrlStep ==
  ASSUME UrlIInv, Download
  PROVE  UrlIInv'
<1> USE UrlAssumption DEF UrlIInv, Look, TicketOK
<1>1. CASE Urls!Tick
  <2>1. \A n \in Nat : /\ Urls!Less(n) \in Nat /\ Urls!Less(n) <= n
                       /\ Urls!Less(n) = IF n = 0 THEN 0 ELSE n - 1
    BY DEF Urls!Less
  <2>2. \A d \in Reader :
          ticket'[d] = [pc |-> ticket[d].pc, segment |-> ticket[d].segment,
                        due |-> Urls!Less(ticket[d].due), url |-> Urls!Less(ticket[d].url)]
    BY <1>1 DEF Urls!Tick
  <2>3. ticket' \in [Reader -> Look] /\ cached' \in [Request -> Nat]
    BY <1>1, <2>1, <2>2 DEF Urls!Tick
  <2>4. \A d \in Reader : TicketOK(ticket'[d])
    <3> SUFFICES ASSUME NEW d \in Reader PROVE TicketOK(ticket'[d])
      OBVIOUS
    <3>1. ticket[d].due \in Nat /\ ticket[d].url \in Nat /\ TicketOK(ticket[d])
      OBVIOUS
    <3>2. ticket'[d] = [pc |-> ticket[d].pc, segment |-> ticket[d].segment,
                        due |-> Urls!Less(ticket[d].due), url |-> Urls!Less(ticket[d].url)]
      BY <2>2
    <3>3. /\ ticket'[d].pc = ticket[d].pc
          /\ ticket'[d].due = Urls!Less(ticket[d].due)
          /\ ticket'[d].url = Urls!Less(ticket[d].url)
      BY ONLY <3>2
    <3> QED
      BY <2>1, <3>1, <3>3
  <2> QED
    BY <2>3, <2>4
<1>2. ASSUME NEW d \in Reader, NEW s \in Attached, Urls!Ask(d, s)
      PROVE  UrlIInv'
  BY <1>2 DEF Urls!Ask, Attached
<1>3. ASSUME NEW d \in Reader, Urls!Look(d)
      PROVE  UrlIInv'
  BY <1>3 DEF Urls!Look, Urls!Reusable
<1>4. ASSUME NEW d \in Reader, Urls!Resolve(d)
      PROVE  UrlIInv'
  <2>1. PICK n \in Fresh :
          ticket' = [ticket EXCEPT ![d] = [ticket[d] EXCEPT !.pc = "saving", !.url = n]]
    BY <1>4 DEF Urls!Resolve
  <2>2. n \in Nat /\ n > Margin /\ cached' = cached
    BY <1>4 DEF Urls!Resolve
  <2>3. \A e \in Reader : e # d => ticket'[e] = ticket[e]
    BY <2>1
  <2>4. /\ ticket'[d].pc = "saving" /\ ticket'[d].segment = ticket[d].segment
        /\ ticket'[d].due = ticket[d].due /\ ticket'[d].url = n
        /\ ticket' \in [Reader -> Look]
    BY <2>1, <2>2
  <2> QED
    BY <2>2, <2>3, <2>4
<1>5. ASSUME NEW d \in Reader, Urls!Save(d)
      PROVE  UrlIInv'
  BY <1>5 DEF Urls!Save
<1>6. ASSUME NEW d \in Reader, Urls!Release(d)
      PROVE  UrlIInv'
  BY <1>6 DEF Urls!Release, Urls!NoTicket
<1> QED
  BY <1>1, <1>2, <1>3, <1>4, <1>5, <1>6 DEF Download
(* An upload stores the URL of the segment it attaches. *)
LEMMA KeepStep ==
  ASSUME UrlIInv, Upload
  PROVE  UrlIInv'
<1>1. ASSUME NEW s \in Request, Urls!Keep(s)
      PROVE  cached' \in [Request -> Nat]
  BY <1>1, UrlAssumption DEF Urls!Keep, UrlIInv
<1>2. UNCHANGED ticket /\ cached' \in [Request -> Nat]
  BY <1>1 DEF Upload, Attached, UrlIInv
<1> QED
  BY <1>2 DEF UrlIInv, TicketOK

----------------------------------------------------------------------------
(* The three together *)

ServiceIInv == ClientIInv /\ UrlIInv

LEMMA InitServiceIInv == ServiceInit => ServiceIInv
<1> SUFFICES ASSUME ServiceInit PROVE ServiceIInv
  OBVIOUS
<1>1. IInv
  BY InitIInv DEF ServiceInit, ClientInit
<1>2. ClientTypeOK
  <2>1. Len(Input) \in Nat
    BY ClientAssumption
  <2>2. 0 \in 0..Len(Input)
    BY <2>1
  <2> QED
    BY <2>2 DEF ServiceInit, ClientInit, ClientTypeOK
<1>3. Asked /\ Heard /\ Begun /\ Ready
  BY DEF ServiceInit, ClientInit, Init, Asked, Heard, Begun, Ready
<1>4. UrlIInv
  <2>1. (CHOOSE s \in Request : TRUE) \in Request
    <3>1. 0 \in Block
      BY ClientAssumption, GatewayAssumption DEF Block
    <3> QED
      BY <3>1, AttemptIsOne, ClientAssumption
  <2> QED
    BY <2>1, UrlAssumption
       DEF ServiceInit, Urls!Init, Urls!NoTicket, UrlIInv, Look, TicketOK
<1> QED
  BY <1>1, <1>2, <1>3, <1>4 DEF ServiceIInv, ClientIInv

LEMMA NextServiceIInv == ServiceIInv /\ [ServiceNext]_serviceVars => ServiceIInv'
<1> SUFFICES ASSUME ServiceIInv, [ServiceNext]_serviceVars PROVE ServiceIInv'
  OBVIOUS
<1>1. CASE Upload
  BY <1>1, ClientStep, KeepStep DEF Upload, ServiceIInv
<1>2. ASSUME UNCHANGED allVars PROVE ClientIInv'
  <2>1. UNCHANGED vars /\ UNCHANGED clientVars
    BY <1>2 DEF allVars
  <2>2. IInv'
    BY <2>1, NextIInv DEF ServiceIInv, ClientIInv
  <2>3. (ClientTypeOK /\ Asked /\ Heard /\ Begun /\ Ready)'
    BY <2>1 DEF ServiceIInv, ClientIInv, vars, clientVars, ClientTypeOK, Asked, Heard, Begun,
                Ready, Acknowledged, Completed
  <2> QED
    BY <2>2, <2>3 DEF ClientIInv
<1>3. CASE Download
  BY <1>2, <1>3, UrlStep DEF Download, ServiceIInv
<1>4. CASE UNCHANGED serviceVars
  BY <1>2, <1>4 DEF serviceVars, ServiceIInv, UrlIInv, TicketOK
<1> QED
  BY <1>1, <1>3, <1>4 DEF ServiceNext

THEOREM ServiceInvariant == FairService => []ServiceIInv
BY InitServiceIInv, NextServiceIInv, PTL DEF FairService

(* Once completion is asked for, every block is attached at its index. *)
LEMMA BlocksInPlace ==
  ASSUME ServiceIInv, cli \in {"completing", "printed"}, NEW b \in Block
  PROVE  b \in AttachedAt(rows) /\ BlockOf[rows[b]] = b /\ SizeAt(b) = Input[b + 1]
<1>1. PICK r \in Request : BlockOf[r] = b /\ req[r].pc = "created"
  BY DEF ServiceIInv, ClientIInv, Ready, Acknowledged, Heard
<1>2. req[r].index = b /\ req[r].size = Input[b + 1]
  BY <1>1 DEF ServiceIInv, ClientIInv, Asked
<1>3. PICK i \in Index : rows[i] = r
  BY <1>1 DEF ServiceIInv, ClientIInv, IInv, AnswersHold
<1>4. i = b
  BY <1>2, <1>3 DEF ServiceIInv, ClientIInv, IInv, Placed
<1> QED
  BY <1>1, <1>2, <1>3, <1>4 DEF AttachedAt, SizeAt

(* Whatever fails, is repeated or overtaken, a printed URL (main.rs:176)    *)
(* stands for the whole input.                                              *)
THEOREM UploadIsWhole == FairService => []PrintedWhole
<1>1. ServiceIInv => PrintedWhole
  <2> SUFFICES ASSUME ServiceIInv, cli = "printed"
               PROVE  /\ Completed
                      /\ \A b \in Block : /\ b \in AttachedAt(rows)
                                          /\ BlockOf[rows[b]] = b /\ SizeAt(b) = Input[b + 1]
    BY ClientAssumption DEF PrintedWhole, AttachedAt
  <2>1. Completed
    BY DEF ServiceIInv, ClientIInv, Ready
  <2> QED
    BY <2>1, BlocksInPlace
<1> QED
  BY <1>1, ServiceInvariant, PTL

(* No interleaving of readers, uploads and time hands out a URL that ends   *)
(* within the margin (download.rs:27).                                      *)
THEOREM UrlsOutliveMargin == FairService => []HeldValid
<1>1. ServiceIInv => HeldValid
  BY DEF ServiceIInv, UrlIInv, TicketOK, HeldValid, Urls!HeldValid
<1> QED
  BY <1>1, ServiceInvariant, PTL
----------------------------------------------------------------------------
(* The client fails for a reason *)

Unwelcome == order.size > MaxFileSize \/ ~ order.named
TooLarge == SumFunction(Input) > order.size
Spoilt == \E b \in Block : \A a \in 0..Retries : Attempt(b, a) \in spoilt
Cause == excuse \/ Unwelcome \/ TooLarge \/ Spoilt

(* Only what was sent arrives, and only after a failure is a block sent again. *)
Sent == \A r \in Request : req[r].pc # "new" => try[r] # "none"
Earlier(q, r) == BlockOf[q] = BlockOf[r] /\ AttemptOf[q] < AttemptOf[r]
OneByOne ==
  \A r, q \in Request : try[r] # "none" /\ Earlier(q, r) => try[q] = "failed"

(* As long as nothing is lost: the file is completed at the end only, an    *)
(* attempt fails when it is refused, an index is reserved by the one        *)
(* handler that serves it, and what is refused was spoilt or too large.     *)
FileReady ==
  /\ cli = "start" => \A r \in Request : try[r] = "none"
  /\ cli # "start" => Exists /\ file.expected = order.size
  /\ cli \in {"start", "sending"} => ~ Completed
FailedIsRefused == \A r \in Request : try[r] = "failed" => req[r].pc = "refused"
NoneLost == \A r \in Request : req[r].pc # "lost"
Reserving ==
  /\ \A r \in Request : req[r].pc \in {"uploading", "attaching"} => PendingAt(req[r].index)
  /\ \A i \in Index : PendingAt(i) => \E r \in Request : Flying(r) /\ req[r].index = i
RefusedForCause ==
  \A r \in Request :
    req[r].pc \in {"deleting", "cancelling", "refused"} => r \in spoilt \/ TooLarge
Undisturbed ==
  FileReady /\ FailedIsRefused /\ NoneLost /\ Reserving /\ RefusedForCause

FileShape == DOMAIN file = {"expected", "size"} /\ file.expected \in Allocations \cup {-1}

CauseInv ==
  /\ FileShape
  /\ Sent /\ OneByOne
  /\ cli = "failed" => Cause
  /\ ~ excuse /\ cli # "failed" => Undisturbed

(* Blocks and attempts are numbers, and tell requests apart. *)
LEMMA Attempts ==
  /\ \A r \in Request : /\ BlockOf[r] \in Block /\ BlockOf[r] \in Nat
                        /\ AttemptOf[r] \in 0..Retries /\ AttemptOf[r] \in Nat
  /\ \A q, r \in Request : BlockOf[q] = BlockOf[r] /\ AttemptOf[q] = AttemptOf[r] => q = r
<1>1. \A r \in Request : /\ BlockOf[r] \in Block /\ BlockOf[r] \in Nat
                         /\ AttemptOf[r] \in 0..Retries /\ AttemptOf[r] \in Nat
  BY ClientAssumption DEF Block
<1>2. ASSUME NEW q \in Request, NEW r \in Request,
             BlockOf[q] = BlockOf[r], AttemptOf[q] = AttemptOf[r]
      PROVE  q = r
  <2>1. PICK p \in Request :
          {x \in Request : BlockOf[x] = BlockOf[r] /\ AttemptOf[x] = AttemptOf[r]} = {p}
    BY <1>1, ClientAssumption
  <2> QED
    BY <1>2, <2>1
<1> QED
  BY <1>1, <1>2

(* Of two attempts at a block one has failed. *)
LEMMA OneHasFailed ==
  ASSUME OneByOne, NEW q \in Request, NEW r \in Request, q # r, BlockOf[q] = BlockOf[r],
         try[q] # "none", try[r] # "none"
  PROVE  try[q] = "failed" \/ try[r] = "failed"
<1>1. AttemptOf[q] < AttemptOf[r] \/ AttemptOf[r] < AttemptOf[q]
  <2>1. AttemptOf[q] # AttemptOf[r] /\ AttemptOf[q] \in Nat /\ AttemptOf[r] \in Nat
    BY Attempts
  <2> QED
    BY <2>1
<1> QED
  BY <1>1 DEF OneByOne, Earlier

(* So at most one of the requests for an index is neither new nor refused. *)
LEMMA OneAtATime ==
  ASSUME Sent, OneByOne, FailedIsRefused, Asked,
         NEW q \in Request, NEW r \in Request, q # r,
         req[q].pc \notin {"new", "refused"}, try[r] \in {"sent", "ok"}
  PROVE  BlockOf[q] # BlockOf[r]
<1>1. try[q] # "none" /\ try[q] # "failed"
  BY DEF Sent, FailedIsRefused
<1> QED
  BY <1>1, OneHasFailed

(* The attached blocks are no more than the input, with another one as well. *)
LEMMA PartOfInput ==
  ASSUME NEW A \in SUBSET Block
  PROVE  /\ IsFiniteSet(A)
         /\ SumFunctionOnSet([i \in A |-> Input[i + 1]], A) \in Nat
         /\ SumFunctionOnSet([i \in A |-> Input[i + 1]], A) <= SumFunction(Input)
         /\ SumFunction(Input) \in Nat
<1> DEFINE n == Len(Input)
           f == [i \in A |-> Input[i + 1]]
           m == [i \in A |-> i + 1]
           T == {m[x] : x \in A}
<1>1. /\ n \in Nat /\ DOMAIN Input = 1..n
      /\ \A i \in 1..n : Input[i] \in Nat
  BY ClientAssumption
<1>2. IsFiniteSet(A)
  <2>1. IsFiniteSet(Block)
    <3>1. 0 \in Int /\ n - 1 \in Int
      BY <1>1
    <3> QED
      BY <3>1, FS_Interval, Zenon DEF Block
  <2> QED
    BY <2>1, FS_Subset
<1>3. \A i \in A : i \in Int /\ i + 1 \in 1..n
  BY <1>1 DEF Block
<1>4. \A i \in A : m[i] = i + 1 /\ f[i] = Input[m[i]] /\ f[i] \in Nat
  BY <1>1, <1>3
<1>5. \A x, y \in A : m[x] = m[y] => x = y
  BY <1>3, <1>4
<1>6. T \in SUBSET (1..n)
  BY <1>3, <1>4
<1> HIDE DEF n, f, m
<1>7. SumFunctionOnSet(Input, T) = SumFunctionOnSet(f, A)
  BY <1>2, <1>4, <1>5, SumRenamed
<1> HIDE DEF T
<1>8. IsFiniteSet(1..n)
  BY <1>1, Numbers
<1>9. SumFunctionOnSet(Input, T) <= SumFunctionOnSet(Input, 1..n)
  BY <1>1, <1>6, <1>8, SumSubset
<1>10. SumFunctionOnSet(Input, 1..n) \in Nat /\ SumFunctionOnSet(f, A) \in Nat
  BY <1>1, <1>2, <1>4, <1>8, SumNat
<1>11. SumFunction(Input) = SumFunctionOnSet(Input, 1..n)
  BY <1>1, Zenon DEF SumFunction
<1> QED
  BY <1>2, <1>7, <1>9, <1>10, <1>11 DEF f

(* What is attached, and one more block that is not, is part of the input. *)
LEMMA UsedIsInput ==
  ASSUME IInv, Asked
  PROVE  /\ Used \in Nat /\ Used <= SumFunction(Input) /\ SumFunction(Input) \in Nat
         /\ \A b \in Block \ AttachedAt(rows) : Used + Input[b + 1] <= SumFunction(Input)
<1> DEFINE A == AttachedAt(rows)
           Blocks(S) == [i \in S |-> Input[i + 1]]
<1>1. A \in SUBSET Block
  BY ClientAssumption DEF AttachedAt
<1>2. \A i \in A : SizeAt(i) = Input[i + 1]
  <2> SUFFICES ASSUME NEW i \in A PROVE SizeAt(i) = Input[i + 1]
    OBVIOUS
  <2>1. rows[i] \in Request /\ req[rows[i]].pc = "created" /\ req[rows[i]].index = i
    BY DEF AttachedAt, IInv, AnswersHold, Placed
  <2> QED
    BY <2>1 DEF Asked, SizeAt
<1>3. Used = SumFunctionOnSet(Blocks(A), A)
  <2>1. [i \in A |-> SizeAt(i)] = Blocks(A) /\ DOMAIN Blocks(A) = A
    BY <1>2
  <2> QED
    BY <2>1, Zenon DEF Used, SumFunction
<1>4. ASSUME NEW b \in Block \ A
      PROVE  Used + Input[b + 1] <= SumFunction(Input)
  <2> DEFINE B == A \cup {b}
  <2>1. B \in SUBSET Block /\ IsFiniteSet(A) /\ b \notin A
    BY <1>1, PartOfInput
  <2>2. \A i \in Block : Input[i + 1] \in Nat
    BY ClientAssumption DEF Block
  <2>3. \A i \in A \cup {b} : Blocks(B)[i] = Input[i + 1] /\ Blocks(B)[i] \in Int
    BY <1>1, <2>2
  <2>4. \A i \in A : Blocks(A)[i] = Blocks(B)[i]
    BY <2>3
  <2>5. SumFunctionOnSet(Blocks(B), B) <= SumFunction(Input)
    BY <2>1, PartOfInput
  <2> HIDE DEF Blocks
  <2>6. SumFunctionOnSet(Blocks(B), A \cup {b}) = SumFunctionOnSet(Blocks(B), A) + Blocks(B)[b]
    <3> DEFINE g == Blocks(B)
    <3>1. \A i \in A \cup {b} : g[i] \in Int
      BY <2>3
    <3> HIDE DEF g, A
    <3>2. SumFunctionOnSet(g, A \cup {b}) = SumFunctionOnSet(g, A) + g[b]
      BY <2>1, <3>1, SumAdd
    <3> QED
      BY <3>2 DEF g
  <2>7. SumFunctionOnSet(Blocks(A), A) = SumFunctionOnSet(Blocks(B), A)
    BY <2>1, <2>4, SumEqual
  <2> QED
    BY <1>3, <2>3, <2>5, <2>6, <2>7
<1>5. Used \in Nat /\ Used <= SumFunction(Input) /\ SumFunction(Input) \in Nat
  BY <1>1, <1>3, PartOfInput
<1> QED
  BY <1>4, <1>5
(* A request begins by arriving at the gateway. *)
LEMMA Begins ==
  ASSUME IInv, ClientNext, NEW r \in Request, req[r].pc = "new", req'[r].pc # "new"
  PROVE  Arrive(r)
<1>1. ASSUME NEW q \in Request, Arrive(q), q # r
      PROVE  FALSE
  BY <1>1 DEF Arrive, Reserve, FailReserve, IInv, CatalogOK
<1>2. ASSUME NEW q \in Request, Serve(q)
      PROVE  FALSE
  <2>1. req[q].pc # "new" /\ \E pc : Goto(q, pc)
    BY <1>2 DEF Serve, Handle, Settle, Store, FailUpload, Attach, FailAttach, Delete, CancelReservation
  <2> QED
    BY <2>1 DEF Goto, IInv, CatalogOK
<1>3. ASSUME NEW R \in SUBSET Request, \A q \in R : Flying(q), Lose(R)
      PROVE  FALSE
  BY <1>3 DEF Lose, Flying, InFlight, IInv, CatalogOK
<1>4. ~ Fail
  BY <1>3 DEF Fail, Restart, Drop
<1>5. CASE Client \/ ServeComplete \/ \E q \in Request : Break(q)
  BY <1>5 DEF Client, ServeComplete, Break, Create, Allocate, CreateFile, RefuseCreate,
                Complete, ReadBlock, Finish,
              PrintUrl, Answered, Retry, GiveUp, vars
<1> QED
  BY <1>1, <1>2, <1>4, <1>5 DEF ClientNext

(* What the client knows of an attempt it never forgets. *)
LEMMA TriesKept ==
  ASSUME ClientTypeOK, Begun, ClientNext
  PROVE  \A r \in Request : /\ try[r] # "none" => try'[r] # "none"
                            /\ try[r] = "failed" => try'[r] = "failed"
<1> USE ClientAssumption DEF ClientTypeOK
<1>1. CASE ReadBlock
  <2>1. \/ UNCHANGED try
        \/ read \in Block /\ try' = [try EXCEPT ![Attempt(read, 0)] = "sent"]
    BY <1>1 DEF ReadBlock, Block
  <2>2. read \in Block => try[Attempt(read, 0)] = "none"
    BY AttemptIsOne DEF Begun, Block
  <2> QED
    BY <2>1, <2>2
<1> QED
  BY <1>1
     DEF ClientNext, Client, Create, Finish, PrintUrl, Answered, Retry, GiveUp,
         Break, Arrive, Serve, ServeComplete, Fail, clientVars

(* The reasons to fail do not go away. *)
LEMMA CauseKept ==
  ASSUME CauseInv, ClientTypeOK, ClientNext
  PROVE  /\ excuse => excuse'
         /\ spoilt \subseteq spoilt'
         /\ order' = order
         /\ cli = "failed" => cli' = "failed"
         /\ FileShape'
<1> USE DEF FileShape
<1>1. FileShape
  BY DEF CauseInv
<1>2. ASSUME NEW r \in Request, Arrive(r) \/ Serve(r) \/ Break(r)
      PROVE  UNCHANGED <<file, cli, order>> /\ (excuse => excuse') /\ spoilt \subseteq spoilt'
  <2>1. CASE Arrive(r) \/ Break(r)
    BY <2>1 DEF Arrive, Break, Reserve, FailReserve, vars
  <2>2. CASE Serve(r)
    <3>1. UNCHANGED file
      BY <2>2 DEF Serve, Store, FailUpload, Attach, FailAttach, Delete, CancelReservation
    <3> QED
      BY <2>2, <3>1 DEF Serve
  <2> QED
    BY <1>2, <2>1, <2>2
<1>3. CASE ServeComplete
  BY <1>1, <1>3 DEF ServeComplete, Complete, clientVars
<1>6. CASE Create
  <2>1. order.size \in Allocations
    BY DEF ClientTypeOK
  <2> QED
    BY <1>1, <1>6, <2>1 DEF Create, Allocate, CreateFile, RefuseCreate, NoFile, vars
<1>4. CASE Fail
  BY <1>1, <1>4 DEF Fail, Restart, Drop
<1>5. CASE ReadBlock \/ Finish \/ PrintUrl \/ \E r \in Request : Answered(r) \/ Retry(r) \/ GiveUp(r)
  BY <1>1, <1>5 DEF ReadBlock, Finish, PrintUrl, Answered, Retry, GiveUp, vars
<1> QED
  BY <1>1, <1>2, <1>3, <1>4, <1>5, <1>6 DEF ClientNext, Client

(* Blocks are sent again one attempt after the other. *)
LEMMA OneByOneKept ==
  ASSUME ClientTypeOK, Begun, OneByOne, ClientNext
  PROVE  OneByOne'
<1>1. \A r \in Request : try[r] = "failed" => try'[r] = "failed"
  BY TriesKept
<1>2. ASSUME NEW p \in Request, \A r \in Request : try'[r] # "none" /\ try[r] = "none" => r = p,
             \A q \in Request : Earlier(q, p) => try[q] = "failed"
      PROVE  OneByOne'
  BY <1>1, <1>2 DEF OneByOne, Earlier
<1>3. ASSUME \A r \in Request : try'[r] # "none" => try[r] # "none"
      PROVE  OneByOne'
  BY <1>1, <1>3 DEF OneByOne, Earlier
<1>4. CASE ReadBlock
  <2>1. CASE UNCHANGED try
    BY <1>3, <2>1
  <2>2. CASE read \in Block /\ try' = [try EXCEPT ![Attempt(read, 0)] = "sent"]
    <3> DEFINE p == Attempt(read, 0)
    <3>1. p \in Request /\ AttemptOf[p] = 0
      BY <2>2, AttemptIsOne, ClientAssumption
    <3>2. \A r \in Request : r # p => try'[r] = try[r]
      BY <2>2 DEF ClientTypeOK
    <3> HIDE DEF p
    <3>3. \A q \in Request : ~ Earlier(q, p)
      BY <3>1, Attempts DEF Earlier
    <3> QED
      BY <1>2, <3>1, <3>2, <3>3
  <2> QED
    BY <1>4, <2>1, <2>2 DEF ReadBlock, ClientTypeOK, Block
<1>5. ASSUME NEW r \in Request, Retry(r)
      PROVE  OneByOne'
  <2> DEFINE p == Attempt(BlockOf[r], AttemptOf[r] + 1)
  <2>1. AttemptOf[r] + 1 \in 0..Retries
    BY <1>5, Attempts, ClientAssumption DEF Retry
  <2>2. p \in Request /\ BlockOf[p] = BlockOf[r] /\ AttemptOf[p] = AttemptOf[r] + 1
    BY <2>1, Attempts, AttemptIsOne
  <2>3. try[r] = "failed" /\ \A q \in Request : q # p => try'[q] = try[q]
    BY <1>5 DEF Retry, ClientTypeOK
  <2> HIDE DEF p
  <2>4. ASSUME NEW q \in Request, Earlier(q, p)
        PROVE  try[q] = "failed"
    <3>1. BlockOf[q] = BlockOf[r] /\ (AttemptOf[q] = AttemptOf[r] \/ AttemptOf[q] < AttemptOf[r])
      BY <2>2, <2>4, Attempts DEF Earlier
    <3> QED
      BY <2>3, <3>1, Attempts DEF OneByOne, Earlier
  <2> QED
    BY <1>2, <2>2, <2>3, <2>4
<1>6. ASSUME NEW r \in Request, Answered(r) \/ Break(r)
      PROVE  OneByOne'
  BY <1>3, <1>6 DEF Answered, Break, ClientTypeOK
<1>7. CASE UNCHANGED try
  BY <1>3, <1>7
<1> QED
  BY <1>4, <1>5, <1>6, <1>7
     DEF ClientNext, Client, Create, Finish, PrintUrl, GiveUp, Arrive, Serve, ServeComplete,
         Fail, clientVars
(* Nobody arrives at, or works for, the index of a handler under way. *)
LEMMA FlyingAlone ==
  ASSUME Sent, OneByOne, FailedIsRefused, Asked, IInv,
         NEW q \in Request, NEW r \in Request, q # r, Flying(q),
         Flying(r) \/ try[r] \in {"sent", "ok"}
  PROVE  req[q].index # BlockOf[r] /\ BlockOf[q] # BlockOf[r]
<1>1. req[q].pc \notin {"new", "refused"} /\ req[q].index = BlockOf[q]
  BY DEF Flying, InFlight, Asked
<1>2. try[q] # "none" /\ try[q] # "failed" /\ try[r] # "none" /\ try[r] # "failed"
  BY <1>1 DEF Sent, FailedIsRefused, Flying, InFlight
<1> QED
  BY <1>1, <1>2, OneHasFailed

(* While a block is under way, or still to come, the file is not completed. *)
LEMMA NotAllDone ==
  ASSUME ClientIInv, Sent, OneByOne, Undisturbed, cli # "failed",
         NEW r \in Request, try[r] \notin {"none", "ok"}, req[r].pc # "refused"
  PROVE  Exists /\ ~ Completed /\ cli = "sending"
<1>1. cli \notin {"completing", "printed"}
  <2> SUFFICES ASSUME cli \in {"completing", "printed"} PROVE FALSE
    OBVIOUS
  <2>1. PICK q \in Request : BlockOf[q] = BlockOf[r] /\ try[q] = "ok"
    BY Attempts DEF ClientIInv, Ready, Acknowledged
  <2> QED
    BY <2>1, OneHasFailed DEF Undisturbed, FailedIsRefused
<1>2. cli = "sending"
  BY <1>1 DEF ClientIInv, ClientTypeOK, Undisturbed, FileReady
<1> QED
  BY <1>2 DEF Undisturbed, FileReady

(* A block that arrives finds its index free. *)
LEMMA ArriveUndisturbed ==
  ASSUME ClientIInv, Sent, OneByOne, Undisturbed, cli # "failed", NEW r \in Request, Arrive(r),
         Reserve(r, BlockOf[r], Input[BlockOf[r] + 1])
  PROVE  Undisturbed'
<1> DEFINE i == BlockOf[r]
           n == Input[BlockOf[r] + 1]
<1>1. /\ IInv /\ Asked /\ ClientTypeOK
      /\ FileReady /\ FailedIsRefused /\ NoneLost /\ Reserving /\ RefusedForCause
      /\ CatalogOK
  BY DEF ClientIInv, Undisturbed, IInv
<1>2. /\ Reserve(r, i, n) /\ req[r].pc = "new" /\ try[r] = "sent"
      /\ UNCHANGED <<cli, order, try>> /\ spoilt \subseteq spoilt'
  BY <1>1 DEF Arrive, Reserve, FailedIsRefused
<1>3. i \in Index /\ i \in Block
  BY Attempts, ClientAssumption
<1>4. Exists /\ ~ Completed /\ cli = "sending"
  BY <1>2, NotAllDone
<1>5. rows[i] \notin Request
  <2> SUFFICES ASSUME rows[i] \in Request PROVE FALSE
    OBVIOUS
  <2>1. req[rows[i]].pc = "created" /\ req[rows[i]].index = i
    BY <1>1, <1>3 DEF IInv, AnswersHold, Placed
  <2>2. rows[i] # r /\ BlockOf[rows[i]] = i
    BY <1>1, <1>2, <2>1 DEF Asked
  <2> QED
    BY <1>1, <1>2, <2>1, <2>2, OneAtATime
<1>6. ~ PendingAt(i)
  BY <1>1, <1>2, <1>3, FlyingAlone DEF Reserving, Flying, InFlight
<1>7. rows[i] = "free"
  BY <1>1, <1>3, <1>5, <1>6 DEF CatalogOK, PendingAt
<1>8. /\ rows' = [rows EXCEPT ![i] = "pending"]
      /\ req' = [req EXCEPT ![r] = [pc |-> "uploading", index |-> i, size |-> n]]
      /\ UNCHANGED <<file, cli, order, try>> /\ spoilt \subseteq spoilt'
  BY <1>2, <1>4, <1>7 DEF Reserve
<1> HIDE DEF n
<1>9. /\ \A q \in Request : q # r => req'[q] = req[q]
      /\ req'[r].pc = "uploading" /\ req'[r].index = i
      /\ \A j \in Index : rows'[j] = IF j = i THEN "pending" ELSE rows[j]
  BY <1>1, <1>8 DEF CatalogOK
<1>10. FileReady' /\ FailedIsRefused' /\ NoneLost' /\ RefusedForCause'
  BY <1>1, <1>2, <1>8, <1>9
     DEF FileReady, Exists, Completed, FailedIsRefused, NoneLost, RefusedForCause, TooLarge
<1>11. Reserving'
  <2>1. ASSUME NEW q \in Request, req'[q].pc \in {"uploading", "attaching"}
        PROVE  PendingAt(req[q].index)'
    <3>1. CASE q = r
      BY <1>3, <1>9, <3>1 DEF PendingAt
    <3>2. CASE q # r
      <4>1. req[q].index \in Index
        BY <1>1 DEF CatalogOK, Handler
      <4> QED
        BY <1>1, <1>9, <2>1, <3>2, <4>1 DEF Reserving, PendingAt
    <3> QED
      BY <3>1, <3>2
  <2>2. ASSUME NEW j \in Index, PendingAt(j)'
        PROVE  \E q \in Request : Flying(q)' /\ req'[q].index = j
    <3>1. CASE j = i
      BY <1>9, <3>1 DEF Flying, InFlight
    <3>2. CASE j # i
      <4>1. PICK q \in Request : Flying(q) /\ req[q].index = j
        BY <1>1, <1>9, <2>2, <3>2 DEF Reserving, PendingAt
      <4>2. q # r
        BY <1>2, <4>1 DEF Flying, InFlight
      <4> QED
        BY <1>9, <4>1, <4>2 DEF Flying
    <3> QED
      BY <3>1, <3>2
  <2> QED
    BY <2>1, <2>2 DEF Reserving
<1> QED
  BY <1>10, <1>11 DEF Undisturbed

(* A request whose transaction fails when it arrives leaves nothing behind. *)
LEMMA FailReserveUndisturbed ==
  ASSUME ClientIInv, Undisturbed, NEW r \in Request, Arrive(r),
         FailReserve(r, BlockOf[r], Input[BlockOf[r] + 1]), r \in spoilt'
  PROVE  Undisturbed'
<1>1. /\ CatalogOK
      /\ FileReady /\ FailedIsRefused /\ NoneLost /\ Reserving /\ RefusedForCause
  BY DEF ClientIInv, Undisturbed, IInv
<1>2. /\ req[r].pc = "new" /\ req'[r].pc = "refused"
      /\ \A q \in Request : q # r => req'[q] = req[q]
      /\ UNCHANGED <<file, rows, cli, order, try>> /\ spoilt \subseteq spoilt'
  BY <1>1 DEF Arrive, FailReserve, CatalogOK
<1>3. FileReady' /\ FailedIsRefused' /\ NoneLost' /\ RefusedForCause'
  BY <1>1, <1>2
     DEF FileReady, Exists, Completed, FailedIsRefused, NoneLost, RefusedForCause, TooLarge
<1>4. Reserving'
  <2>1. ASSUME NEW q \in Request, req'[q].pc \in {"uploading", "attaching"}
        PROVE  PendingAt(req[q].index)' /\ req'[q].index = req[q].index
    BY <1>1, <1>2, <2>1 DEF Reserving, PendingAt
  <2>2. ASSUME NEW j \in Index, PendingAt(j)'
        PROVE  \E q \in Request : Flying(q)' /\ req'[q].index = j
    <3>1. PICK q \in Request : Flying(q) /\ req[q].index = j
      BY <1>1, <1>2, <2>2 DEF Reserving, PendingAt
    <3>2. q # r
      BY <1>2, <3>1 DEF Flying, InFlight
    <3> QED
      BY <1>2, <3>1, <3>2 DEF Flying
  <2> QED
    BY <2>1, <2>2 DEF Reserving, PendingAt
<1> QED
  BY <1>3, <1>4 DEF Undisturbed

(* What a handler does to its own record and to the row of its index. *)
LEMMA HandlerUndisturbed ==
  ASSUME ClientIInv, Sent, OneByOne, Undisturbed, cli # "failed", NEW r \in Request, Flying(r),
         NEW pc \in InFlight \cup {"created", "refused"}, Goto(r, pc),
         UNCHANGED <<file, cli, order, try>>, spoilt \subseteq spoilt',
         \A j \in Index : j # BlockOf[r] => rows'[j] = rows[j],
         pc \in {"uploading", "attaching"} => rows'[BlockOf[r]] = "pending",
         pc \in {"created", "refused"} => rows'[BlockOf[r]] # "pending",
         pc \in {"deleting", "cancelling", "refused"} => r \in spoilt' \/ TooLarge
  PROVE  Undisturbed'
<1> DEFINE i == BlockOf[r]
<1>1. /\ IInv /\ Asked
      /\ FileReady /\ FailedIsRefused /\ NoneLost /\ Reserving /\ RefusedForCause
      /\ CatalogOK
  BY DEF ClientIInv, Undisturbed, IInv
<1>2. req[r].index = i /\ i \in Index /\ req[r].pc \in InFlight
  BY <1>1 DEF Asked, Flying, InFlight, CatalogOK, Handler
<1>3. /\ \A q \in Request : /\ req'[q].index = req[q].index
                            /\ req'[q].pc = IF q = r THEN pc ELSE req[q].pc
  BY <1>1, GotoKeeps
<1>4. \A q \in Request : q # r /\ Flying(q) => req[q].index # i
  BY <1>1, FlyingAlone
<1>5. FileReady'
  BY <1>1 DEF FileReady, Exists, Completed
<1>6. FailedIsRefused' /\ NoneLost' /\ RefusedForCause'
  BY <1>1, <1>2, <1>3 DEF FailedIsRefused, NoneLost, RefusedForCause, TooLarge, InFlight
<1>7. Reserving'
  <2>1. ASSUME NEW q \in Request, req'[q].pc \in {"uploading", "attaching"}
        PROVE  PendingAt(req[q].index)'
    <3>1. CASE q = r
      BY <1>2, <1>3, <2>1, <3>1 DEF PendingAt
    <3>2. CASE q # r
      <4>1. req[q].index \in Index /\ req[q].index # i
        BY <1>1, <1>3, <1>4, <2>1, <3>2 DEF CatalogOK, Handler, Flying, InFlight
      <4> QED
        BY <1>1, <1>3, <2>1, <3>2, <4>1 DEF Reserving, PendingAt
    <3> QED
      BY <1>3, <3>1, <3>2
  <2>2. ASSUME NEW j \in Index, PendingAt(j)'
        PROVE  \E q \in Request : Flying(q)' /\ req'[q].index = j
    <3>1. CASE j = i
      <4>1. pc \in InFlight
        BY <2>2, <3>1 DEF PendingAt
      <4> QED
        BY <1>2, <1>3, <3>1, <4>1 DEF Flying
    <3>2. CASE j # i
      <4>1. PICK q \in Request : Flying(q) /\ req[q].index = j
        BY <1>1, <2>2, <3>2 DEF Reserving, PendingAt
      <4>2. q # r
        BY <1>2, <3>2, <4>1
      <4> QED
        BY <1>3, <4>1, <4>2 DEF Flying
    <3> QED
      BY <3>1, <3>2
  <2> QED
    BY <1>3, <2>1, <2>2 DEF Reserving
<1> QED
  BY <1>5, <1>6, <1>7 DEF Undisturbed

(* What part of the input does not fit, the whole does not. *)
LEMMA Exceeds ==
  ASSUME FileShape, file.expected = order.size, NEW n \in Nat, SumFunction(Input) \in Nat,
         n <= SumFunction(Input), ~ (n <= file.expected)
  PROVE  TooLarge
<1> DEFINE sum == SumFunction(Input)
           most == file.expected
<1>1. most \in Allocations \cup {-1} /\ sum \in Nat /\ n <= sum /\ ~ (n <= most)
  BY DEF FileShape
<1>2. Allocations \subseteq Nat
  BY GatewayAssumption
<1> HIDE DEF sum, most
<1>3. most \in Int
  BY <1>1, <1>2
<1>4. sum > most
  BY <1>1, <1>3
<1> QED
  BY <1>4 DEF TooLarge, sum, most

(* A handler refuses what was spoilt or does not fit, and nothing else. *)
LEMMA ServeUndisturbed ==
  ASSUME ClientIInv, FileShape, Sent, OneByOne, Undisturbed, cli # "failed",
         NEW r \in Request, Serve(r), ~ excuse'
  PROVE  Undisturbed'
<1> DEFINE i == BlockOf[r]
<1>1. /\ IInv /\ Asked /\ FailedIsRefused /\ Reserving /\ RefusedForCause /\ CatalogOK
  BY DEF ClientIInv, Undisturbed, IInv
<1>2. UNCHANGED <<cli, order, try>> /\ spoilt \subseteq spoilt'
  BY DEF Serve
<1>3. Flying(r) /\ UNCHANGED file
  BY DEF Serve, Store, FailUpload, Attach, FailAttach, Delete, CancelReservation, Flying, InFlight
<1>4. req[r].index = i /\ i \in Index /\ i \in Block /\ req[r].size = Input[i + 1]
  BY <1>1, <1>3, Attempts DEF Asked, Flying, InFlight, CatalogOK, Handler
<1>5. /\ \A j \in Index : j # i => Cleared(i)[j] = rows[j]
      /\ Cleared(i)[i] # "pending"
  BY <1>1, <1>4 DEF Cleared, PendingAt, CatalogOK
<1>6. "pending" \notin Request
  BY GatewayAssumption
<1>8. CASE Store(r)
  <2>1. Goto(r, "attaching") /\ UNCHANGED rows /\ PendingAt(i)
    BY <1>1, <1>4, <1>8 DEF Store, Reserving
  <2> QED
    BY <1>2, <1>3, <2>1, HandlerUndisturbed DEF PendingAt, InFlight
<1>9. ASSUME r \in spoilt', FailUpload(r) \/ FailAttach(r)
      PROVE  Undisturbed'
  <2>1. PICK pc \in {"cancelling", "deleting"} : Goto(r, pc)
    BY <1>9 DEF FailUpload, FailAttach
  <2>2. UNCHANGED rows
    BY <1>9 DEF FailUpload, FailAttach
  <2> QED
    BY <1>2, <1>3, <1>9, <2>1, <2>2, HandlerUndisturbed DEF InFlight
<1>10. CASE Attach(r)
  <2>1. PendingAt(i) /\ req[r].pc = "attaching"
    BY <1>1, <1>4, <1>10 DEF Attach, Reserving
  <2>2. ~ Completed /\ file.expected = order.size
    <3>1. try[r] # "none" /\ (try[r] = "ok" => req[r].pc = "created")
      BY <2>1 DEF Sent, ClientIInv, Heard
    <3> QED
      BY <2>1, <3>1, NotAllDone DEF Undisturbed, FileReady
  <2>3. CASE ~ Fits(r)
    <3>1. Goto(r, "deleting") /\ rows' = Cleared(i)
      BY <1>4, <1>10, <2>2, <2>3 DEF Attach
    <3>2. TooLarge
      <4>1. i \notin AttachedAt(rows)
        BY <1>6, <2>1 DEF AttachedAt, PendingAt
      <4>2. Used + Input[i + 1] <= SumFunction(Input) /\ Used \in Nat /\ SumFunction(Input) \in Nat
        BY <1>1, <1>4, <4>1, UsedIsInput
      <4>3. ~ (Used + Input[i + 1] <= file.expected)
        BY <1>4, <2>3 DEF Fits
      <4>4. Used + Input[i + 1] \in Nat
        <5>1. Input[i + 1] \in Nat
          BY <1>4, ClientAssumption DEF Block
        <5> QED
          BY <4>2, <5>1
      <4> QED
        BY <2>2, <4>2, <4>3, <4>4, Exceeds
    <3> QED
      BY <1>2, <1>3, <1>5, <3>1, <3>2, HandlerUndisturbed DEF InFlight
  <2>4. CASE Fits(r)
    <3>1. Goto(r, "created") /\ rows' = [rows EXCEPT ![i] = r]
      BY <1>4, <1>10, <2>1, <2>2, <2>4 DEF Attach
    <3>2. rows'[i] # "pending" /\ \A j \in Index : j # i => rows'[j] = rows[j]
      BY <1>1, <1>4, <1>6, <3>1 DEF CatalogOK
    <3> QED
      BY <1>2, <1>3, <3>1, <3>2, HandlerUndisturbed DEF InFlight
  <2> QED
    BY <2>3, <2>4
<1>11. CASE Delete(r)
  <2>1. Goto(r, "cancelling") /\ UNCHANGED rows /\ req[r].pc = "deleting"
    BY <1>11 DEF Delete
  <2>2. r \in spoilt' \/ TooLarge
    BY <1>1, <1>2, <2>1 DEF RefusedForCause
  <2> QED
    BY <1>2, <1>3, <2>1, <2>2, HandlerUndisturbed DEF InFlight
<1>12. CASE CancelReservation(r)
  <2>1. /\ Goto(r, "refused") /\ req[r].pc = "cancelling"
        /\ rows' = Cleared(i) \/ UNCHANGED rows
    BY <1>4, <1>12 DEF CancelReservation
  <2>3. rows'[i] # "pending"
    BY <1>4, <2>1 DEF Serve
  <2>2. r \in spoilt' \/ TooLarge
    BY <1>1, <1>2, <2>1 DEF RefusedForCause
  <2> QED
    BY <1>2, <1>3, <1>5, <2>1, <2>2, <2>3, HandlerUndisturbed DEF InFlight
<1> QED
  BY <1>8, <1>9, <1>10, <1>11, <1>12 DEF Serve
(* Only what was sent is at the gateway. *)
LEMMA SentKept ==
  ASSUME ClientIInv, Sent, ClientNext
  PROVE  Sent'
<1>1. \A r \in Request : try[r] # "none" => try'[r] # "none"
  BY TriesKept DEF ClientIInv
<1>2. ASSUME NEW r \in Request, req'[r].pc # "new"
      PROVE  try'[r] # "none"
  <2>1. CASE req[r].pc # "new"
    BY <1>1, <2>1 DEF Sent
  <2>2. CASE req[r].pc = "new"
    BY <1>1, <1>2, <2>2, Begins DEF ClientIInv, Arrive
  <2> QED
    BY <2>1, <2>2
<1> QED
  BY <1>2 DEF Sent

(* Of the client's own steps, none disturbs the gateway. *)
LEMMA ClientUndisturbed ==
  ASSUME ClientIInv, FileShape, Sent, OneByOne, Undisturbed, cli # "failed", Client,
         ~ excuse', cli' # "failed"
  PROVE  Undisturbed'
<1>1. /\ IInv /\ ClientTypeOK /\ Ready /\ FileReady /\ FailedIsRefused /\ NoneLost
      /\ Reserving /\ RefusedForCause
  BY DEF ClientIInv, Undisturbed
<1>2. \A r \in Request : ~ GiveUp(r)
  BY DEF GiveUp
<1>3. CASE Create
  <2>1. Allocate /\ cli = "start" /\ cli' = "sending" /\ UNCHANGED <<order, try, spoilt>>
    BY <1>3 DEF Create
  <2>2. /\ \A r \in Request : req[r].pc = "new" /\ try[r] = "none"
        /\ UNCHANGED <<rows, req>>
    BY <1>1, <2>1 DEF FileReady, Sent, Allocate, CreateFile
  <2>3. Exists' /\ ~ Completed' /\ file'.expected = order.size
    <3>1. file' = [NoFile EXCEPT !.expected = order.size]
      BY <2>1 DEF Allocate, CreateFile
    <3>2. order.size \in Nat
      BY <1>1, GatewayAssumption DEF ClientTypeOK
    <3> QED
      BY <3>1, <3>2 DEF NoFile, Exists, Completed
  <2>4. FileReady' /\ FailedIsRefused' /\ NoneLost' /\ RefusedForCause'
    BY <2>1, <2>2, <2>3 DEF FileReady, FailedIsRefused, NoneLost, RefusedForCause
  <2>5. Reserving'
    BY <1>1, <2>2 DEF Reserving, PendingAt, Flying, InFlight
  <2> QED
    BY <2>4, <2>5 DEF Undisturbed
<1>4. ASSUME UNCHANGED <<vars, order, spoilt>>, cli # "start", cli' # "start",
             cli' \in {"start", "sending"} => cli \in {"start", "sending"},
             \A r \in Request : try'[r] = "failed" => req[r].pc = "refused"
      PROVE  Undisturbed'
  BY <1>1, <1>4 DEF Undisturbed, FileReady, FailedIsRefused, NoneLost, Reserving, RefusedForCause,
                    vars, Exists, Completed, TooLarge, PendingAt, Flying
<1>5. CASE ReadBlock
  <2>1. \/ UNCHANGED try
        \/ read \in Block /\ try' = [try EXCEPT ![Attempt(read, 0)] = "sent"]
    BY <1>1, <1>5, ClientAssumption DEF ReadBlock, Block, ClientTypeOK
  <2>2. \A r \in Request : try'[r] = "failed" => req[r].pc = "refused"
    BY <1>1, <2>1 DEF FailedIsRefused, ClientTypeOK
  <2> QED
    BY <1>4, <1>5, <2>2 DEF ReadBlock
<1>6. ASSUME NEW r \in Request, Answered(r)
      PROVE  Undisturbed'
  <2>1. ~ Success(r) => req[r].pc = "refused"
    BY <1>1, <1>6 DEF Answered, Success, NoneLost
  <2>2. \A q \in Request : try'[q] = "failed" => req[q].pc = "refused"
    BY <1>1, <1>6, <2>1 DEF Answered, FailedIsRefused, ClientTypeOK
  <2> QED
    BY <1>4, <1>6, <2>2 DEF Answered
<1>7. ASSUME NEW r \in Request, Retry(r)
      PROVE  Undisturbed'
  <2>1. \A q \in Request : try'[q] = "failed" => req[q].pc = "refused"
    BY <1>1, <1>7 DEF Retry, FailedIsRefused, ClientTypeOK
  <2> QED
    BY <1>4, <1>7, <2>1 DEF Retry
<1>8. CASE Finish \/ PrintUrl
  BY <1>1, <1>4, <1>8 DEF Finish, PrintUrl, FailedIsRefused
<1> QED
  BY <1>2, <1>3, <1>5, <1>6, <1>7, <1>8 DEF Client

(* Completion comes when the client has asked for it. *)
LEMMA CompleteUndisturbed ==
  ASSUME Undisturbed, FileShape, ServeComplete
  PROVE  Undisturbed'
<1>1. cli = "completing" /\ UNCHANGED <<rows, req, cli, order, try, spoilt>>
  BY DEF ServeComplete, Complete, clientVars
<1>2. file' = [file EXCEPT !.size = Used] /\ file'.expected = file.expected
  BY DEF ServeComplete, Complete, FileShape
<1> QED
  BY <1>1, <1>2 DEF Undisturbed, FileReady, FailedIsRefused, NoneLost, Reserving, RefusedForCause,
                    Exists, TooLarge, PendingAt, Flying

(* Without an excuse the gateway stays undisturbed. *)
LEMMA UndisturbedStep ==
  ASSUME ClientIInv, CauseInv, ClientNext, ~ excuse', cli' # "failed"
  PROVE  Undisturbed'
<1>1. ~ excuse /\ cli # "failed"
  BY CauseKept DEF ClientIInv, ClientTypeOK
<1>2. Undisturbed /\ FileShape /\ Sent /\ OneByOne
  BY <1>1 DEF CauseInv
<1>3. ~ Fail /\ \A r \in Request : ~ Break(r)
  BY DEF Fail, Break
<1>4. ASSUME NEW r \in Request, Arrive(r)
      PROVE  Undisturbed'
  BY <1>1, <1>2, <1>4, ArriveUndisturbed, FailReserveUndisturbed DEF Arrive
<1> QED
  BY <1>1, <1>2, <1>3, <1>4, ClientUndisturbed, CompleteUndisturbed, ServeUndisturbed
     DEF ClientNext
(* A block whose last attempt fails was spoilt at each, or is too large. *)
LEMMA GiveUpHasCause ==
  ASSUME CauseInv, ~ excuse, NEW r \in Request, GiveUp(r)
  PROVE  TooLarge \/ Spoilt
<1> DEFINE b == BlockOf[r]
<1>1. OneByOne /\ FailedIsRefused /\ RefusedForCause
  BY DEF CauseInv, Undisturbed, GiveUp
<1>2. try[r] = "failed" /\ AttemptOf[r] = Retries /\ b \in Block
  BY Attempts DEF GiveUp, Exhausted
<1>3. ASSUME NEW a \in 0..Retries
      PROVE  TooLarge \/ Attempt(b, a) \in spoilt
  <2>1. PICK q \in Request : q = Attempt(b, a) /\ BlockOf[q] = b /\ AttemptOf[q] = a
    BY <1>2, AttemptIsOne
  <2>2. try[q] = "failed"
    <3>1. CASE a = Retries
      BY <1>2, <2>1, <3>1, Attempts
    <3>2. CASE a < Retries
      BY <1>1, <1>2, <2>1, <3>2 DEF OneByOne, Earlier
    <3> QED
      BY <3>1, <3>2, ClientAssumption
  <2>3. q \in spoilt \/ TooLarge
    BY <1>1, <2>2 DEF FailedIsRefused, RefusedForCause
  <2> QED
    BY <2>1, <2>3
<1> QED
  BY <1>2, <1>3 DEF Spoilt

(* A file that has all its blocks is refused only because it is too large. *)
LEMMA RefusalHasCause ==
  ASSUME ServiceIInv, FileShape, FileReady, cli = "completing", ~ Completable
  PROVE  TooLarge
<1>1. \A i \in Index : rows[i] \in Request /\ SizeAt(i) = Input[i + 1]
  BY BlocksInPlace, ClientAssumption DEF AttachedAt
<1>2. AttachedAt(rows) = Block /\ \A i \in Index : ~ PendingAt(i)
  BY <1>1, ClientAssumption, GatewayAssumption DEF AttachedAt, PendingAt
<1>3. GapFree
  BY <1>2, ClientAssumption DEF GapFree, Block
<1>4. FrameAligned
  <2> SUFFICES ASSUME NEW i \in Block, NEW j \in Block, j > i
               PROVE  SizeAt(i) % Payload = 0
    BY <1>2 DEF FrameAligned
  <2>1. i + 1 \in Block
    BY ClientAssumption DEF Block
  <2>2. Input[i + 1] % Payload = 0
    BY <2>1, ClientAssumption
  <2> QED
    BY <1>1, <2>2, ClientAssumption
<1>5. ~ (Used <= file.expected)
  BY <1>2, <1>3, <1>4 DEF Completable
<1>6. Used \in Nat /\ Used <= SumFunction(Input) /\ SumFunction(Input) \in Nat
  BY UsedIsInput DEF ServiceIInv, ClientIInv
<1>7. file.expected = order.size
  BY DEF FileReady
<1> QED
  BY <1>5, <1>6, <1>7, Exceeds

(* The client fails when something else has. *)
LEMMA CauseStep ==
  ASSUME ServiceIInv, CauseInv, ClientNext
  PROVE  CauseInv'
<1>1. ClientIInv /\ ClientTypeOK /\ Begun /\ FileShape /\ Sent /\ OneByOne
  BY DEF ServiceIInv, ClientIInv, CauseInv
<1>2. FileShape' /\ Sent' /\ OneByOne'
  BY <1>1, CauseKept, SentKept, OneByOneKept
<1>3. ~ excuse' /\ cli' # "failed" => Undisturbed'
  BY <1>1, UndisturbedStep
<1>4. ASSUME Cause
      PROVE  Cause'
  <2>1. (excuse => excuse') /\ spoilt \subseteq spoilt' /\ order' = order
    BY <1>1, <1>4, CauseKept
  <2> QED
    BY <1>4, <2>1 DEF Cause, Unwelcome, TooLarge, Spoilt
<1>5. ASSUME cli' = "failed", cli # "failed"
      PROVE  excuse' \/ Cause
  <2>1. CASE \E r \in Request : GiveUp(r)
    BY <2>1, GiveUpHasCause DEF Cause, GiveUp
  <2>2. CASE PrintUrl
    <3>1. excuse \/ FileReady
      BY <1>5 DEF CauseInv, Undisturbed
    <3> QED
      BY <1>1, <1>5, <2>2, <3>1, RefusalHasCause DEF PrintUrl, Cause
  <2>4. CASE Create
    <3>1. excuse' \/ ~ Acceptable(order.size, order.named)
      BY <1>5, <2>4 DEF Create, RefuseCreate
    <3>2. order.size \in Nat /\ MaxFileSize \in Nat
      BY <1>1, GatewayAssumption DEF ClientTypeOK
    <3> QED
      BY <3>1, <3>2 DEF Acceptable, Cause, Unwelcome
  <2>3. CASE ~ Create /\ ~ PrintUrl /\ \A r \in Request : ~ GiveUp(r)
    BY <1>5, <2>3 DEF ClientNext, Client, Create, ReadBlock, Finish, Answered, Retry,
                      Break, Arrive, Serve, ServeComplete, Fail, clientVars
  <2> QED
    BY <2>1, <2>2, <2>3, <2>4
<1>6. cli' = "failed" => Cause'
  <2>1. CASE cli = "failed"
    BY <1>4, <2>1 DEF CauseInv
  <2>2. CASE cli # "failed"
    BY <1>4, <1>5, <2>2 DEF Cause
  <2> QED
    BY <2>1, <2>2
<1> QED
  BY <1>2, <1>3, <1>6 DEF CauseInv

(* At the start nothing is under way. *)
LEMMA InitCause == ServiceInit => CauseInv
<1> SUFFICES ASSUME ServiceInit PROVE CauseInv
  OBVIOUS
<1>1. FileShape
  BY DEF ServiceInit, ClientInit, Init, NoFile, FileShape
<1>2. Sent /\ OneByOne /\ cli = "start"
  BY DEF ServiceInit, ClientInit, Init, Sent, OneByOne
<1>3. FileReady /\ FailedIsRefused /\ NoneLost /\ Reserving /\ RefusedForCause
  BY DEF ServiceInit, ClientInit, Init, NoFile, Completed, PendingAt,
         FileReady, FailedIsRefused, NoneLost, Reserving, RefusedForCause
<1> QED
  BY <1>1, <1>2, <1>3 DEF CauseInv, Undisturbed

(* A failure of the store or of the catalog in some attempts, a retry and a *)
(* handler that outlives its client never make an upload fail by            *)
(* themselves: the client gives up (main.rs:221) for a reason that          *)
(* FailsForCause names, the refusal of the file by the server among them.   *)
THEOREM FailuresHaveCause == FairService => []FailsForCause
<1>1. ServiceIInv /\ CauseInv /\ [ServiceNext]_serviceVars => CauseInv'
  <2> SUFFICES ASSUME ServiceIInv, CauseInv, [ServiceNext]_serviceVars PROVE CauseInv'
    OBVIOUS
  <2>1. CASE Upload
    BY <2>1, CauseStep DEF Upload
  <2>2. CASE UNCHANGED allVars
    BY <2>2
       DEF allVars, vars, clientVars, CauseInv, FileShape, Sent, OneByOne, Cause, Unwelcome, TooLarge, Spoilt,
           Undisturbed, FileReady, FailedIsRefused, NoneLost, Reserving, RefusedForCause,
           Exists, Completed, PendingAt, Flying
  <2> QED
    BY <2>1, <2>2 DEF ServiceNext, Download, serviceVars
<1>2. CauseInv => FailsForCause
  BY DEF CauseInv, Cause, Unwelcome, TooLarge, Spoilt, FailsForCause
<1> QED
  BY <1>1, <1>2, InitCause, InitServiceIInv, NextServiceIInv, PTL DEF FairService
=============================================================================
