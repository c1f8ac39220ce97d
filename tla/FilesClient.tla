---------------------------- MODULE FilesClient ----------------------------
(***************************************************************************)
(* files-cli (main.rs): one file is created, uploaded block by block, and  *)
(* completed at the gateway of FilesGateway; then its URL is printed.      *)
(*                                                                         *)
(* Blocks are read in order, and up to Parallel of them are under way at a *)
(* time.  A block that fails is sent again, as another request for the     *)
(* same index, while the handler of the request before may still be        *)
(* running: the client cannot tell a request that failed from an answer    *)
(* that was lost.  Creation and completion are not tried again: a refusal, *)
(* an error of the catalog or a lost answer ends the program.              *)
(*                                                                         *)
(* AnyAnswer and OnceMore are not part of the specification: each is a     *)
(* defective variant of the definition that follows it, and shows that a   *)
(* property below notices the defect.                                      *)
(***************************************************************************)
EXTENDS FilesGateway, Sequences

CONSTANTS
  Input,        \* the sizes of the blocks; all but the last are full
  BlockOf,      \* [Request -> Block]
  AttemptOf,    \* [Request -> 0..Retries]
  Parallel,     \* --parallel
  Retries,      \* MAX_RETRIES
  Mishaps       \* what may befall the client, a subset of {"input", "link"}

Block == 0..(Len(Input) - 1)

ASSUME ClientAssumption ==
  /\ Input \in Seq(Nat \ {0}) /\ Parallel \in Nat \ {0} /\ Retries \in Nat
  /\ BlockOf \in [Request -> Block] /\ AttemptOf \in [Request -> 0..Retries]
  /\ \A b \in Block, a \in 0..Retries :
       \E r \in Request : {q \in Request : BlockOf[q] = b /\ AttemptOf[q] = a} = {r}
  /\ Index = Block /\ \A b \in Block : Input[b + 1] \in Size
  /\ \A b \in Block : b + 1 \in Block => Input[b + 1] % Payload = 0
  /\ Mishaps \subseteq {"input", "link"}

VARIABLES
  cli,          \* the main task
  order,        \* what it asks for: the expected size, and whether there is a name
  read,         \* how many blocks it has read
  try,          \* [Request -> what the client knows of it]
  spoilt,       \* history: requests that the store or the catalog failed
  excuse        \* history: the input, a connection, the server or the catalog's
                \* part in a creation, a clean-up or a completion failed

clientVars == <<cli, order, read, try, spoilt, excuse>>
allVars == <<vars, clientVars>>

Attempt(b, a) == CHOOSE r \in Request : BlockOf[r] = b /\ AttemptOf[r] = a

Acknowledged(b) == \E r \in Request : BlockOf[r] = b /\ try[r] = "ok"
Current == {b \in Block : b < read /\ ~ Acknowledged(b)}

----------------------------------------------------------------------------
(* The client *)

Allocate == CreateFile(order.size, order.named)

(* POST /files: for a file its length, for a pipe a ceiling. *)
Create ==
  /\ cli = "start"
  /\ \/ Allocate /\ cli' = "sending" /\ UNCHANGED excuse
     \/ RefuseCreate(order.size, order.named) /\ cli' = "failed" /\ UNCHANGED excuse
     \/ "link" \in Mishaps /\ Allocate /\ cli' = "failed" /\ excuse' = TRUE
     \/ /\ "link" \in Mishaps \/ "database" \in Faults
        /\ cli' = "failed" /\ excuse' = TRUE /\ UNCHANGED vars
  /\ UNCHANGED <<order, read, try, spoilt>>

(* segment_stream and try_buffer_unordered: read ahead while there is room. *)
ReadBlock ==
  /\ cli = "sending"
  /\ Cardinality(Current) < Parallel
  /\ \/ /\ read < Len(Input)
        /\ read' = read + 1
        /\ try' = [try EXCEPT ![Attempt(read, 0)] = "sent"]
        /\ UNCHANGED <<cli, excuse>>
     \/ /\ "input" \in Mishaps
        /\ cli' = "failed" /\ excuse' = TRUE
        /\ UNCHANGED <<read, try>>
  /\ UNCHANGED <<vars, order, spoilt>>

AnyAnswer(r) == req[r].pc \in {"created", "refused"}
(* A 2xx answer; any other one fails the attempt. *)
Success(r) == req[r].pc = "created"

Answered(r) ==
  /\ cli = "sending" /\ try[r] = "sent"
  /\ req[r].pc \in {"created", "refused", "lost"}
  /\ try' = [try EXCEPT ![r] = IF Success(r) THEN "ok" ELSE "failed"]
  /\ UNCHANGED <<vars, cli, order, read, spoilt, excuse>>

(* The connection fails, before the request is served, meanwhile or after it. *)
Break(r) ==
  /\ "link" \in Mishaps
  /\ cli = "sending" /\ try[r] = "sent"
  /\ try' = [try EXCEPT ![r] = "failed"]
  /\ excuse' = TRUE
  /\ UNCHANGED <<vars, cli, order, read, spoilt>>

(* The next attempt, after a pause. *)
Retry(r) ==
  LET next == Attempt(BlockOf[r], AttemptOf[r] + 1) IN
  /\ cli = "sending" /\ try[r] = "failed"
  /\ AttemptOf[r] < Retries /\ try[next] = "none"
  /\ try' = [try EXCEPT ![next] = "sent"]
  /\ UNCHANGED <<vars, cli, order, read, spoilt, excuse>>

OnceMore(r) == AttemptOf[r] > Retries
Exhausted(r) == AttemptOf[r] = Retries

(* The last attempt has failed: the program ends, its other requests with it. *)
GiveUp(r) ==
  /\ cli = "sending" /\ try[r] = "failed"
  /\ Exhausted(r)
  /\ cli' = "failed"
  /\ UNCHANGED <<vars, order, read, try, spoilt, excuse>>

AllSent == read = Len(Input) /\ Current = {}

Finish ==
  /\ cli = "sending" /\ AllSent
  /\ cli' = "completing"
  /\ UNCHANGED <<vars, order, read, try, spoilt, excuse>>

(* POST /files/{id}/complete: a refusal ends the program, as does a lost answer. *)
PrintUrl ==
  /\ cli = "completing"
  /\ \/ Completed /\ cli' = "printed" /\ UNCHANGED excuse
     \/ ~ Completed /\ ~ Completable /\ cli' = "failed" /\ UNCHANGED excuse
     \/ /\ "link" \in Mishaps \/ "database" \in Faults
        /\ cli' = "failed" /\ excuse' = TRUE
  /\ UNCHANGED <<vars, order, read, try, spoilt>>

----------------------------------------------------------------------------
(* The gateway *)

(* A request arrives, perhaps after the client has given it up. *)
Arrive(r) ==
  /\ try[r] \in {"sent", "failed"}
  /\ LET size == Input[BlockOf[r] + 1] IN
     \/ Reserve(r, BlockOf[r], size) /\ UNCHANGED spoilt
     \/ FailReserve(r, BlockOf[r], size) /\ spoilt' = spoilt \cup {r}
  /\ UNCHANGED <<cli, order, read, try, excuse>>

(* A failed clean-up that leaves a reservation behind excuses what follows. *)
Serve(r) ==
  /\ \/ /\ Store(r) \/ Attach(r) \/ Delete(r) \/ CancelReservation(r)
        /\ UNCHANGED spoilt
     \/ /\ FailUpload(r) \/ FailAttach(r)
        /\ spoilt' = spoilt \cup {r}
  /\ LET stuck == req[r].pc = "cancelling" /\ rows'[req[r].index] = "pending" IN
     excuse' = (excuse \/ stuck)
  /\ UNCHANGED <<cli, order, read, try>>

(* What the gateway itself may lose: a handler, or all of them. *)
Fail ==
  /\ Restart \/ \E r \in Request : Drop(r)
  /\ excuse' = TRUE
  /\ UNCHANGED <<cli, order, read, try, spoilt>>

ServeComplete ==
  /\ cli = "completing"
  /\ Complete
  /\ UNCHANGED clientVars

----------------------------------------------------------------------------
ClientInit ==
  /\ Init
  /\ cli = "start"
  /\ order \in [size: Allocations, named: BOOLEAN]
  /\ read = 0
  /\ try = [r \in Request |-> "none"]
  /\ spoilt = {}
  /\ excuse = FALSE

Client ==
  \/ Create \/ ReadBlock \/ Finish \/ PrintUrl
  \/ \E r \in Request : Answered(r) \/ Retry(r) \/ GiveUp(r)

ClientNext ==
  \/ Client
  \/ \E r \in Request : Break(r) \/ Arrive(r) \/ Serve(r)
  \/ ServeComplete
  \/ Fail

ClientSpec == ClientInit /\ [][ClientNext]_allVars

(* The program runs, what it sends arrives, and the store answers.  Nothing *)
(* in the code bounds the last two waits: neither side sets a timeout.      *)
ClientFairness ==
  /\ WF_allVars(Create \/ ReadBlock \/ Finish)
  /\ WF_allVars(ServeComplete) /\ WF_allVars(PrintUrl)
  /\ \A r \in Request :
       /\ WF_allVars(Answered(r)) /\ WF_allVars(Retry(r)) /\ WF_allVars(GiveUp(r))
       /\ WF_allVars(Arrive(r)) /\ WF_allVars(Serve(r))

FairClient == ClientSpec /\ ClientFairness

----------------------------------------------------------------------------
(* Properties *)

ClientTypeOK ==
  /\ cli \in {"start", "sending", "completing", "printed", "failed"}
  /\ order \in [size: Allocations, named: BOOLEAN]
  /\ read \in 0..Len(Input)
  /\ try \in [Request -> {"none", "sent", "ok", "failed"}]
  /\ spoilt \subseteq Request /\ excuse \in BOOLEAN

(* When the URL is printed (main.rs:176), the file is complete and is the   *)
(* input, each block once and in its place, whatever was lost, sent again   *)
(* or overtaken by a retry on the way.                                      *)
PrintedWhole ==
  cli = "printed" =>
    /\ Completed
    /\ AttachedAt(rows) = Block
    /\ \A b \in Block : BlockOf[rows[b]] = b /\ SizeAt(b) = Input[b + 1]

(* The upload fails for a reason: a file the server does not accept (its    *)
(* size over the limit, or no name: files-gateway lib.rs:117), an input     *)
(* larger than what was asked for, something that was lost or failed        *)
(* outside an attempt (the input, a connection, a handler, the creation, a  *)
(* clean-up or the completion in the catalog), or one block that the store  *)
(* or the catalog failed at every attempt.  A failure of some attempts      *)
(* never spoils the retries of main.rs:221 that follow them.                *)
FailsForCause ==
  cli = "failed" =>
    \/ excuse
    \/ order.size > MaxFileSize \/ ~ order.named
    \/ SumFunction(Input) > order.size
    \/ \E b \in Block : \A a \in 0..Retries : Attempt(b, a) \in spoilt

(* The program comes to an end: it prints the URL or says what failed.      *)
UploadEnds == cli = "sending" ~> cli \in {"printed", "failed"}
============================================================================
