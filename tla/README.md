# A verification of rust-storage-streamer

The repository stores large files as encrypted *segments* in a chat service (one
message per segment) and serves them back, by an HTTP file API (`files-gateway`)
or an S3 API (`s3-gateway`). Downloads go through a streaming engine with a
bounded memory budget (`frame-streamer`); requests to the service go through a
client (`discord-store`) that is kept within the service's rate limits by
`quota-engine`.

This directory holds TLA+ specifications of the parts of the program in which
order and failure matter, the TLC configurations that check them on small
instances, and TLAPS proofs for every instance. `PROJECT.json` maps each
definition to the lines it models.

## 1. The system

| component | state it keeps | operations | meets |
|---|---|---|---|
| `quota-engine/cadence.rs` | per bucket the commit horizon `tat` and the allocation horizon `rtat`; per resource a liveness flag | peek/admit, earliest commit, commit, reconcile, release | the handle that locks it |
| `quota-engine/cadence_async.rs` | one mutex, one bell (`Notify`), a `Reservation` per request | `reserve`, `commit` (a loop of subscribe, look, sleep), `update`, `set_alive`, `release`, `Drop` | every request of `discord-store` |
| `discord-store` | webhooks, proxies, one quota handle | post (the last chunk waits for `commit`), resolve with retries, delete, ranged CDN reads | `quota-engine` below, gateways above |
| `frame-streamer/memory.rs` | a semaphore of plaintext frames for the whole process | `reserve`, `try_reserve`, merge, shrink, drop | every session |
| `frame-streamer/stream.rs` | per session: its allocation and ticket, the planned objects, the source cursor | the poll of `StreamDriver`, setters, drop | budget, URL coordinator, downloads, sink |
| `frame-streamer/{sizing,byte,frame,upload}.rs` | none that outlives a call | window sizing, byte ranges, frame assembly and decryption, upload framing | session, gateways |
| `files-gateway/catalog.rs` | tables `files`, `file_segments`, `segments` | reserve, attach, cancel, complete, read | handlers |
| `files-gateway/lib.rs` | one handler per request | create, upload a segment, complete, download | catalog, upload and download backends |
| `files-gateway/download.rs` | cached URLs (columns of `segments`) | resolve through the cache | catalog, sessions |
| `s3-gateway/{catalog,service,auth}.rs` | buckets, grants, objects, multipart uploads and parts, segments with `orphaned_at` | create and delete a bucket, put, copy, delete, multipart, list, ranged get, hourly garbage collection | upload and download backends |
| `files-cli` | progress counters | splits a file, uploads with three retries, completes | files API |

What is hard in it, and what has to hold:

* **Quota.** Requests are cancelled at any await, headers come back late and out
  of order, committers sleep on instants that move. The service's limit must
  hold in every window of time, committed rate is never given back, sleepers
  wake in time, and everybody is served.
* **The client.** The last chunk of a post waits at the gate in the connection's
  task, while the call that made it may be answered, refused or dropped;
  responses correct the buckets, retry, or bury a webhook. No request may reach
  the service unpaid, what a response reports as used must count against the
  requests after it, a dead webhook must be left alone, and what a caller is told
  decides whether a gateway keeps or drops its row.
* **Streaming.** Sessions share one budget and hold what they have while they
  wait for more; sinks block; a poll must leave a waker behind in everything
  that can move the session again. Frames must come out once and in order,
  permits must survive every failure, and no session may block another.
* **Files.** Uploads race for indices and for the allocation, completion races
  with uploads, clients disconnect, the process crashes. What a client was told
  must stay true, what the catalog names must exist in the store, and a
  completed file must be contiguous, aligned and final. `files-cli` sends blocks
  again without knowing what became of the first attempt: a URL that it prints
  must stand for the whole input. Readers share cached URLs that expire.
* **S3.** Collection runs concurrently with everything that can bring a segment
  back to life (put, copy, part upload, completion). What an object names must
  exist in the store, an object must have the segments its size stands for, and
  what nothing names must be deleted in the end. A bucket is deleted after its
  emptiness was checked, not while; a listing is many requests, between which
  objects come and go.

The list `hazards` of `PROJECT.json` gives each of these at its line.

## 2. The modules

| module | models | role |
|---|---|---|
| `RateLimit` | the service's rule | abstract specification |
| `QuotaEngine` | cadence.rs and cadence_async.rs | implements `RateLimit` |
| `QuotaEngineProofs` | | theorems about `QuotaEngine` |
| `DiscordClient` | client.rs of discord-store, its upload.rs and download.rs | composed with `QuotaEngine`, which it uses and implements |
| `DiscordClientProofs` | | theorems about `DiscordClient`: as a user of the engine, and of what calls do |
| `FrameBudget` | memory.rs and the semaphore under it | a value and its operations, used by `StreamSession` |
| `OrderedDelivery` | what a session promises its reader | abstract specification |
| `StreamSession` | stream.rs, for several sessions | implements `OrderedDelivery` |
| `StreamSessionProofs` | | theorems about `StreamSession` and its budget |
| `SumFacts` | | sums over finite sets, and induction over them and over numbers: lemmas of the proofs |
| `SegmentedFile` | what the gateway promises of a file | abstract specification |
| `FilesGateway` | catalog.rs and lib.rs of files-gateway, for one file | implements `SegmentedFile` |
| `FilesGatewayProofs` | | theorems about `FilesGateway` |
| `FilesClient` | main.rs of files-cli, for one upload | composed with `FilesGateway`, whose requests it sends |
| `UrlCache` | download.rs of files-gateway, the cached URLs of catalog.rs | used by `FilesService` |
| `FilesService` | | composes `FilesClient` (with the gateway) and `UrlCache` |
| `FilesServiceProofs` | | theorems about `FilesService` |
| `S3Gateway` | catalog.rs and service.rs of s3-gateway, for one bucket, the lookup of grants and the collector | |
| `S3GatewayProofs` | | theorems about `S3Gateway` |
| `RangeRead` | what either gateway promises to a reader of bytes | abstract specification |
| `SegmentBytes` | upload.rs, byte.rs, frame.rs and `StreamDownloadBackend` of frame-streamer, `parse_range`, `upload_body` and `body_for` of the gateways | implements `RangeRead` |
| `SegmentBytesProofs` | | theorems about `SegmentBytes` |
| `MCQuota`, `MCDiscord`, `MCStream`, `MCFiles`, `MCClient`, `MCS3`, `MCBytes` | | instances for TLC |

**QuotaEngine.** Time is an integer, and buckets have the two horizons of the
code. Every method of the handle is a locked section that reads the clock and
awaits nothing, so each is one action: `Reserve`/`Refuse` (`reserve`),
`Subscribe`, `Commit`, `Park` (the loop of `commit`), `Release` (`release` and
`Drop`), `Update`, `SetAlive`. `phase` is where a request is, `target` and
`bell` are the timer and the `Notified` future it sleeps on. `log` is a history
variable: when each bucket was spent. The code computes "how long until no
bucket forbids" as a maximum of signed differences; `Earliest` says the same
with quantifiers.

**DiscordClient.** An attempt of a call is a task of `QuotaEngine`, instantiated
with the buckets that `quota_engine` builds: a pool of webhooks and a pool of
API clients, no shared bucket. `Reserve`/`Refuse` are `DiscordCore::reserve`;
`Pull`, `BodyFails`, `Wait` and `Spend` are the body of a post
(`gate_last_chunk`), which belongs to the connection's task and may outlive its
call until the connection drops it (`Abandon`), or the bodiless request of a
resolve or delete behind its `commit`; `UpdateWebhook` and `UpdateGlobal` are
the two updates of `update_from_headers`, each under the engine's lock; `Retry`
and `Conclude` are what the three functions make of the status. The service
(`Answer`, `Late`, `Die`) is external: it does what a complete request asks for
or fails in every way the code tells apart, and may answer a post before its
body has ended. A URI whose webhook is not configured fails before a slot is
reserved (`Known`). `hits`, which counts the requests that are complete at the
service, and `told`, the reports the client took in, are history variables.

**StreamSession.** A session is a record, one field per field of the struct,
with the local `missing` of `grow_available` and a program counter. A poll is
cut where it touches the shared semaphore: `Refresh` (poll or drop the ticket,
read `available()`), `Grow` (`try_reserve`), `Queue` (a new ticket, or shrink),
`Fill` (plan, authorise, open URLs, download, discard), `Emit` (hand one frame
to the sink, or register with it). `woken` is the task's waker: a session is
polled again only if something it polled and found pending became ready
(`Arrive`, `Answer`, `Deliver`, `Drain`, or a permit assigned by `Give`), or if
it woke itself. A driver whose plans and source are exhausted closes its sink
(`Close`); while the sink has not closed, every poll starts again from the top
(`Linger`), and may grow or shrink the allocation and queue for more. Frames are
their global index; the window and the prefetch, which the code computes in
floating point, are inputs.

**FilesGateway.** `CreateFile` and `RefuseCreate` are `create_file`, with its
limit on the size and its check of the name. For the uploads there is one action
per catalog transaction and per call of the store; what a handler does between
two awaits belongs to the first. A handler whose client disconnects is dropped
where it waits (`Drop`); a crash loses all of them and `Restart` does what
`connect` does. A handler lost after its transaction was committed is one that
ended and whose answer nobody read. A request's name is also its segment's.

**FilesClient.** The main task reads blocks in order (`ReadBlock`), keeps up to
`Parallel` of them under way and completes the file when all are acknowledged
(`Finish`, `ServeComplete`, `PrintUrl`). An attempt of a block is a request of
`FilesGateway`; `Arrive` is its arrival there, at any time after it was sent, so
that an attempt whose connection was lost may still run when the next one, for
the same index, arrives. `try` is what the client knows of an attempt: sent,
answered with 2xx, or failed, be it by an error status or a lost connection.
Creation and completion are sent once, and whatever the answer is but a 2xx ends
the program; `order` is what the creation asks for, which the gateway may refuse.
`excuse` and `spoilt` are history variables, by which `FailsForCause` says what a
failure may be due to.

**UrlCache.** One action per query of the catalog and per call of the store in
`resolve_url`; `cached` and `ticket` count the seconds that URLs have left.
`due` is what is left of the margin that began when the URL was asked for, so
that `HeldValid` can speak of it. A URL without an expiry is never used again by
the code and not modelled. A query takes less than the margin, for the
connection pool and SQLite give up after 35 s; nothing bounds the store's
answer. `FilesService` feeds the cache from the attached segments: in the code,
`attach_segment` inserts the URL with the row.

**S3Gateway.** One action per transaction, per query outside a transaction, and
per call of the store. A request is one of ten jobs: put, part, copy, complete,
abort, delete (`delete_objects` is a sequence of deletes), get, list, and making
and dropping the bucket; creating an upload is a single insertion and has an
action of its own. Each begins with the lookup of its grant (`Start`), which the
administrator may change or revoke at any time (`Grant`, `Revoke`); a listing is
a sequence of requests, and looks it up for every page. `age` is
`segments.orphaned_at`: no row, live (NULL), or for how long the segment is an
orphan, in units of the grace period. An object's `size` counts segments.
Deleting a bucket cascades to grants, objects and uploads but marks no segment:
`DropBucket` leaves `age` alone, and what an object that was put between the
check and the deletion was made of is collected only after a later transaction
has marked it. `stay` is a history variable, the keys a listing can be expected
to report. A common prefix is modelled by `folder`, the entry that stands for a
key in a listing. Requests overlap as they like and take as long as they like;
two history variables tell what that leads to. `clashed` is set when a request
arrives while another one is under way that rewrites what it reads in several
steps, or the other way round: the source of a copy, the parts of a completion
(`Meddles`). `strayed` has the segments that a completion referred to when they
were orphans already, and those that a request still held when they had been
orphans for longer than the grace. `LookAtParts` demands parts that are there,
in ascending order; the limits on their bytes (service.rs:618-642), which
numbers of segments do not tell, are a refusal that a completion of several
parts may meet. `leaked` is a history variable, the messages that a failing
store, a lost handler or the deletion of a bucket left behind.

**SegmentBytes.** One file and one reader, from the body of the upload to the
bytes of the answer. A byte is its segment and position. `Open`, `Chunk`,
`BodyEnd`, `BodyBreak` are `ByteUpload::upload` (limits, framing, padding, the
comparison with Content-Length); `Complete` is the alignment rule of
`complete_file`; `Ask` parses the header and divides the range into frames of
segments, or fails to open the download (`AskFails`: the catalog, or no frame of
the budget is left); `FetchFails` is a segment whose stream cannot be opened,
whose URL is not found, or whose server answers with an error status; `Fetch`,
`Receive`, `TakeFrame`, `ResponseEnd` are the ranged request, the assembly of
its chunks into frames and the clipping. The AEAD is modelled by what the code
relies on: a frame decodes if and only if it is whole and has the index it is
expected at. The order in which concurrent downloads reach the sink is left to
`StreamSession`. What s3s, which is not in the repository, makes of a `Range`
header is taken to be what `parse_range` of `files-gateway` does.

The definitions that a module's header comment calls defective variants are
never part of a specification. Each stands for a plausible bug (a dropped guard,
a swapped order), and replacing the correct definition by it makes TLC report a
violation of one of the properties: the properties can fail.

## 3. What TLC checks

| run | instance | shows |
|---|---|---|
| `quota` | 3 requests, 2 lanes with a bucket each, an egress, a shared bucket; free and pinned demands; deadline window 2; 1 header; clock to 4, further while somebody sleeps | `RateConformance`, `AllocationAhead`, `DebtBounded`, `BacklogBounded`, `NoOversleep`, `TightenOnly`, and the refinement `LimitRespected` |
| `client` | 2 calls: a post and a resolve, or a resolve and a delete; 2 webhooks, one of which may die, 1 API client, 2 attempts, bodies of 2 chunks, interval 1, burst 2, window 2; responses with, without and with half of the rate-limit headers, global ones included; breaking bodies, dropped callers | `NothingUnpaid`, `AnswersTrue`, `ReportsCount`, `DeadAvoided`, `CallEnds` |
| `stream` | 2 sessions, budget 2: one reads across two objects from inside the first, the other has failing peers and meets an empty object, or the early end of its source, or changes its window | `PermitsConserved`, `FramesCovered`, `FrontServedFirst`, `RestsArmed`, and the refinement `DeliversInOrder` |
| `stream_live` | 2 sessions, budget 2: one with two objects of a frame, the other with a sink that may never drain | `Independent` |
| `files` | 3 uploads, 3 indices, sizes 1 and 2, payload 2, files of 3 and 4 where the server's limit is 3, with and without a name, all faults | `TypeOK`, `AnswersHold`, `AttachedStored`, `NoOrphans`, `DownloadsAgree`, the refinement `ImplementsFile`, and `ReservationSettles`: a reservation is attached or withdrawn, unless its handler waits for its client or the store for ever, or its clean-up failed or its handler was lost, and then it stays until a restart |
| `files_finalize` | 3 uploads, 2 indices, no fault | violates `NoFinalizeDuringUpload` (section 5) |
| `cli` | 2 blocks of 2 attempts each, 2 at a time; files of 3 and 4 where the server's limit is 3, with and without a name; uploads and transactions that fail, handlers that are dropped, crashes, lost connections, an input that breaks; then 2 readers, margin 2, URLs valid for 3 or 4 | `PrintedWhole`, `FailsForCause`, `HeldValid`, `UploadEnds` |
| `s3` | 3 requests out of 14 jobs, 2 keys, 1 upload of 2 parts, bodies of up to 2 segments, grace 1, all faults, every overlap and duration | `LiveKept`, `InHandKept`, `WholeApart`, `OrphansExact`, `NoLeak` |
| `s3_bucket` | 3 requests out of 12 jobs: puts, deletes, a part, pages of 1 and 2 keys with and without a common prefix, two deletions of the bucket and one that makes it again; 3 keys, 2 of which have objects; a guest whose grant changes and whose key is revoked; no fault | `GoneIsEmpty`, `ListedOnce`, `Collected` |
| `s3_torn`, `s3_lost` | as `s3`, no fault | violate `ObjectsWhole` and `LiveStored` (section 5) |
| `bytes` | 12 files of up to 3 segments or parts, payload 2, tag 1, segments of 2 frames, chunks of up to 4 bytes, 35 headers, bodies that break, downloads that cannot be opened, responses that fail or are cut, servers that ignore the range | `SegmentsFaithful`, `NoIdleFrame`, and the refinement `ServesRange` |

The type invariants of `QuotaEngine`, `DiscordClient`, `StreamSession`,
`FilesClient`, `S3Gateway` and `SegmentBytes` are stated in the modules but
checked by no run; section 4 says which of them are proved.

Bounds. Two lanes with a burst of two and three requests let one bucket exceed
its burst, let the free choice tie and differ, and leave a request behind to be
refused or to sleep; a second header or a fourth request repeats these cases. In
`client` a free and a pinned call, or two pinned ones, compete for a webhook, so
one may sleep on an instant that the response to the other moves; two attempts
have a retry and a last attempt; two chunks are one that flows and one that is
held back. The clock advances only while somebody sleeps: nothing else in the
client reads it. Two sessions whose windows exceed the budget together exhibit
every interaction through the semaphore: a refused creation, a lost race between
reading and taking, a ticket served, dropped while queued and dropped once
assigned. Two objects are enough for head-of-line blocking, two frames for a
partly authorised object. Three uploads are what the cancellation of somebody
else's reservation takes; three indices allow a gap. In `cli` two attempts of a
block are a lost one that overtakes, or is overtaken by, its retry; two blocks
finish in any order; the URLs outlive the margin by one and by two seconds, so
that they may expire before, at and after the limit, and two readers let one
save over the other. Readers begin only after an upload without mishaps
(`Calm`), for what URLs a file has does not depend on how it was uploaded. In
`S3Gateway` three requests give a segment its three owners: the upload that made
it, the object or part that took it over, and the copy, completion or overwrite
that meets the collector. Ages beyond the grace are not told apart. In
`SegmentBytes` a payload of two bytes has every alignment of a position, a
segment of two frames has a full and a padded one, and numbers up to 15, the
largest number, are beyond every file; three segments give a range a first, an
inner and a last one. Every property of a read depends on the file only through
the alignment and order of its segments. In `s3` every pair of jobs may
overlap, and time passes whoever is under way, so that a request may outlive the
grace; both kinds of strayed segments occur, and lose their messages. In `cli`
every input fits what is asked for; that one that does not fit is a cause of its
own is shown by the proof only. Deadlock is not checked: the
clock stops at its bound and every session and request comes to an end.

The peers of a session move only where the poll looks at them next; the comment
above `Listens` says why this leaves out no behaviour that matters.

Fairness. `DiscordClient!Fairness`: time passes, a task whose timer or bell
fired is polled, for the lock is never held across an await, and handlers run;
the client sets no timeout, so that every request is answered or its connection
breaks is an assumption about the service and TCP; nobody is made to drop a call
or to break a body. `StreamSession!Fairness`: the executor polls woken tasks,
and the peers of a session answer in the end, except for the sinks of `Stalled`.
A sink that is polled again and again to close does close
(`SF_vars(Close(s))`): between two polls the session is anywhere in a poll, so
that weak fairness would promise nothing.
`FilesGateway!FairSpec`: a transaction of the catalog that a handler has reached
returns, since SQLite gives up a lock after its busy timeout (`Settle`). It says
nothing of a handler that waits for the body of its client or for the store:
lib.rs:171 sets no timeout, such a handler may keep its reservation for ever, and
`ReservationSettles` says so.
`FilesClient!ClientFairness` assumes more, for what the upload as a whole comes
to: the client runs, what it sends arrives or its connection breaks, and the store
answers or fails. Neither files-cli nor the gateway sets a timeout, so this is an
assumption about the network and the store, and `UploadEnds` holds as far as it
does. `S3Gateway!FairSpec`: time passes, and the collector, which runs every hour,
works through its list; a delete that can succeed does so in the end. Requests
may wait for ever. None of it orders two tasks.

## 4. What is proved

`QuotaEngineProofs` proves for every set of requests, buckets, pools and
resources, every interval, capacity and safety margin, every window and set of
headers, and without the bounds being finite in any particular way:

* `TypeCorrect`: `Spec => []TypeOK`;
* `Conformance`: `Spec => []RateConformance`;
* `AllocationNeverBehind`: `Spec => []AllocationAhead`;
* `NeverRelaxed`: `Spec => TightenOnly`;
* `DebtIsBounded`: `Spec => []DebtBounded`;
* `BacklogIsBounded`: `Spec => []BacklogBounded`;
* `NobodyOversleeps`: `Spec => []NoOversleep`;
* `ImplementsLimit`: `Spec => LimitRespected`, that is, `QuotaEngine` implements
  `RateLimit`.

`DiscordClientProofs` proves for every set of calls, webhooks, API clients,
responses and faults, and every rate and burst:

* `ImplementsQuota`: `Spec => Quota!Spec`: every step of the client is a step
  that `QuotaEngine` allows its tasks and callers, or leaves it alone. The
  invariant it needs, `ControlOK`, says that attempts are numbered within the
  retries and that a response is at hand wherever one is read.
* `ClientConforms`: `Spec => []Quota!RateConformance`: whatever calls do, no
  webhook and no API client is used faster than its buckets allow. It is
  `Conformance` of the engine, whose `QuotaAssumption` the client's buckets and
  demands meet (`EngineAssumption`). The theorems come with an instance of their
  own, `Engine`, and the lemmas `Same...` show that it is `Quota`.

The assumption of the client is `ClientAssumption`: types, positive rates and
bursts, and webhooks and API clients that are not confused with one another. The
only assumption of the engine is `QuotaAssumption`, the types of the constants
and positive intervals. `RateConformance` is not inductive: it says nothing of
the horizons that commits are decided by. The inductive invariant `IInv` adds
`HorizonCoversLog` (the commit horizon of a bucket is at least one interval per
later spend beyond every logged instant) and `AllocationAhead`. A commit finds
`tat - Tolerance <= now` (`CommitStep`), so by `HorizonCoversLog` every window
it closes conforms (`OpenGateAdmissible`); it moves `tat` by one interval at
least, which restores `HorizonCoversLog` (`CommitCovers`); every other step
leaves the logs alone and moves `tat` forward only (`QuietStep`).

`NoOversleep` needs that a parked request waits for buckets that exist and that
`tat` only moves forward (`TatForward`): the instant it sleeps to was once the
opening of its gate, which can only move away from it. `BacklogBounded` rests on
the admission guard (`AdmissionBacked`): a reservation is admitted only if its
commit is due within the window. `DebtBounded` holds because a commit finds its
gate open, that is `tat` at most a burst less one interval ahead of now
(`CommitDebt`), and a header puts it where it says.

It proves in addition, of the same specification:

* `NoRequestUnpaid`: `Spec => []NothingUnpaid`: the one step that completes a
  request at the service (`Spend`) spends a token of the webhook it goes to, and
  no step takes anything out of a log (`PaidStep`).
* `CallersAreToldTheTruth`: `Spec => []AnswersTrue`. The invariant ties the
  reply a call has in hand to what the service did (`CallsOK`).
* `DeadWebhooksAreAvoided`: `Spec => DeadAvoided`: the webhook is marked in the
  step in which the call fails, and nothing in the client brings it back.
* `ReportedUseCounts`: `Spec => []ReportsCount`. A report of n tokens used puts
  the bucket's horizon n intervals ahead (`ReportCounts`), and each later spend
  one more (`CountedStep`); a spend finds the gate open, so that what was reported
  and what was spent since fit in the burst and in what time has refilled
  (`SpendFits`). It says of a report only what the code makes of it: a webhook
  whose `x-ratelimit-limit` is below the configured burst and that has none left
  is held to have used its own, smaller burst (cadence.rs:104-108), and the
  client's gate may still be open.

`FilesGatewayProofs` proves for every set of requests, indices and sizes, every
allocation and payload and all faults:

* `AnswersAreTrue`: `Spec => []AnswersHold`;
* `AttachedIsStored`: `Spec => []AttachedStored`;
* `NothingForgotten`: `Spec => []NoOrphans`;
* `CompletedIsFinal`: a completed file is free of gaps and aligned, and neither
  it nor its rows change again;
* `TypeCorrect`: `Spec => []TypeOK`, which includes that a completed file keeps
  to its allocation;
* `DownloadsAreWhole`: `Spec => []DownloadsAgree`;
* `GatewayImplementsFile`: `Spec => ImplementsFile`, the refinement of
  `SegmentedFile`.

The invariant of the first four, `IInv` says that a segment stands in the row
its request named (`Placed`), that its message exists from the store's answer
until a clean-up (`StoredWhenAttaching`), that a message nobody lost track of
belongs to a segment or to a handler that still attaches or deletes it
(`Tracked`), and that a completed file is free of gaps, aligned, and has no
index reserved (`Sealed`). It says nothing of who owns a reservation: the code
does not keep to that (`files_finalize`), and none of the theorems needs it. The
last three are about sums over the attached rows, for which `SumFacts` has what
happens to a sum when one summand changes (`SumSplit`, `SumUpdate`) and that a
sum never shrinks with its set. A download that has read a size has read a
completed file, which by `CompletedIsFinal` has the same rows when its objects
are read.

`FilesServiceProofs` proves for every input, number of retries and parallel
blocks, every set of readers and every margin:

* `UploadIsWhole`: `FairService => []PrintedWhole`. Beyond `IInv` of the gateway
  it takes that a block is asked for at its own index (`Asked`), that an attempt
  the client counts as done was answered 201 (`Heard`), and that the completion
  is sent when every block is done (`Ready`): by `AnswersHold` every block is
  then attached, and a completed file never changes.
* `UrlsOutliveMargin`: `FairService => []HeldValid`.
* `FailuresHaveCause`: `FairService => []FailsForCause`, all faults included. The
  causes are a file the server does not accept (over its limit, or without a
  name), an input larger than what was asked for, something lost or failed outside
  an attempt (`excuse`), and one block that the store or the catalog failed at
  every attempt (`spoilt`).

A clean-up that fails in the catalog leaves its reservation behind, and every
retry of that block is refused: this is an `excuse`, and so is a failed creation
or completion. As long as nothing of that kind has happened, the invariant
`CauseInv` says that the attempts at a block are made one after the other, each
after the one before has failed (`OneByOne`), that an attempt fails only if it is
refused, so that no two handlers work at one index (`FlyingAlone`), that an index
is reserved by the handler that serves it and by no other (`Reserving`), and that
what is refused was spoilt by the store or by a failed transaction, or exceeds the
allocation (`RefusedForCause`). A block that arrives therefore finds its index
free (`ArriveUndisturbed`), and a file whose blocks are all attached is refused
only if it is too large (`RefusalHasCause`). This is the ownership of reservations
that the gateway by itself does not keep to (`files_finalize`): the order in which
`files-cli` tries again restores it.

`S3GatewayProofs` proves for every set of keys, uploads, requests and access
keys, every number of segments, every grace, all faults, every overlap of requests
and however long they last:

* `LiveSegmentsAreStored`: `Spec => []LiveKept`;
* `HandsAreStored`: `Spec => []InHandKept`;
* `OrphansAreExact`: `Spec => []OrphansExact`;
* `NothingLeaks`: `Spec => []NoLeak`;
* `GoneBucketIsEmpty`: `Spec => []GoneIsEmpty`;
* `ListingsAreComplete`: `Spec => []ListedOnce`;
* `ObjectsAreWhole`: `Spec => []WholeApart`.

What the code means, `LiveStored` and `ObjectsWhole`, is not so: `s3_lost` and
`s3_torn` violate them. `LiveKept` and `InHandKept` say exactly what is lost, the
`strayed` segments: there are two ways for a segment in use to lose its message,
and no others, whatever the collector meets. `WholeApart` says that objects are
whole until requests clash.

The invariant `IInv` of the first four says of the segments that what is
referenced has a row and, unless it strayed, is stored and live (`Living`), that
what the collector has listed was an orphan for longer than the grace or strayed
(`Collecting`), and that what is live is referenced or leaked (`Unmarked`); and of
each request that what it holds is stored and no older than the grace, unless it
strayed (`Holds`), and that what it has not recorded has no row (`Unrecorded`). A
transaction can then revive nothing that the collector has listed
(`TransactionStep`), since everything in hand that did not stray is younger than
the grace. A step that does to a request's segments only what anybody may do
(`Tame`) keeps what is true of that request (`Untouched`), so that each action is
looked at for the request it belongs to only.

`ObjectsAreWhole` has an invariant of its own, `ApartInv`: until something clashes
(`ClashStays`), `WholeInv` holds. What a request knows of its source, that is the
object's identity, its size and segments, or the parts that a completion has still
to read, fits what it has read already. Two rows with one identity are one object
(`SameObject`), and `Spread`, which holds as long as nothing has clashed
(`SpreadStep`), keeps the source of a copy and the parts of a completion from
being rewritten while they are read in several queries. Time and the collector are
irrelevant to it.

For `ListingsAreComplete` the invariant `ListingsOk` says that the keys reported
so far lie behind the continuation token, each page beyond the one before, and
that a key which was there all the time is reported or still ahead. A page is
what comes first of the rows beyond the token (`FirstOf`), and is cut at its
last key: a key can be missed or repeated only if the token jumps past it or
stays behind it.

`StreamSessionProofs` proves for any number of sessions, all jobs, cursors,
windows and capacities, and all failures of peers:

* `TypeCorrect`: `Spec => []TypeOK`;
* `PermitsAreConserved`: `Spec => []PermitsConserved`;
* `FramesAreCovered`: `Spec => []FramesCovered`;
* `FrontIsServedFirst`: `Spec => []FrontServedFirst`;
* `RestIsArmed`: `Spec => []RestsArmed`;
* `DeliveryIsOrdered`: `Spec => DeliversInOrder`, the refinement of
  `OrderedDelivery`.

They rest on one invariant, `Inv` (theorem `Invariant`), for none of them is
inductive. Of the budget it says that the semaphore's queue has every waiter
once and none that was already served (`QueueOk`), that a session has a ticket
exactly if it is in line or served (`TicketOk`), and that idle permits and
allocations add up to the capacity. A permit that is assigned to a ticket which
is dropped goes to the next in line, and only these three together say that it
arrives. Of a session (`SessionOk`) it says:

* the frames of the plans are within the allocation and are authorised from the
  front (`PlansFit`): `Authorize` hands out what is left after the needs of all
  plans before, so that the two have to be kept together;
* each plan is the part of the request between two cursors of the source, they
  are adjacent, and what went to the sink ends where the front plan continues
  (`Placed`, `InOrder`). This is what keeps the frames in order, and why a driver
  without plans that has seen the end of its source has delivered everything;
* a session that is over holds no permit, no ticket and no plan, and one that is
  not holds a frame at least (`Holds`); one whose window is not met stands in
  line or has two frames (`Grown`, see section 5);
* a driver at rest is subscribed to all that is pending in its plans (`Quiet`)
  and to its source (`Waits`), and has authorised what it could (`Dealt`). The
  loop over `Fill` and `Emit` ends only when nothing changes, so that `Quiet`
  and `Dealt` are what a poll without progress shows of the state it ends in;
* a driver that is closing has exhausted its source and its plans, and one at rest
  that has exhausted them waits for its sink, which has not closed yet.

`InitOk` and one lemma per action (`RefreshOk` to `DrainOk`) show that `Inv` is
inductive. An action concerns one session, and the budget as far as that
session's own permits go (`Become`), so that the lemmas are about one record and
`BecomeOk` carries them to all sessions.

`SegmentBytesProofs` proves for any payload, tag and limit, all files, ranges,
chunks and faults:

* `TypeCorrect`: `Spec => []TypeOK`;
* `SegmentsAreFaithful`: `Spec => []SegmentsFaithful`;
* `NoFrameIsIdle`: `Spec => []NoIdleFrame`;
* `RangesAreServed`: `Spec => ServesRange`, the refinement of `RangeRead`.

The invariant is `BytesInv`. `UploadInv`, its part about the file, says what the
frames and the rest are after n bytes of a body, whatever the chunks
(`Uploaded`), and `ChunkUploads` that a chunk takes it from n to t: the frames
cut from rest and chunk are those that t bytes fill and n do not. Once stored, a
segment is what its body was (`StoreOK`). From this follows where segments and
their frames begin in the file (`Layout`), and for a file of the files gateway,
whose segments but the last are `Aligned`, that frame g of the file begins at
byte g times the payload (`AlignedLayout`).

`ReadInv` is about the reader: what it has is the part of the file from the
start of its range to `At`, and the streams that are left send the part from
`At` to the end. A stream sends some bytes (`StreamOK`, `Sends`) if its pieces
are adjacent frames without padding in between, its first byte lies `skip` bytes
into its first frame and its last byte in its last frame. `RangeIs` shows that
`ParseRange` finds the bytes a header names by its own words, up to the largest
number of 64 bits; `FilesStream` and `S3Stream`, that the streams either gateway
opens for them send exactly these, and that each of their frames has one;
`FrameServed` and `PieceServed`, that clipping a frame, and going on with the
next piece, leave a stream that sends the rest (`UnderWay`). That a stream has
nothing `remaining` once its pieces are used up is part of `UnderWay`: this is
why a download that ends well has delivered everything. When a read fails,
`ReadInv` keeps what was delivered until then. `ServingStep` maps each action to
a step of `RangeRead`: a frame is a `Send`, the end of the last response
`Succeed`, all else a `Fail` or nothing.

The assumptions on the constants are `QuotaAssumption`, `ClientAssumption`,
`UrlAssumption`, `S3Assumption`, `StreamAssumption`, `BytesAssumption` and those
of `FilesGateway`: types, positive rates, finitely many sessions and well-formed
jobs (a request is for one frame at least). `FilesFit` says that a file has no
more bytes than 64 bits count: the code adds up sizes in 64 bits, and `Top` is
the end of a range whose last byte is the largest number.

Only model-checked is liveness (`Independent`, `CallEnds`, `UploadEnds`,
`ReservationSettles`, `Collected`), since fairness and ENABLED are beyond the
prover. Every other property that a passing run checks is a theorem. The type
invariant of `QuotaEngine` is the theorem `TypeCorrect`; that of `FilesClient`
is part of `ServiceIInv`; those of `DiscordClient` and `S3Gateway` are proved
only as far as other proofs need them (`ControlOK`, `CallsOK`; `Shape`).
Induction by means of the library's theorems is beyond it, too, for they have
operators as parameters; where a proof needs one over numbers or finite sets,
`UpTo` and `LeastSet` of `SumFacts` give it for a set of numbers or sets.

## 5. Where code and text differ

* `files_finalize`. Upload A is refused by `attach_segment` for exceeding the
  allocation, which already frees its row; B reserves the same index; A's
  handler goes on to `cancel_reservation`, which deletes B's row. The file can
  be completed while B is uploading, and B's segment is then refused and
  deleted. `ImplementsFile` holds all the same: the completed file is sound.
* `s3_lost`. `complete_multipart` references the segments it read before its
  transaction without clearing `orphaned_at`, as `replace_object` and
  `replace_part` do. A part that is sent again in between orphans its former
  segments; the completed object is made of them, and an hour later the
  collector deletes their messages. (`forget_segment` then fails on the foreign
  key, which ends that collection.) A request that lasts longer than an hour can
  lose segments although no other one overlaps: they are orphans until its
  transaction, and if that falls between the collector's listing them and its
  deleting their rows, the object is made of segments without a message. (Once a
  row is gone, the foreign key refuses the object.) No other segment in use is ever lost (`LiveKept`).
* `s3_torn`. `get_object` reads a row and then, by its id, the segments. If the
  object is replaced in between there are none: `copy_object` stores an object
  with a size and no segments. `parts` has the same gap, and a download whose
  two queries are torn apart promises a length and delivers nothing.

Three things no text contradicts, that a maintainer should know of. After a
commit `advance_commit` raises the allocation horizon to the commit horizon if
that was behind, and thereby absorbs the tokens of reservations that are still
held: with idle time in between, a later request is admitted although those held
leave it no room before its deadline. No limit is broken; the request waits
longer. And `delete_bucket` counts in one statement and deletes in another: an
object whose put was acknowledged in between goes with the bucket, and its
segments stay unmarked until some later transaction marks them (`OrphansExact`
counts them as `leaked`). And `grow_available` (stream.rs:281-320) may end with
less than the window and without a ticket: it reads that n permits are free,
another session takes some, `try_reserve(n)` fails, and the `reserve(1)` it
falls back to is ready at once. The session then holds one frame more and stands
in no line for the others. Nothing is lost, since its next poll grows again, and
every frame that drains causes one. With a budget of 2 a session always has its
window then; with 4 it may not, and the proof of `RestIsArmed` failed until
`RestsArmed` promised the place in line only to a session that still has the one
frame it was created with.

## 6. Not modelled, and why

The AEAD itself and the layout of an encrypted frame; checksums; the HTTP
headers of answers; the syntax of object URIs and signed URLs; configuration,
packaging and the test page. The sizing of windows (`sizing.rs`) is
floating-point arithmetic on measured rates, which TLA+ does not have; a window
is an input of `StreamSession`, whose properties hold for every window. S3
signatures are checked by s3s, which is not in the repository; of `auth.rs` the
lookup of a grant is modelled, the creation of credentials is not. Of
`s3-gateway`, `list_buckets`, the head requests and the metadata of objects only
read or copy a row. Listings with `max_keys` 0; prefixes that differ in case
only, which SQLite's LIKE does not tell apart; and a common prefix whose keys
lie on two pages, which is reported twice, as `ListedOnce` allows. The progress
display of `files-cli`, which decides nothing. A list that names a webhook twice
makes two resources of it in the code; here each is listed once. `expires_at` of
a reservation is stored and never read by the code. Clocks are assumed
monotonic.

## 7. Plan

Modelled, checked and, where section 4 says so, proved: `QuotaEngine`,
`DiscordClient`, `StreamSession`, `FilesGateway`, `FilesClient`, `UrlCache`,
`S3Gateway`, `SegmentBytes`. What would come next:

1. An abstract object store that `S3Gateway` implements as long as no requests
   clash and no segment strays.
2. The type invariants of `DiscordClient` and `S3Gateway` as theorems: that a post
   whose body has begun keeps the webhook it goes to, and that parts and segments
   stay well-formed also where requests meddle with one another.
3. The composition of `StreamSession` with `UrlCache`: a session opens the URLs
   of its objects ahead of need, and one that is blocked behind its sink for
   longer than the margin finds them expired.
