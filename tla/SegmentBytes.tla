---------------------------- MODULE SegmentBytes ----------------------------
(***************************************************************************)
(* The way of a byte through the program: a body arrives in chunks, is cut *)
(* into frames of Payload bytes, the last one padded, and stored as        *)
(* segments (frame-streamer/upload.rs, s3-gateway upload_body); a range is *)
(* translated into frames of segments (byte.rs, stream.rs, s3-gateway      *)
(* body_for), whose physical bytes arrive in chunks again, are assembled   *)
(* and authenticated (frame.rs) and clipped to the range (byte.rs).        *)
(*                                                                         *)
(* One file and one reader.  That the frames of several objects, which are *)
(* downloaded concurrently, reach the sink in order is the subject of      *)
(* StreamSession; here they are downloaded one after the other.  A         *)
(* position in a segment stands for the physical byte at it.  A frame      *)
(* decodes if and only if it is whole and has the index it is expected at. *)
(*                                                                         *)
(* CutAlone, AnyLength and FromFirst are not part of the                   *)
(* specification: each is a defective variant of the definition that       *)
(* follows it, and shows that a property below notices the defect.         *)
(***************************************************************************)
EXTENDS Integers, Sequences, FiniteSets, SequencesExt

CONSTANTS
  Payload,     \* plaintext bytes of a frame: 65520
  Tag,         \* bytes of its authentication tag: 16
  MaxFrames,   \* frames the store takes in a segment: 150
  Top,         \* the largest number of 64 bits
  Jobs,        \* the files that clients upload
  Headers,     \* the ranges they ask for
  MaxChunk,    \* bound: bytes that arrive at once, a segment or more
  Faults       \* what may go wrong, a subset of {"body", "fetch", "cut", "whole"}

(***************************************************************************)
(* A job has a gateway, files or s3, and bodies: for files one for each    *)
(* segment, with the length it declares (Unknown if none), for s3 one for  *)
(* each part.  A header is none, malformed, suffix n, from a or            *)
(* between a b.                                                            *)
(***************************************************************************)
Unknown == -1

ASSUME BytesAssumption ==
  /\ Payload \in Nat \ {0} /\ Tag \in Nat /\ MaxFrames \in Nat \ {0}
  /\ Top \in Nat /\ MaxChunk \in Nat \ {0}
  /\ \A j \in Jobs : \A i \in DOMAIN j.bodies :
       j.bodies[i].length \in Nat /\ j.bodies[i].declared \in Nat \cup {Unknown}
  /\ \A h \in Headers :
       /\ h.form \in {"none", "malformed", "suffix", "from", "between"}
       /\ h.form = "suffix" => h.n \in Nat
       /\ h.form \in {"from", "between"} => h.a \in Nat
       /\ h.form = "between" => h.b \in Nat

VARIABLES
  pc,      \* where the file, and then its reader, is
  job,
  up,      \* the segment being uploaded: bytes taken, pending ones, frames
  store,   \* the segments: frames and plaintext size
  header,  \* what the reader asked for
  rd,      \* the reader's ByteStreams, and the download of the current piece
  out      \* what it received

vars == <<pc, job, up, store, header, rd, out>>

Least(a, b) == IF a <= b THEN a ELSE b
Most(a, b) == IF a >= b THEN a ELSE b
CeilDiv(a, b) == (a + b - 1) \div b

FrameSize == Payload + Tag
MaxBytes == MaxFrames * Payload
Byte == Nat \X Nat
Pad == <<0, 0>>

(* The first n values of a sequence of numbers, added up.                   *)
Total(numbers, n) == SumFunctionOnSet(numbers, 1..n)

(* A set of numbers in ascending order.                                     *)
InOrder(S) ==
  [i \in 1..Cardinality(S) |-> CHOOSE k \in S : Cardinality({m \in S : m < k}) = i - 1]

----------------------------------------------------------------------------
(* Uploading *)

(* s3-gateway upload_body cuts each part into segments of full size. *)
Split(n) ==
  [i \in 1..CeilDiv(n, MaxBytes) |->
     LET length == Least(MaxBytes, n - (i - 1) * MaxBytes)
     IN [length |-> length, declared |-> length]]

Segments(j) ==
  IF j.gateway = "files" THEN j.bodies
  ELSE FlattenSeq([i \in DOMAIN j.bodies |-> Split(j.bodies[i].length)])

(* A file has no more bytes than a number can count.                         *)
ASSUME FilesFit ==
  \A j \in Jobs :
    Len(Segments(j)) \in Nat /\ Len(Segments(j)) * MaxBytes <= Top

Body == Segments(job)[Len(store) + 1]
Content(k, from, to) == [i \in 1..(to - from) |-> <<k, from + i>>]

Empty == [taken |-> 0, pending |-> <<>>, frames |-> <<>>]

CutAlone(pending, chunk) ==
  [i \in 1..(Len(chunk) \div Payload) |-> SubSeq(chunk, (i - 1) * Payload + 1, i * Payload)]
(* The full frames that a chunk completes. *)
Cut(pending, chunk) ==
  LET bytes == pending \o chunk IN
  [i \in 1..(Len(bytes) \div Payload) |-> SubSeq(bytes, (i - 1) * Payload + 1, i * Payload)]

(* What is left of it. *)
Rest(pending, chunk) ==
  LET bytes == pending \o chunk IN
  SubSeq(bytes, (Len(bytes) \div Payload) * Payload + 1, Len(bytes))

Padded(frame) == [i \in 1..Payload |-> IF i <= Len(frame) THEN frame[i] ELSE Pad]

Stop(reason) == pc' = reason

(* ByteUpload::upload looks at Content-Length first. *)
Open ==
  /\ pc = "next" /\ Len(store) < Len(Segments(job))
  /\ Stop(IF Body.declared = 0 \/ Body.declared > MaxBytes THEN "failed" ELSE "body")
  /\ up' = Empty
  /\ UNCHANGED <<job, store, header, rd, out>>

(* s3-gateway hands over a segment as one chunk. *)
Chunk(n) ==
  LET chunk == Content(Len(store) + 1, up.taken, up.taken + n) IN
  /\ pc = "body"
  /\ up.taken + n <= Body.length
  /\ job.gateway = "s3" => n = Body.length
  /\ IF up.taken + n > MaxBytes
     THEN Stop("failed") /\ UNCHANGED up
     ELSE /\ UNCHANGED pc
          /\ up' = [taken   |-> up.taken + n,
                    pending |-> Rest(up.pending, chunk),
                    frames  |-> up.frames \o Cut(up.pending, chunk)]
  /\ UNCHANGED <<job, store, header, rd, out>>

(* The body ends: the last frame is padded.  A segment whose length is not  *)
(* the declared one is deleted.                                             *)
BodyEnd ==
  LET frames == IF up.pending = <<>> THEN up.frames
                ELSE Append(up.frames, Padded(up.pending))
  IN
  /\ pc = "body" /\ up.taken = Body.length
  /\ IF frames = <<>> \/ Body.declared \notin {Unknown, up.taken}
     THEN Stop("failed") /\ UNCHANGED store
     ELSE Stop("next") /\ store' = Append(store, [frames |-> frames, size |-> up.taken])
  /\ UNCHANGED <<job, up, header, rd, out>>

BodyBreak ==
  /\ "body" \in Faults
  /\ pc = "body"
  /\ Stop("failed")
  /\ UNCHANGED <<job, up, store, header, rd, out>>

Size(k) == store[k].size
Sizes == [k \in DOMAIN store |-> Size(k)]
FileSize == Total(Sizes, Len(store))

AnyLength == TRUE
(* files-gateway complete_file: only the last segment may end inside a frame. *)
Aligned ==
  job.gateway = "files" => \A k \in 1..(Len(store) - 1) : Size(k) % Payload = 0

Complete ==
  /\ pc = "next" /\ Len(store) = Len(Segments(job))
  /\ Stop(IF Aligned THEN "complete" ELSE "failed")
  /\ UNCHANGED <<job, up, store, header, rd, out>>

----------------------------------------------------------------------------
(* Asking *)

NoRange == [ok |-> FALSE]
Range0(start, end) == [ok |-> TRUE, start |-> start, end |-> end]

(* files-gateway parse_range.  For s3-gateway the library s3s parses and    *)
(* checks the header; it is taken to do the same.                           *)
ParseRange(h, size) ==
  LET end == IF h.form = "between" THEN Least(Least(h.b + 1, Top), size) ELSE size IN
  CASE h.form = "none" -> Range0(0, size)
    [] h.form = "malformed" -> NoRange
    [] h.form = "suffix" -> IF h.n = 0 \/ size = 0 THEN NoRange
                           ELSE Range0(Most(0, size - h.n), size)
    [] OTHER -> IF h.a >= size \/ h.a >= end THEN NoRange ELSE Range0(h.a, end)

FromFirst(start, end) == [first |-> 0, end |-> CeilDiv(end, Payload)]
(* ByteRequest::frame_request *)
Frames(start, end) == [first |-> start \div Payload, end |-> CeilDiv(end, Payload)]

FrameCount(k) == Len(store[k].frames)
FrameCounts == [k \in DOMAIN store |-> FrameCount(k)]
Base(k) == Total(FrameCounts, k - 1)     \* the global index of its first frame
Offset(k) == Total(Sizes, k - 1)         \* and of its first byte

(* ByteStream::new on the segments ks, the frames of which are numbered from *)
(* base[k]: pieces of them, and the clipping.                                *)
StreamOf(ks, base, start, end) ==
  LET frames == Frames(start, end)
      piece(k) == [segment |-> k,
                   lo |-> Most(base[k], frames.first) - base[k],
                   hi |-> Least(base[k] + FrameCount(k), frames.end) - base[k]]
      read == InOrder({k \in ks : piece(k).lo < piece(k).hi})
  IN [pieces |-> [i \in DOMAIN read |-> piece(read[i])],
      skip |-> start % Payload,
      remaining |-> end - start]

(* Where the bytes start..end-1 of the file begin and end in a segment.      *)
Enter(k, start) == Most(start, Offset(k)) - Offset(k)
Leave(k, end) == Least(end, Offset(k) + Size(k)) - Offset(k)

(* files-gateway opens one stream on all segments, s3-gateway one for each *)
(* segment that has bytes of the range.                                    *)
Streams(range) ==
  IF job.gateway = "files"
  THEN <<StreamOf(DOMAIN store, [k \in DOMAIN store |-> Base(k)], range.start, range.end)>>
  ELSE LET touched == InOrder({k \in DOMAIN store :
                                 Enter(k, range.start) < Leave(k, range.end)})
       IN [i \in DOMAIN touched |->
             LET k == touched[i] IN
             StreamOf({k}, [x \in {k} |-> 0], Enter(k, range.start), Leave(k, range.end))]

NoReader == [streams |-> <<>>, base |-> 0, got |-> 0, stop |-> 0, index |-> 0]

Ask(h) ==
  LET range == ParseRange(h, FileSize) IN
  /\ pc = "complete"
  /\ header' = h
  /\ IF ~ range.ok THEN Stop("refused") /\ UNCHANGED rd
     ELSE IF range.start = range.end THEN Stop("done") /\ UNCHANGED rd
     ELSE Stop("fetch") /\ rd' = [rd EXCEPT !.streams = Streams(range)]
  /\ UNCHANGED <<job, up, store, out>>

(* The catalogue cannot be read, or no stream can be opened: no frame of     *)
(* the budget is left for it.                                                *)
AskFails(h) ==
  /\ "fetch" \in Faults
  /\ pc = "complete"
  /\ header' = h
  /\ Stop("failed")
  /\ UNCHANGED <<job, up, store, rd, out>>

----------------------------------------------------------------------------
(* Downloading *)

Stream == Head(rd.streams)
Piece == Head(Stream.pieces)

(* A ranged GET; a server that ignores the range answers with the whole     *)
(* object, which cdn_range takes for a success as well.                     *)
Fetch ==
  LET count == FrameCount(Piece.segment) IN
  /\ pc = "fetch"
  /\ \E ignored \in {FALSE, "whole" \in Faults} :
       LET base == IF ignored THEN 0 ELSE Piece.lo * FrameSize IN
       rd' = [rd EXCEPT !.base = base, !.got = base, !.index = Piece.lo,
                        !.stop = (IF ignored THEN count ELSE Piece.hi) * FrameSize]
  /\ Stop("download")
  /\ UNCHANGED <<job, up, store, header, out>>

(* The next stream of s3-gateway cannot be opened, the URL of the segment is *)
(* not found, or the answer is no success.                                   *)
FetchFails ==
  /\ "fetch" \in Faults
  /\ pc = "fetch"
  /\ Stop("failed")
  /\ UNCHANGED <<job, up, store, header, rd, out>>

FrameReady == rd.got - rd.base >= FrameSize

Receive(n) ==
  /\ pc = "download" /\ ~ FrameReady
  /\ rd.got + n <= rd.stop
  /\ rd' = [rd EXCEPT !.got = @ + n]
  /\ UNCHANGED <<pc, job, up, store, header, out>>

(* ClippingSink::start_send *)
Clip(s, frame) ==
  LET start == Least(s.skip, Len(frame))
      end == start + Least(s.remaining, Len(frame) - start)
  IN [skip |-> s.skip - start, remaining |-> s.remaining - (end - start),
      bytes |-> SubSeq(frame, start + 1, end)]

(* FrameAssembler::next_frame_mut, FrameDecoder::decode_frame, and the sink. *)
TakeFrame ==
  LET clip == Clip(Stream, store[Piece.segment].frames[rd.index + 1]) IN
  /\ pc = "download" /\ FrameReady
  /\ IF rd.index >= Piece.hi \/ rd.base # rd.index * FrameSize
     THEN Stop("failed") /\ UNCHANGED <<rd, out>>
     ELSE /\ UNCHANGED pc
          /\ out' = out \o clip.bytes
          /\ rd' = [rd EXCEPT !.base = @ + FrameSize, !.index = @ + 1,
                              !.streams[1].skip = clip.skip,
                              !.streams[1].remaining = clip.remaining]
  /\ UNCHANGED <<job, up, store, header>>

(* The response ends, and the download with it, if it is complete. *)
ResponseEnd ==
  LET last == Len(Stream.pieces) = 1 IN
  /\ pc = "download" /\ ~ FrameReady
  /\ rd.got = rd.stop \/ "cut" \in Faults
  /\ IF rd.got # rd.base \/ rd.index # Piece.hi
     THEN Stop("failed") /\ UNCHANGED rd
     ELSE /\ Stop(IF last /\ Len(rd.streams) = 1 THEN "done" ELSE "fetch")
          /\ rd' = [rd EXCEPT !.streams =
               IF last THEN Tail(@) ELSE [@ EXCEPT ![1].pieces = Tail(Stream.pieces)]]
  /\ UNCHANGED <<job, up, store, header, out>>

----------------------------------------------------------------------------
Init ==
  /\ pc = "next"
  /\ job \in Jobs
  /\ up = Empty
  /\ store = <<>>
  /\ header = [form |-> "none"]
  /\ rd = NoReader
  /\ out = <<>>

Next ==
  \/ Open
  \/ \E n \in 1..MaxChunk : Chunk(n)
  \/ BodyEnd
  \/ BodyBreak
  \/ Complete
  \/ \E h \in Headers : Ask(h) \/ AskFails(h)
  \/ Fetch
  \/ FetchFails
  \/ \E n \in 1..MaxChunk : Receive(n)
  \/ TakeFrame
  \/ ResponseEnd

Spec == Init /\ [][Next]_vars

----------------------------------------------------------------------------
(* Properties *)

Ends == {"failed", "refused", "done"}

TypeOK ==
  /\ pc \in {"next", "body", "complete", "fetch", "download"} \cup Ends
  /\ up.taken \in 0..MaxBytes /\ Len(up.pending) < Payload
  /\ \A k \in DOMAIN store : Size(k) \in Nat
  /\ rd.base <= rd.got /\ rd.got <= rd.stop
  /\ \A i \in DOMAIN rd.streams : rd.streams[i].skip \in Nat /\ rd.streams[i].remaining \in Nat
  /\ out \in Seq(Byte)

(* The file as its clients know it: its segments' bytes in order.            *)
File ==
  [q \in 1..FileSize |->
     LET k == CHOOSE k \in DOMAIN store : Offset(k) < q /\ q <= Offset(k) + Size(k)
     IN <<k, q - Offset(k)>>]

(* However a body is chunked (upload.rs:169), its segment holds its bytes   *)
(* in order, in as few frames as they fill, and never too many of them.     *)
SegmentsFaithful ==
  \A k \in DOMAIN store :
    /\ FrameCount(k) = CeilDiv(Size(k), Payload)
    /\ FrameCount(k) <= MaxFrames
    /\ \A f \in 1..FrameCount(k) :
         store[k].frames[f] =
           [p \in 1..Payload |-> LET i == (f - 1) * Payload + p
                                 IN IF i <= Size(k) THEN <<k, i>> ELSE Pad]

(* The positions a header names, by RFC 9110.                               *)
Named(h, p) ==
  CASE h.form = "none" -> TRUE
    [] h.form = "malformed" -> FALSE
    [] h.form = "suffix" -> p >= FileSize - h.n
    [] h.form = "from" -> p >= h.a
    [] h.form = "between" -> h.a <= p /\ p <= h.b

Asked == pc \in {"fetch", "download", "refused", "done"} \/ rd.streams # <<>>
Wanted ==
  IF Asked
  THEN LET named == InOrder({q \in 1..FileSize : Named(header, q - 1)})
       IN [i \in DOMAIN named |-> File[named[i]]]
  ELSE <<>>

(* Ranges are served to the byte by either gateway: whatever the chunks,    *)
(* segments and faults, a reader receives the bytes it asked for, in order, *)
(* never padding or other bytes, and learns of any that are missing.        *)
Serving == INSTANCE RangeRead WITH
  want   <- Wanted,
  status <- IF pc \in Ends THEN pc ELSE IF Asked THEN "open" ELSE "preparing"
ServesRange == Serving!Spec

(* A read costs what it asks for (README.md): every frame that is fetched   *)
(* holds a byte that is wanted, in the segment it is fetched from.          *)
NoIdleFrame ==
  \A i \in DOMAIN rd.streams : \A m \in DOMAIN rd.streams[i].pieces :
    LET p == rd.streams[i].pieces[m] IN
    \A f \in p.lo..(p.hi - 1) :
      \E b \in (f * Payload + 1)..Least((f + 1) * Payload, Size(p.segment)) :
        Named(header, Offset(p.segment) + b - 1)
=============================================================================
