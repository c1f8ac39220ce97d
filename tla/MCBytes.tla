------------------------------ MODULE MCBytes ------------------------------
(* Frames of two bytes and a tag of one; segments of two frames.             *)
EXTENDS SegmentBytes

Plainly(n) == [length |-> n, declared |-> Unknown]
Sized(n, declared) == [length |-> n, declared |-> declared]

FilesOf(bodies) == [gateway |-> "files", bodies |-> bodies]
S3Of(bodies) == [gateway |-> "s3", bodies |-> bodies]

(* Aligned and unaligned segments, bodies that are empty, too large or not   *)
(* as long as declared; objects of one part and of several.                  *)
MCJobs ==
  {FilesOf(<<>>),
   FilesOf(<<Plainly(4), Sized(3, 3)>>), FilesOf(<<Plainly(2), Sized(4, 4), Plainly(1)>>),
   FilesOf(<<Plainly(3), Plainly(2)>>), FilesOf(<<Plainly(5)>>), FilesOf(<<Sized(2, 3)>>),
   FilesOf(<<Plainly(0)>>), FilesOf(<<Sized(0, 0)>>), FilesOf(<<Sized(5, 5)>>),
   S3Of(<<Plainly(5)>>), S3Of(<<Plainly(3), Plainly(5)>>), S3Of(<<Plainly(0)>>)}

MCHeaders ==
  {[form |-> "none"], [form |-> "malformed"]}
  \cup {[form |-> "suffix", n |-> n] : n \in {0, 1, 4, Top}}
  \cup {[form |-> "from", a |-> a] : a \in {0, 3, 6, Top}}
  \cup {[form |-> "between", a |-> a, b |-> b] : a \in {0, 1, 2, 4, 5}, b \in {0, 2, 4, 5, Top}}
=============================================================================
