------------------------------ MODULE UrlCache ------------------------------
(***************************************************************************)
(* The URLs by which messages are downloaded expire.  files-gateway keeps  *)
(* the last one it knows with the segment's row, from the upload or a      *)
(* resolution (download.rs, catalog.rs), and uses it again as long as it   *)
(* outlives the moment it is asked for by Margin.                          *)
(*                                                                         *)
(* Times are seconds left, not told apart once they are over.  A query of  *)
(* the catalog takes less than Margin: it is given up after 30 s for a     *)
(* connection and 5 s for a lock.  A URL that states no expiry is never    *)
(* used again; the service's state theirs, and are all taken to.           *)
(*                                                                         *)
(* NotExpired is not part of the specification: it is a defective variant  *)
(* of the definition that follows it, and shows that a property below      *)
(* notices the defect.                                                     *)
(***************************************************************************)
EXTENDS Integers

CONSTANTS
  Segment,
  Reader,      \* downloads; each asks for one URL at a time
  Margin,      \* 300 s
  Fresh        \* for how long a URL of the service may be valid

VARIABLES
  cached,      \* [Segment -> seconds left of the URL of its row, 0 if none]
  ticket       \* [Reader -> its resolve_url]

urlVars == <<cached, ticket>>

(* due: what is left of the Margin that began when the URL was asked for.  *)
NoTicket(s) == [pc |-> "none", segment |-> s, due |-> 0, url |-> 0]

Less(n) == IF n = 0 THEN 0 ELSE n - 1

----------------------------------------------------------------------------
(* attach_segment stores the URL of the message that was posted. *)
Keep(s) == \E n \in Fresh : cached' = [cached EXCEPT ![s] = n]

Ask(d, s) ==
  /\ ticket[d].pc = "none"
  /\ ticket' = [ticket EXCEPT ![d] = [pc |-> "looking", segment |-> s, due |-> Margin, url |-> 0]]
  /\ UNCHANGED cached

NotExpired(url, due) == url > 0
Reusable(url, due) == url > due

(* cached_url *)
Look(d) ==
  LET url == cached[ticket[d].segment] IN
  /\ ticket[d].pc = "looking"
  /\ ticket' = [ticket EXCEPT ![d] = IF Reusable(url, @.due)
                                     THEN [@ EXCEPT !.pc = "held", !.url = url]
                                     ELSE [@ EXCEPT !.pc = "resolving"]]
  /\ UNCHANGED cached

(* The service is asked; readers do not wait for each other's answers. *)
Resolve(d) ==
  /\ ticket[d].pc = "resolving"
  /\ \E n \in Fresh : ticket' = [ticket EXCEPT ![d] = [@ EXCEPT !.pc = "saving", !.url = n]]
  /\ UNCHANGED cached

(* cache_url, over whatever another reader has saved meanwhile. *)
Save(d) ==
  /\ ticket[d].pc = "saving"
  /\ cached' = [cached EXCEPT ![ticket[d].segment] = ticket[d].url]
  /\ ticket' = [ticket EXCEPT ![d].pc = "held"]

(* The URL is used, a step of it fails, or the reader is gone. *)
Release(d) ==
  /\ ticket[d].pc # "none"
  /\ ticket' = [ticket EXCEPT ![d] = NoTicket(@.segment)]
  /\ UNCHANGED cached

Tick ==
  /\ \A d \in Reader : ticket[d].pc = "looking" => ticket[d].due > 1
  /\ cached' = [s \in Segment |-> Less(cached[s])]
  /\ ticket' = [d \in Reader |-> [pc  |-> ticket[d].pc, segment |-> ticket[d].segment,
                                   due |-> Less(ticket[d].due), url |-> Less(ticket[d].url)]]

----------------------------------------------------------------------------
Init ==
  /\ cached = [s \in Segment |-> 0]
  /\ ticket \in [Reader -> {NoTicket(CHOOSE s \in Segment : TRUE)}]

Next ==
  \/ Tick
  \/ \E d \in Reader :
       \/ \E s \in Segment : Ask(d, s)
       \/ Look(d) \/ Resolve(d) \/ Save(d) \/ Release(d)

(* Properties *)

(* Whoever is given a URL can use it until Margin after asking for it: not  *)
(* one that a slower reader has saved over a newer one, nor one that has    *)
(* aged in the catalog (download.rs:27), runs out before.                   *)
HeldValid ==
  \A d \in Reader :
    ticket[d].pc = "held" /\ ticket[d].due > 0 => ticket[d].url > ticket[d].due
=============================================================================
