---------------------------- MODULE FilesService ----------------------------
(***************************************************************************)
(* The files gateway with a client that uploads a file (FilesClient) and   *)
(* readers that download it once its URL is printed, by the cached URLs of *)
(* its segments (UrlCache).                                                *)
(***************************************************************************)
EXTENDS FilesClient

CONSTANTS Reader, Margin, Fresh

ASSUME UrlAssumption ==
  /\ Margin \in Nat \ {0}
  /\ Fresh \subseteq Nat /\ \A n \in Fresh : n > Margin

VARIABLES cached, ticket

Urls == INSTANCE UrlCache WITH Segment <- Request

serviceVars == <<allVars, cached, ticket>>

(* The URLs of a file do not depend on how its upload went; readers begin   *)
(* after one without mishaps, which bounds the number of states.            *)
Calm == cli = "printed" /\ ~ excuse /\ spoilt = {}

Attached == {r \in Request : \E i \in Index : rows[i] = r}

(* attach_segment inserts the segment with its cached URL. *)
Upload ==
  /\ ClientNext
  /\ IF Attached' = Attached THEN UNCHANGED cached
     ELSE \E s \in Attached' \ Attached : Urls!Keep(s)
  /\ UNCHANGED ticket

(* completed_file names the segments, CatalogDownloadBackend their URLs. *)
Download ==
  /\ Calm
  /\ \/ Urls!Tick
     \/ \E d \in Reader :
          \/ \E s \in Attached : Urls!Ask(d, s)
          \/ Urls!Look(d) \/ Urls!Resolve(d) \/ Urls!Save(d) \/ Urls!Release(d)
  /\ UNCHANGED allVars

ServiceInit == ClientInit /\ Urls!Init

ServiceNext == Upload \/ Download

FairService == ServiceInit /\ [][ServiceNext]_serviceVars /\ ClientFairness

HeldValid == Urls!HeldValid
=============================================================================
