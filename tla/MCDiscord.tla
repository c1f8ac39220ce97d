----------------------------- MODULE MCDiscord -----------------------------
(* A post, free to choose, against a resolve, and that against a delete; w3  *)
(* is not configured, and one response reports a smaller burst than is.      *)
EXTENDS DiscordClient

CONSTANTS w1, w2, w3, e1

MCWebhooks == <<w1, w2>>
MCEgresses == <<e1>>
Post == [op |-> "post"]
Resolve == [op |-> "resolve", webhook |-> w1]
Delete == [op |-> "delete", webhook |-> w1]
Unknown == [op |-> "delete", webhook |-> w3]
MCWorkloads == {<<Post, Resolve>>, <<Resolve, Delete>>, <<Post, Unknown>>}
MCInterval == [k \in Kind |-> 1]
MCCapacity == [k \in Kind |-> IF k = "ip" THEN 9 ELSE 2]
MCReplies ==
  {[status |-> s, report |-> Silent, global |-> FALSE] :
     s \in {"torn", "broken", "denied", "missing"}}
  \cup {[status |-> "ok", report |-> <<Missing, 2>>, global |-> FALSE],
        [status |-> "error", report |-> <<0, 1>>, global |-> FALSE],
        [status |-> "limited", report |-> Silent, global |-> TRUE]}
============================================================================
