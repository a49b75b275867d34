------------------------------- MODULE MCClient -------------------------------
(* Instances of Client for TLC *)
EXTENDS Client, TLC

CONSTANTS n1, n2, n3

(* Every node contacts the others in the order of their numbers. *)
InOrder == n1 :> <<n2, n3>> @@ n2 :> <<n1, n3>> @@ n3 :> <<n1, n2>>
Backups == <<n2, n3>>
=============================================================================
