---------------------------- MODULE MCReplication ----------------------------
(* Instances of Replication for TLC *)
EXTENDS Replication

CONSTANTS n1, n2, n3

(* The targets of writeHandler *)
AllThree == <<n1, n2, n3>>
=============================================================================
