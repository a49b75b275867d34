------------------------------- MODULE MCRaft -------------------------------
(* Instances of Raft for TLC *)
EXTENDS Raft, TLC

CONSTANTS n1, n2, n3

(* Two nodes that may each stand in terms 1 and 2 *)
Rivals == {n1, n2} \X {1, 2}

(* One candidacy: n1 leads for good *)
Steady == {<<n1, 1>>}
(* n1 leads term 1, n2 takes over in term 2 *)
Takeover == {<<n1, 1>>, <<n2, 2>>}

(* Rivals, and operations, are interchangeable in every safety property. *)
Symmetry == Permutations({n1, n2}) \cup Permutations(Op)
=============================================================================
