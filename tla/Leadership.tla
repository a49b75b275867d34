----------------------------- MODULE Leadership -----------------------------
(* What an election promises, without messages, timers or logs: every node *)
(* casts at most one vote a term, in terms that only grow, no vote is ever *)
(* withdrawn, and a node leads a term only with the votes of more than     *)
(* half of the nodes.  Raft implements it (LeadershipImplemented there).   *)
EXTENDS Naturals, FiniteSets

CONSTANTS
  Node,  \* a finite set
  Term   \* positive numbers

VARIABLES
  ballots,  \* the votes cast, <<voter, term, candidate>>
  leads     \* the term a node leads in; 0 when it leads in none

Init == ballots = {} /\ leads = [i \in Node |-> 0]

Voters(t, c) == {v \in Node : <<v, t, c>> \in ballots}

(* A node that casts a vote leads no longer. *)
Cast(v, t, c) ==
  /\ \A b \in ballots : b[1] = v => b[2] < t
  /\ ballots' = ballots \cup {<<v, t, c>>}
  /\ leads' = [leads EXCEPT ![v] = 0]

(* Votes for a term the candidate itself has left behind elect nobody.     *)
Elect(c, t) ==
  /\ leads[c] = 0
  /\ \A b \in ballots : b[1] = c => b[2] <= t
  /\ Cardinality(Voters(t, c)) > Cardinality(Node) \div 2
  /\ leads' = [leads EXCEPT ![c] = t]
  /\ UNCHANGED ballots

Resign(c) ==
  /\ leads' = [leads EXCEPT ![c] = 0]
  /\ UNCHANGED ballots

Next == \/ \E v, c \in Node, t \in Term : Cast(v, t, c)
        \/ \E c \in Node, t \in Term : Elect(c, t)
        \/ \E c \in Node : Resign(c)

Spec == Init /\ [][Next]_<<ballots, leads>>

-----------------------------------------------------------------------------
TypeOK == /\ ballots \subseteq Node \X Term \X Node
          /\ leads \in [Node -> Term \cup {0}]

(* No two nodes lead in the same term. *)
OneLeaderPerTerm ==
  \A i, j \in Node : leads[i] = leads[j] /\ leads[i] # 0 => i = j
=============================================================================
