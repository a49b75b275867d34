-------------------------------- MODULE Client --------------------------------
(***************************************************************************)
(* The client program (cmd/client/main.go) against the nodes of            *)
(* Heartbeats: it asks some node for the status of the cluster, chooses    *)
(* the primary or a backup by it, requests its file there and pings        *)
(* whoever it takes to be alive.  The program runs again and again, while  *)
(* nodes crash, start and suspect each other.                              *)
(***************************************************************************)
EXTENDS Heartbeats

CONSTANTS
  Primary,      \* primaryNode
  BackupOrder,  \* backupOrder
  None          \* no node

ASSUME NodesAreKnown ==
  Primary \in Node /\ BackupOrder \in Seq(Node) /\ None \notin Node

VARIABLES
  phase,     \* what the client does next
  statuses,  \* of each node, as the client has been told or found out
  waiting,   \* the node that has accepted its query and not answered
  target,    \* the node to use
  served,    \* the node that served the request
  blamed     \* history: had the node that answered cause to hold the primary failed?

clientVars == <<phase, statuses, waiting, target, served, blamed>>
vars == <<hbVars, clientVars>>

(* main: nobody has been asked *)
Unasked == [n \in Node |-> "unknown"]

ClientInit ==
  /\ Init
  /\ phase = "asking" /\ statuses = Unasked
  /\ waiting = None /\ target = None /\ served = None
  /\ blamed = FALSE

-----------------------------------------------------------------------------
(* getClusterStatus: the nodes are asked in the order of a Go map, each of *)
(* them once, until one answers.                                           *)

(* A node that hangs does not answer, and http.Get sets no timeout.        *)
AskHangs(n) ==
  /\ phase = "asking" /\ statuses[n] = "unknown" /\ waiting = None
  /\ cond[n] = "silent"
  /\ waiting' = n
  /\ UNCHANGED <<hbVars, phase, statuses, target, served, blamed>>

(* The query fails: refused, or the connection to a node that hung is      *)
(* lost, at the latest when its process is.  (A connection that was never  *)
(* made is given up by Go's default dialer.)                               *)
AskFails(n) ==
  /\ phase = "asking" /\ statuses[n] = "unknown"
  /\ \/ waiting = None /\ ~Serving(n) /\ cond[n] # "silent"
     \/ waiting = n
  /\ waiting' = None
  /\ statuses' = [statuses EXCEPT ![n] = "failed"]
  /\ phase' = IF \A m \in Node : statuses'[m] = "failed" THEN "choosing" ELSE phase
  /\ UNCHANGED <<hbVars, target, served, blamed>>

(* What the client holds of m once n has answered: StatusHandler sends the *)
(* detector's table, which overrides what the client has found out itself. *)
StatusFrom(n, m) == IF m = n THEN "alive"
                    ELSE IF m \in Peers(n) THEN status[n][m] ELSE statuses[m]

AskStatus(n) ==
  /\ phase = "asking" /\ statuses[n] = "unknown" /\ waiting = None /\ Serving(n)
  /\ statuses' = [m \in Node |-> StatusFrom(n, m)]
  /\ phase' = "choosing"
  /\ blamed' = (n # Primary /\ (~Running(Primary) \/ <<n, Primary>> \in excused))
  /\ UNCHANGED <<hbVars, waiting, target, served>>

(* Mutants: no backup is tried, and backups are tried first *)
PrimaryOnly == <<Primary>>
BackupsFirst == BackupOrder \o <<Primary>>

(* The nodes in the order in which getTargetNode looks at them, and the    *)
(* places of those it takes to be alive                                    *)
Ranked == <<Primary>> \o BackupOrder
Alive == {k \in DOMAIN Ranked : statuses[Ranked[k]] = "alive"}

(* main returns, and its variables are gone. *)
Return ==
  phase' = "done" /\ statuses' = Unasked /\ target' = None /\ blamed' = FALSE

(* getTargetNode; without a node main returns *)
GetTargetNode ==
  /\ phase = "choosing"
  /\ IF Alive = {} THEN Return
     ELSE /\ \E k \in Alive : (\A j \in Alive : k <= j) /\ target' = Ranked[k]
          /\ phase' = "requesting" /\ UNCHANGED <<statuses, blamed>>
  /\ UNCHANGED <<hbVars, waiting, served>>

(* requestFile, to the target.  The message is a heartbeat of "client",    *)
(* whom no detector knows, so it changes nothing at any node.              *)
RequestFile ==
  /\ phase = "requesting"
  /\ served' = IF Serving(target) THEN target ELSE None
  /\ phase' = "pinging"
  /\ UNCHANGED <<hbVars, statuses, waiting, target, blamed>>

(* sendHeartbeats: likewise, to everyone taken to be alive *)
SendHeartbeats ==
  /\ phase = "pinging" /\ Return
  /\ UNCHANGED <<hbVars, waiting, served>>

(* The program is started again. *)
RunAgain ==
  /\ phase = "done"
  /\ phase' = "asking" /\ served' = None
  /\ UNCHANGED <<hbVars, statuses, waiting, target, blamed>>

ClientStep == \/ \E n \in Node : AskHangs(n) \/ AskFails(n) \/ AskStatus(n)
              \/ GetTargetNode \/ RequestFile \/ SendHeartbeats \/ RunAgain

Next == (HbNext /\ UNCHANGED clientVars) \/ ClientStep

Spec == ClientInit /\ [][Next]_vars

(* The run waits for a node that hangs: nothing makes it go on. *)
Blocked == waiting # None /\ cond[waiting] = "silent"

FairSpec == Spec /\ HbFairness /\ WF_vars(~Blocked /\ ClientStep)

-----------------------------------------------------------------------------
(* client/main.go:89: "Always try primary first for strong consistency".   *)
(* The client turns to a backup only when the node it asked, not the       *)
(* primary itself, answered while the primary did not run or while that    *)
(* node had a reason not to have heard of it.                              *)
PrimaryFirst ==
  [][target = None /\ target' \notin {None, Primary} => blamed]_vars

(* Failover: crashes being rare, while some node serves every run of the   *)
(* client that ends is served in the end, by whoever is left; and its runs *)
(* end, unless one waits for a node that hangs for good.                   *)
ClientsAreServed ==
  (\E n \in Node : <>[]Serving(n)) =>
    /\ <>[](phase = "done" => served # None)
    /\ []<>(phase = "done") \/ <>[]Blocked
=============================================================================
