------------------------------ MODULE Heartbeats ------------------------------
(***************************************************************************)
(* Who hears of whom in time: the heartbeat senders (fault/heartbeat.go)   *)
(* of all nodes against their failure detectors (fault/detector.go), with  *)
(* the message handler of internal/api between them and the start of a     *)
(* node as cmd/node/main.go wires it.                                      *)
(*                                                                         *)
(* Time is discrete, one tick a second.  The monitor looks five times a    *)
(* second, so between two ticks it finds whoever is late.  Callbacks and   *)
(* gossip, which take no time here, are FaultManager's.                    *)
(***************************************************************************)
EXTENDS Naturals, Sequences, Functions

CONSTANTS
  Node,
  PeerURLs,     \* of each node: its peers, in the order they are contacted
  Interval,     \* ticks that Start sleeps between two rounds
  SendTimeout,  \* the timeout of transport's httpClient
  Timeout,      \* the detector's timeout
  MaxDelay,     \* bound: ticks until a peer that listens has answered a POST
  BootTimes,    \* bound: ticks from a node's start until its server listens
  Faults,       \* how a node may be lost: "down" refuses, "silent" hangs
  MaxCrashes    \* bound: crashes in all

(* The peers registered with the detector of n *)
Peers(n) == Range(PeerURLs[n])

ASSUME PeersAreListed ==
  /\ PeerURLs \in [Node -> Seq(Node) \ {<< >>}]
  /\ \A n \in Node : n \notin Peers(n) /\ \A p \in Peers(n) : n \in Peers(p)
ASSUME TimesAreNatural ==
  /\ {Interval, SendTimeout, Timeout, MaxDelay, MaxCrashes} \subseteq Nat
  /\ BootTimes \subseteq Nat
  /\ Interval > 0
ASSUME FaultsAreKnown == Faults \subseteq {"down", "silent"}

VARIABLES
  cond,     \* of each node: "up", or how it is lost
  boot,     \* ticks until its server listens
  next,     \* index of the peer that its sender contacts next
  wait,     \* ticks until it does: what is left of a POST and of a sleep
  age,      \* age[n][p]: ticks since lastSeen of p in the detector of n
  status,   \* status[n][p]: status of p in the detector of n
  crashes,
  excused   \* history: <<n, p>> if n has a reason not to have heard of p

senderVars   == <<next, wait>>
detectorVars == <<age, status>>
hbVars == <<cond, boot, senderVars, detectorVars, crashes, excused>>

Running(n) == cond[n] = "up"
Serving(n) == Running(n) /\ boot[n] = 0

Init ==
  /\ cond    = [n \in Node |-> "up"]
  /\ boot    = [n \in Node |-> 0]
  /\ next    = [n \in Node |-> 1]
  /\ wait    = [n \in Node |-> Interval]
  /\ age     = [n \in Node |-> [p \in Peers(n) |-> 0]]
  /\ status  = [n \in Node |-> [p \in Peers(n) |-> "alive"]]
  /\ crashes = 0
  /\ excused = {}

-----------------------------------------------------------------------------
(* RecordHeartbeat, called by MessageHandler *)
RecordHeartbeat(n, p) ==
  /\ age'    = [age EXCEPT ![n][p] = 0]
  /\ status' = [status EXCEPT ![n][p] = "alive"]

(* The ticks a POST to n may take.  Whoever has no process that listens    *)
(* but a host that answers refuses at once.                                *)
SendTime(n) == IF cond[n] = "silent" THEN {SendTimeout}
               ELSE IF Serving(n) THEN 0 .. MaxDelay ELSE {0}

(* Mutants: the loop does not start over, and sleeps too long *)
NextPeerOnly(p) == next[p] + 1
PauseLong(p) == IF next[p] = Len(PeerURLs[p]) THEN Interval + Timeout ELSE 0

(* The loops of sendToAll and Start: whom p contacts after this one, and   *)
(* how long it sleeps before.                                              *)
NextPeer(p) == IF next[p] = Len(PeerURLs[p]) THEN 1 ELSE next[p] + 1
Pause(p) == IF next[p] = Len(PeerURLs[p]) THEN Interval ELSE 0

(* One peer of sendToAll.  An error is ignored; what matters is how long   *)
(* it took.                                                                *)
SendToNext(p) ==
  LET n == PeerURLs[p][next[p]] IN
  /\ Running(p) /\ wait[p] = 0
  /\ next' = [next EXCEPT ![p] = NextPeer(p)]
  /\ \E d \in SendTime(n) : wait' = [wait EXCEPT ![p] = d + Pause(p)]
  /\ IF Serving(n)
       THEN RecordHeartbeat(n, p) /\ excused' = excused \ {<<n, p>>}
       ELSE /\ excused' = excused \cup {<<n, p>>} \cup
                 IF cond[n] = "silent" THEN Node \X {p} ELSE {}
            /\ UNCHANGED detectorVars
  /\ UNCHANGED <<cond, boot, crashes>>

(* Mutant: the wrong status is looked for *)
LateAndFailed(n) == {p \in Peers(n) : age[n][p] > Timeout /\ status[n][p] = "failed"}

(* The peers whose heartbeat the monitor of n finds missing *)
Late(n) == {p \in Peers(n) : age[n][p] > Timeout /\ status[n][p] = "alive"}

CheckAll(n) ==
  /\ Running(n) /\ Late(n) # {}
  /\ status' = [status EXCEPT ![n] =
       [p \in Peers(n) |-> IF p \in Late(n) THEN "failed" ELSE @[p]]]
  /\ UNCHANGED <<cond, boot, senderVars, age, crashes, excused>>

-----------------------------------------------------------------------------
Crash(n) ==
  /\ Running(n) /\ crashes < MaxCrashes
  /\ crashes' = crashes + 1
  /\ \E f \in Faults : cond' = [cond EXCEPT ![n] = f]
  /\ UNCHANGED <<boot, senderVars, detectorVars, excused>>

(* main: NewFaultManager registers the peers, Start runs sender and        *)
(* monitor, and only when the first clock synchronisation has ended does   *)
(* the server listen.                                                      *)
StartNode(n) ==
  /\ ~Running(n)
  /\ cond' = [cond EXCEPT ![n] = "up"]
  /\ \E b \in BootTimes : boot' = [boot EXCEPT ![n] = b]
  /\ next'    = [next EXCEPT ![n] = 1]
  /\ wait'    = [wait EXCEPT ![n] = Interval]
  /\ age'     = [age EXCEPT ![n] = [p \in Peers(n) |-> 0]]
  /\ status'  = [status EXCEPT ![n] = [p \in Peers(n) |-> "alive"]]
  /\ excused' = excused \cup (Node \X {n})
  /\ UNCHANGED crashes

(* Time passes when nothing is due: a POST starts when the one before it   *)
(* has ended, and the monitor has looked.  Ages stop at Timeout + 1.       *)
Tick ==
  /\ \A n \in Node : Running(n) => wait[n] > 0 /\ Late(n) = {}
  /\ wait' = [n \in Node |-> IF Running(n) THEN wait[n] - 1 ELSE wait[n]]
  /\ boot' = [n \in Node |-> IF Serving(n) \/ ~Running(n) THEN boot[n] ELSE boot[n] - 1]
  /\ age'  = [n \in Node |-> [p \in Peers(n) |->
                IF Running(n) /\ age[n][p] <= Timeout THEN age[n][p] + 1
                                                      ELSE age[n][p]]]
  /\ UNCHANGED <<cond, next, status, crashes, excused>>

HbNext ==
  \/ \E n \in Node : SendToNext(n) \/ CheckAll(n) \/ Crash(n) \/ StartNode(n)
  \/ Tick

HbSpec == Init /\ [][HbNext]_hbVars

-----------------------------------------------------------------------------
(* Every variable keeps its shape. *)
TypeOK ==
  /\ cond \in [Node -> {"up", "down", "silent"}]
  /\ boot \in [Node -> Nat]
  /\ next \in [Node -> Nat \ {0}] /\ wait \in [Node -> Nat]
  /\ DOMAIN age = Node /\ DOMAIN status = Node
  /\ \A n \in Node : /\ next[n] \in DOMAIN PeerURLs[n]
                     /\ age[n] \in [Peers(n) -> 0 .. Timeout + 1]
                     /\ status[n] \in [Peers(n) -> {"alive", "failed"}]
  /\ excused \subseteq Node \X Node /\ crashes \in 0 .. MaxCrashes

(* heartbeat.go:45: "peer might be down, detector will catch it" - and no  *)
(* other peer.  A peer that runs is held failed only if, since it was last *)
(* heard, it has been restarted, has sat out a send timeout, or has called *)
(* when nobody listened.                                                   *)
SuspectsForCause ==
  \A n \in Node : \A p \in Peers(n) :
    Running(n) /\ Running(p) /\ status[n][p] = "failed" => <<n, p>> \in excused

(* A peer that is lost for good ends up failed for every node that runs.   *)
LostAreFailed ==
  \A n \in Node : \A p \in Peers(n) :
    <>[](Running(n) /\ ~Running(p)) => <>[](status[n][p] = "failed")

(* A peer that serves for good ends up alive for good, unless some peer    *)
(* hangs: that costs every round a send timeout.                           *)
ServingAreAlive ==
  \A n \in Node : \A p \in Peers(n) :
    <>[](Serving(n) /\ Serving(p) /\ \A q \in Node : cond[q] # "silent")
      => <>[](status[n][p] = "alive")

-----------------------------------------------------------------------------
(* The goroutines of sender and monitor run, and time passes. *)
HbFairness == WF_hbVars(Tick) /\
  \A n \in Node : WF_hbVars(SendToNext(n)) /\ WF_hbVars(CheckAll(n))
=============================================================================
