---------------------------- MODULE FaultManager ----------------------------
(***************************************************************************)
(* The fault manager of one node: internal/fault's detector.go, gossip.go, *)
(* recovery.go and the wiring of fault.go.  The monitor goroutine, the     *)
(* HTTP handlers and the goroutines they spawn interleave at the points    *)
(* where they hold a mutex; in particular the detector runs its callbacks  *)
(* after it has let go of its own.                                         *)
(***************************************************************************)
EXTENDS Integers, FiniteSets

CONSTANTS
  Peer,        \* the nodes registered with the detector and the gossip manager
  Fanout,      \* gossip.go: targets of one round
  MaxRounds,   \* gossip.go: maxRounds
  Gossips,     \* bound: the <<sender, failed node>> gossip that may arrive
  MaxFailures, \* bound: a peer that failed this often is not overdue again
  Interleaved  \* whether the world goes on while callbacks are under way

ASSUME PeersFinite == IsFiniteSet(Peer)
ASSUME LimitsAreNatural == MaxFailures \in Nat
ASSUME GossipReachesSomebody == {Fanout, MaxRounds} \subseteq Nat \ {0}
ASSUME GossipIsAboutOthers ==
  Gossips \subseteq {g \in Peer \X Peer : g[1] # g[2]}
ASSUME SwitchIsBoolean == Interleaved \in BOOLEAN

VARIABLES
  status,     \* types.Node.Status
  overdue,    \* is lastSeen further back than the timeout?
  justFailed, \* peers whose OnFailure the running checkAll has yet to call
  confirmed,  \* OnFailure goroutines spawned by ReceiveGossip
  rejoining,  \* RecordHeartbeat calls that have yet to call OnRejoin
  record,     \* state of the RecoveryRecord, or "none"
  rumours, history,
  due,        \* SpreadFailure goroutines that wait for the mutex
  spreads,    \* SpreadFailure rounds that have peers left to tell
  gossips,    \* gossip on its way to this node
  noting,     \* ReceiveGossip calls between their two locked regions
  failures, calls, recovered  \* history: see Init

detectorVars == <<status, overdue, failures>>
callbackVars == <<justFailed, confirmed, rejoining>>
recoveryVars == <<record, calls, recovered>>
gossipVars   == <<rumours, history, due, spreads>>
inputVars    == <<gossips, noting>>
vars == <<detectorVars, callbackVars, recoveryVars, gossipVars, inputVars>>

Put(f, n, v) == [f EXCEPT ![n] = v]

Init ==
  /\ status     = [n \in Peer |-> "alive"]
  /\ overdue    = [n \in Peer |-> FALSE]
  /\ justFailed = {}
  /\ confirmed  = [n \in Peer |-> 0]
  /\ rejoining  = [n \in Peer |-> 0]
  /\ record     = [n \in Peer |-> "none"]
  /\ rumours    = [n \in Peer |-> 0]
  /\ history    = [n \in Peer |-> {}]
  /\ due        = [n \in Peer |-> 0]
  /\ spreads    = {}
  /\ gossips    = Gossips
  /\ noting     = {}
  /\ failures   = [n \in Peer |-> 0]   \* times the peer went from alive to failed
  /\ calls      = [n \in Peer |-> 0]   \* times OnFailure was called for it
  /\ recovered  = [n \in Peer |-> 0]   \* times its rejoin made the recovery run

(* Nothing about the peer is under way. *)
Settled(n) == /\ n \notin justFailed /\ confirmed[n] = 0 /\ rejoining[n] = 0
              /\ due[n] = 0 /\ \A s \in spreads : s.about # n
              /\ \A g \in noting : g[2] # n
Quiet == Interleaved \/ \A n \in Peer : Settled(n)

-----------------------------------------------------------------------------
(* Detector *)

(* Time passes without a heartbeat of n. *)
FallSilent(n) ==
  /\ ~overdue[n] /\ failures[n] < MaxFailures /\ Quiet
  /\ overdue' = Put(overdue, n, TRUE)
  /\ UNCHANGED <<status, failures, callbackVars, recoveryVars, gossipVars, inputVars>>

(* RecordHeartbeat, up to the unlock *)
RecordHeartbeat(n) ==
  /\ Quiet
  /\ overdue' = Put(overdue, n, FALSE)
  /\ status'  = Put(status, n, "alive")
  /\ rejoining' = IF status[n] = "failed" THEN Put(rejoining, n, rejoining[n] + 1)
                                          ELSE rejoining
  /\ UNCHANGED <<failures, justFailed, confirmed, recoveryVars, gossipVars, inputVars>>

(* Mutant: a peer that is already failed is reported again *)
CheckAllAgain ==
  LET late == {n \in Peer : overdue[n]} IN
  /\ Quiet /\ justFailed = {} /\ late # {}
  /\ status' = [n \in Peer |-> IF n \in late THEN "failed" ELSE status[n]]
  /\ failures' = [n \in Peer |-> IF n \in late /\ status[n] = "alive"
                                   THEN failures[n] + 1 ELSE failures[n]]
  /\ justFailed' = late
  /\ UNCHANGED <<overdue, confirmed, rejoining, recoveryVars, gossipVars, inputVars>>

(* checkAll, up to the unlock.  The monitor calls it again only when it    *)
(* has called OnFailure for all the peers it found.                        *)
CheckAll ==
  LET late == {n \in Peer : overdue[n] /\ status[n] = "alive"} IN
  /\ Quiet /\ justFailed = {} /\ late # {}
  /\ status' = [n \in Peer |-> IF n \in late THEN "failed" ELSE status[n]]
  /\ failures' = [n \in Peer |-> IF n \in late THEN failures[n] + 1 ELSE failures[n]]
  /\ justFailed' = late
  /\ UNCHANGED <<overdue, confirmed, rejoining, recoveryVars, gossipVars, inputVars>>

-----------------------------------------------------------------------------
(* The callbacks of NewFaultManager, and RecoveryManager *)

(* OnFailure spawns SpreadFailure; OnNodeFailure makes a fresh record. *)
OnFailure(n) ==
  /\ due'    = Put(due, n, due[n] + 1)
  /\ record' = Put(record, n, "pending")
  /\ calls'  = Put(calls, n, calls[n] + 1)

ReportFailure(n) ==
  /\ n \in justFailed
  /\ justFailed' = justFailed \ {n}
  /\ OnFailure(n)
  /\ UNCHANGED <<detectorVars, confirmed, rejoining, recovered, rumours, history,
                 spreads, inputVars>>

ReportConfirmed(n) ==
  /\ confirmed[n] > 0
  /\ confirmed' = Put(confirmed, n, confirmed[n] - 1)
  /\ OnFailure(n)
  /\ UNCHANGED <<detectorVars, justFailed, rejoining, recovered, rumours, history,
                 spreads, inputVars>>

(* OnRejoin, that is OnNodeRejoin: a record that is complete makes the     *)
(* rejoin a duplicate, and a peer without a record has nothing to recover. *)
OnNodeRejoin(n) ==
  /\ rejoining[n] > 0
  /\ rejoining' = Put(rejoining, n, rejoining[n] - 1)
  /\ record'    = Put(record, n, "complete")
  /\ recovered' = IF record[n] = "pending" THEN Put(recovered, n, recovered[n] + 1)
                                           ELSE recovered
  /\ UNCHANGED <<detectorVars, justFailed, confirmed, calls, gossipVars, inputVars>>

-----------------------------------------------------------------------------
(* Gossip *)

(* The peers pickRandomPeers chooses from *)
Candidates(n) == {p \in Peer : p # n /\ p \notin history[n]}

Targets(n) == {T \in SUBSET Candidates(n) :
                 \/ Cardinality(T) = Fanout
                 \/ T = Candidates(n) /\ Cardinality(T) < Fanout}

(* Mutant: the round counts, but the goroutine ends before it sends *)
SpreadToNobody(n) ==
  /\ due[n] > 0
  /\ due' = Put(due, n, due[n] - 1)
  /\ rumours' = Put(rumours, n, IF rumours[n] >= MaxRounds THEN rumours[n]
                                                          ELSE rumours[n] + 1)
  /\ UNCHANGED <<detectorVars, callbackVars, recoveryVars, history, spreads, inputVars>>

(* Mutant: one round too many *)
SpreadOneMore(n) ==
  /\ due[n] > 0
  /\ due' = Put(due, n, due[n] - 1)
  /\ IF rumours[n] > MaxRounds THEN UNCHANGED <<rumours, spreads>>
     ELSE /\ rumours' = Put(rumours, n, rumours[n] + 1)
          /\ \E T \in Targets(n) :
               spreads' = spreads \cup
                 IF T = {} THEN {}
                 ELSE {[about |-> n, round |-> rumours[n] + 1, todo |-> T]}
  /\ UNCHANGED <<detectorVars, callbackVars, recoveryVars, history, inputVars>>

(* SpreadFailure, up to the unlock *)
SpreadFailure(n) ==
  /\ due[n] > 0
  /\ due' = Put(due, n, due[n] - 1)
  /\ IF rumours[n] >= MaxRounds THEN UNCHANGED <<rumours, spreads>>
     ELSE /\ rumours' = Put(rumours, n, rumours[n] + 1)
          /\ \E T \in Targets(n) :
               spreads' = spreads \cup
                 IF T = {} THEN {}
                 ELSE {[about |-> n, round |-> rumours[n] + 1, todo |-> T]}
  /\ UNCHANGED <<detectorVars, callbackVars, recoveryVars, history, inputVars>>

(* One target of the loop: marked, then told, whether or not it answers. *)
SendGossip(s, p) ==
  LET n == s.about
      todo == s.todo \ {p}
  IN
  /\ history' = Put(history, n, history[n] \cup {p})
  /\ spreads' = (spreads \ {s}) \cup
                  IF todo = {} THEN {} ELSE {[s EXCEPT !.todo = todo]}
  /\ UNCHANGED <<detectorVars, callbackVars, recoveryVars, rumours, due, inputVars>>

(* Mutant: the news is believed but nobody is called *)
BelieveGossip(g) ==
  LET n == g[2] IN
  /\ Quiet
  /\ gossips' = gossips \ {g} /\ noting' = noting \cup {g}
  /\ IF status[n] = "alive"
       THEN /\ status'   = Put(status, n, "failed")
            /\ failures' = Put(failures, n, failures[n] + 1)
       ELSE UNCHANGED <<status, failures>>
  /\ UNCHANGED <<overdue, justFailed, confirmed, rejoining, recoveryVars, rumours,
                 history, due, spreads>>

(* ReceiveGossip, the region under the detector's lock *)
ReceiveGossip(g) ==
  LET n == g[2] IN
  /\ Quiet
  /\ gossips' = gossips \ {g} /\ noting' = noting \cup {g}
  /\ IF status[n] = "alive"
       THEN /\ status'    = Put(status, n, "failed")
            /\ failures'  = Put(failures, n, failures[n] + 1)
            /\ confirmed' = Put(confirmed, n, confirmed[n] + 1)
       ELSE UNCHANGED <<status, failures, confirmed>>
  /\ UNCHANGED <<overdue, justFailed, rejoining, recoveryVars, rumours, history,
                 due, spreads>>

(* ReceiveGossip, the region under the gossip manager's lock *)
NoteGossip(g) ==
  LET n == g[2] IN
  /\ noting'  = noting \ {g}
  /\ history' = Put(history, n, history[n] \cup {g[1]})
  /\ due' = IF rumours[n] < MaxRounds THEN Put(due, n, due[n] + 1) ELSE due
  /\ UNCHANGED <<detectorVars, callbackVars, recoveryVars, rumours, spreads, gossips>>

-----------------------------------------------------------------------------
Callbacks(n) == ReportFailure(n) \/ ReportConfirmed(n) \/ OnNodeRejoin(n)

Next ==
  \/ \E n \in Peer : FallSilent(n) \/ RecordHeartbeat(n)
  \/ CheckAll
  \/ \E n \in Peer : Callbacks(n) \/ SpreadFailure(n)
  \/ \E s \in spreads : \E p \in s.todo : SendGossip(s, p)
  \/ \E g \in gossips : ReceiveGossip(g)
  \/ \E g \in noting : NoteGossip(g)

Spec == Init /\ [][Next]_vars

-----------------------------------------------------------------------------
(* Every variable keeps its shape; no peer is spread about in more than    *)
(* MaxRounds rounds.                                                       *)
TypeOK ==
  /\ status \in [Peer -> {"alive", "failed"}]
  /\ overdue \in [Peer -> BOOLEAN]
  /\ justFailed \subseteq Peer
  /\ confirmed \in [Peer -> Nat] /\ rejoining \in [Peer -> Nat]
  /\ record \in [Peer -> {"none", "pending", "complete"}]
  /\ rumours \in [Peer -> 0 .. MaxRounds]
  /\ history \in [Peer -> SUBSET Peer]
  /\ due \in [Peer -> Nat]
  /\ spreads \subseteq [about : Peer, round : 1 .. MaxRounds, todo : SUBSET Peer]
  /\ gossips \subseteq Gossips /\ noting \subseteq Gossips
  /\ failures \in [Peer -> Nat] /\ calls \in [Peer -> Nat]
  /\ recovered \in [Peer -> Nat]

(* fault_test.go:161: "callback fires exactly once per failure", however   *)
(* the monitor, late heartbeats and gossip about the peer interleave: each *)
(* failure has been reported or is about to be, and by one of them only.   *)
OncePerFailure ==
  \A n \in Peer :
    failures[n] = calls[n] + confirmed[n] + (IF n \in justFailed THEN 1 ELSE 0)

(* The first time a peer fails, the gossip about it goes to Fanout peers,  *)
(* or to all there are (SpreadFailure, ReceiveGossip): by the time nothing *)
(* is under way that many have been sent it or have sent it here.  Whether *)
(* a send arrived nobody asks (sendGossip), and since the marks are never  *)
(* taken away nothing like it holds of later failures.                     *)
FirstFailureIsGossiped ==
  \A n \in Peer :
    Settled(n) /\ failures[n] = 1
      => Cardinality(history[n]) >= Fanout \/ Peer \ {n} \subseteq history[n]

(* A peer that has fallen silent for good ends up failed, with a record of *)
(* its failure, whoever found out first.                                   *)
SilentIsFailed ==
  \A n \in Peer :
    <>[](overdue[n]) => <>[](status[n] = "failed" /\ record[n] # "none")

-----------------------------------------------------------------------------
(* A claim of the sources' comments, which the code meets only at times *)

(* recovery.go:47: a failure makes a fresh record, "so next rejoin fires   *)
(* correctly".  Once nothing is under way, a failed peer's record is       *)
(* pending, another's is not, and every rejoin has made the recovery run.  *)
RecoveryKeepsUp ==
  \A n \in Peer :
    Settled(n) =>
      /\ status[n] = "failed" <=> record[n] = "pending"
      /\ recovered[n] = IF status[n] = "failed" THEN failures[n] - 1 ELSE failures[n]

-----------------------------------------------------------------------------
(* The monitor goroutine and the goroutines it and the handlers spawn run; *)
(* silence, heartbeats and gossip come as they please.                     *)
Fairness ==
  /\ WF_vars(CheckAll)
  /\ \A n \in Peer : WF_vars(Callbacks(n))

FairSpec == Spec /\ Fairness
=============================================================================
