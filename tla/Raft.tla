-------------------------------- MODULE Raft --------------------------------
(***************************************************************************)
(* The consensus module of the file store: internal/consensus/raft.go,     *)
(* election.go and log_agreement.go.  Every node runs one Raft value.  Its *)
(* handlers, timer callbacks and heartbeat goroutines interleave at the    *)
(* points where they hold the mutex r.mu; the network (transport.Send, one *)
(* goroutine per message) loses, delays and reorders messages.             *)
(*                                                                         *)
(* Log indices are those of the Go slices, 0-based, with -1 for "none";    *)
(* TermAt translates them.                                                 *)
(***************************************************************************)
EXTENDS FiniteSetsExt, Sequences

CONSTANTS
  Node,        \* node IDs; a node's peer URL is identified with its ID
  Op,          \* operations a client may propose
  None,        \* VotedFor = ""
  Contests,    \* bound: <<node, term>>, the candidacies that may be started
  BeatTerms,   \* bound: the terms whose leaders get to send heartbeats
  MaxLog,      \* bound: a leader accepts no proposal once its log is this long
  MaxTimeouts, \* bound: startElection goroutines of a node alive at once
  MayRestart,  \* whether processes die and come back
  MaxOutages,  \* bound: how many Stops and process restarts happen in all
  MaxPending,  \* bound: no round is due with more heartbeats unanswered
  Interleaved, \* whether a node's goroutines interleave with its handlers
  Attentive    \* bound: whether a round is due only once what was sent is handled

ASSUME NodesFinite == IsFiniteSet(Node)
ASSUME NoneIsNoNode == None \notin Node
ASSUME BoundsAreNatural == {MaxLog, MaxPending, MaxTimeouts, MaxOutages} \subseteq Nat
ASSUME SwitchesAreBoolean == {MayRestart, Interleaved, Attentive} \subseteq BOOLEAN

VARIABLES
  CurrentTerm, VotedFor, State, VotesReceived,
  Log, CommitIndex,
  nextIndex, matchIndex,
  electionTimer,   \* is an election timer armed?
  firing,          \* startElection goroutines that wait for the mutex
  rearming,        \* startElection goroutines that have yet to reset the timer
  heartbeatTimer,  \* is a heartbeat timer armed?
  beating,         \* startHeartbeats goroutines that wait for the mutex
  rounds,          \* sendHeartbeats calls that are between two peers
  voteReqs, voteReplies, appendReqs, appendReplies,  \* messages in flight
  stopped, outages,
  ballots          \* history: <<voter, term, candidate>> of every vote cast

termVars   == <<CurrentTerm, VotedFor, State, VotesReceived, ballots>>
logVars    == <<Log, CommitIndex>>
leaderVars == <<nextIndex, matchIndex>>
timerVars  == <<electionTimer, firing, rearming>>
beatVars   == <<heartbeatTimer, beating, rounds>>
voteMsgs   == <<voteReqs, voteReplies>>
appendMsgs == <<appendReqs, appendReplies>>
envVars    == <<stopped, outages>>
vars == <<termVars, logVars, leaderVars, timerVars, beatVars, voteMsgs,
          appendMsgs, envVars>>

-----------------------------------------------------------------------------
(* Types *)

Term      == Nat
Index     == Nat \cup {-1}
LogEntry  == [Term : Term, Op : Op]
Round     == [term : Term, commit : Index, logs : Seq(LogEntry),
              shared : BOOLEAN, todo : SUBSET Node]
VoteReq   == [from : Node, to : Node, term : Term]
VoteReply == [from : Node, to : Node, term : Term, granted : BOOLEAN]
AppendReq == [from : Node, to : Node, term : Term, prevIndex : Index,
              prevTerm : Index, entries : Seq(LogEntry), commit : Index]
AppendReply == [from : Node, to : Node, term : Term, success : BOOLEAN,
                match : Index]

Peers(i)   == Node \ {i}
(* The test "> totalNodes/2" of HandleVoteReply and HandleAppendReply *)
Majority(n) == n > Cardinality(Node) \div 2
LastIndex(log) == Len(log) - 1
TermAt(log, n) == log[n + 1].Term

Init ==
  /\ CurrentTerm    = [i \in Node |-> 0]
  /\ VotedFor       = [i \in Node |-> None]
  /\ State          = [i \in Node |-> "Follower"]
  /\ VotesReceived  = [i \in Node |-> 0]
  /\ Log            = [i \in Node |-> << >>]
  /\ CommitIndex    = [i \in Node |-> -1]
  /\ nextIndex      = [i \in Node |-> [p \in Node |-> 0]]
  /\ matchIndex     = [i \in Node |-> [p \in Node |-> -1]]
  /\ electionTimer  = [i \in Node |-> TRUE]
  /\ firing         = [i \in Node |-> 0]
  /\ rearming       = [i \in Node |-> 0]
  /\ heartbeatTimer = [i \in Node |-> FALSE]
  /\ beating        = [i \in Node |-> 0]
  /\ rounds         = [i \in Node |-> {}]
  /\ voteReqs = {} /\ voteReplies = {} /\ appendReqs = {} /\ appendReplies = {}
  /\ stopped  = [i \in Node |-> FALSE]
  /\ outages = 0
  /\ ballots  = {}

-----------------------------------------------------------------------------
(* Elections: election.go *)

Set(f, i, v) == [f EXCEPT ![i] = v]
(* Mutant: resetElectionTimer stops the old timer and starts no new one *)
OnlyStopElectionTimer(i) == electionTimer' = Set(electionTimer, i, FALSE)
ArmElectionTimer(i) == electionTimer' = Set(electionTimer, i, TRUE)

(* A higher term in any message: follow it, with no vote cast in it yet. *)
StepDown(i, term) ==
  /\ CurrentTerm' = Set(CurrentTerm, i, term)
  /\ State'       = Set(State, i, "Follower")
  /\ VotedFor'    = Set(VotedFor, i, None)

MayStand(i) == <<i, CurrentTerm[i] + 1>> \in Contests

(* The armed timer expires: its goroutine now waits for the mutex, and a   *)
(* later electionTimer.Stop() no longer reaches it.                        *)
FireElectionTimer(i) ==
  /\ electionTimer[i]
  /\ MayStand(i) /\ firing[i] + rearming[i] < MaxTimeouts
  /\ electionTimer' = Set(electionTimer, i, FALSE)
  /\ firing' = Set(firing, i, firing[i] + 1)
  /\ UNCHANGED <<termVars, logVars, leaderVars, rearming, beatVars, voteMsgs,
                 appendMsgs, envVars>>

(* The first locked region of startElection, and the requests it sends. *)
StartElection(i) ==
  /\ firing[i] > 0 /\ State[i] # "Leader" /\ MayStand(i)
  /\ LET term == CurrentTerm[i] + 1 IN
       /\ CurrentTerm' = Set(CurrentTerm, i, term)
       /\ ballots'  = ballots \cup {<<i, term, i>>}
       /\ voteReqs' = voteReqs \cup
                        {[from |-> i, to |-> p, term |-> term] : p \in Peers(i)}
  /\ State'         = Set(State, i, "Candidate")
  /\ VotedFor'      = Set(VotedFor, i, i)
  /\ VotesReceived' = Set(VotesReceived, i, 1)
  /\ firing'        = Set(firing, i, firing[i] - 1)
  /\ rearming'      = Set(rearming, i, rearming[i] + 1)
  /\ UNCHANGED <<logVars, leaderVars, electionTimer, beatVars, voteReplies,
                 appendMsgs, envVars>>

(* The timer fired, but the node had won meanwhile: startElection returns. *)
SkipElection(i) ==
  /\ firing[i] > 0 /\ State[i] = "Leader"
  /\ firing' = Set(firing, i, firing[i] - 1)
  /\ UNCHANGED <<termVars, logVars, leaderVars, electionTimer, rearming,
                 beatVars, voteMsgs, appendMsgs, envVars>>

(* The second locked region of startElection: the timer is re-armed,       *)
(* whatever the node has become in between.                                *)
RearmElectionTimer(i) ==
  /\ rearming[i] > 0
  /\ ArmElectionTimer(i)
  /\ rearming' = Set(rearming, i, rearming[i] - 1)
  /\ UNCHANGED <<termVars, logVars, leaderVars, firing, beatVars, voteMsgs,
                 appendMsgs, envVars>>

(* Mutant: VotedFor is not consulted *)
GrantsAnyone(m) == m.term >= CurrentTerm[m.to]

(* A newer term always finds VotedFor reset, so it is always granted. *)
Grants(m) ==
  \/ m.term > CurrentTerm[m.to]
  \/ m.term = CurrentTerm[m.to] /\ VotedFor[m.to] \in {None, m.from}

(* HandleVoteRequest, granting.  The candidate's log is not compared. *)
GrantVote(m) ==
  LET i == m.to IN
  /\ Grants(m)
  /\ CurrentTerm' = Set(CurrentTerm, i, m.term)
  /\ State' = IF m.term > CurrentTerm[i] THEN Set(State, i, "Follower") ELSE State
  /\ VotedFor' = Set(VotedFor, i, m.from)
  /\ ballots'  = ballots \cup {<<i, m.term, m.from>>}
  /\ ArmElectionTimer(i)
  /\ voteReqs' = voteReqs \ {m}
  /\ voteReplies' = voteReplies \cup
       {[from |-> i, to |-> m.from, term |-> m.term, granted |-> TRUE]}
  /\ UNCHANGED <<VotesReceived, logVars, leaderVars, firing, rearming, beatVars,
                 appendMsgs, envVars>>

(* HandleVoteRequest, denying *)
DenyVote(m) ==
  /\ ~Grants(m)
  /\ voteReqs' = voteReqs \ {m}
  /\ voteReplies' = voteReplies \cup
       {[from |-> m.to, to |-> m.from, term |-> CurrentTerm[m.to],
         granted |-> FALSE]}
  /\ UNCHANGED <<termVars, logVars, leaderVars, timerVars, beatVars, appendMsgs,
                 envVars>>

(* HandleVoteReply: the reply carries a newer term. *)
VoteReplyNewerTerm(m) ==
  /\ m.term > CurrentTerm[m.to]
  /\ StepDown(m.to, m.term)
  /\ ArmElectionTimer(m.to)
  /\ voteReplies' = voteReplies \ {m}
  /\ UNCHANGED <<VotesReceived, ballots, logVars, leaderVars, firing, rearming,
                 beatVars, voteReqs, appendMsgs, envVars>>

(* Mutant: a vote for an earlier candidacy counts *)
CountsAnyTerm(m) == State[m.to] = "Candidate" /\ m.granted

Counts(m) == /\ State[m.to] = "Candidate"
             /\ m.term = CurrentTerm[m.to]
             /\ m.granted

(* HandleVoteReply: a vote that does not yet make a majority *)
CountVote(m) ==
  /\ Counts(m) /\ ~Majority(VotesReceived[m.to] + 1)
  /\ VotesReceived' = Set(VotesReceived, m.to, VotesReceived[m.to] + 1)
  /\ voteReplies' = voteReplies \ {m}
  /\ UNCHANGED <<CurrentTerm, VotedFor, State, ballots, logVars, leaderVars,
                 timerVars, beatVars, voteReqs, appendMsgs, envVars>>

(* HandleVoteReply: the vote that makes the majority *)
WinElection(m) ==
  LET i == m.to IN
  /\ Counts(m) /\ Majority(VotesReceived[i] + 1)
  /\ VotesReceived' = Set(VotesReceived, i, VotesReceived[i] + 1)
  /\ State' = Set(State, i, "Leader")
  /\ nextIndex'  = Set(nextIndex, i, [p \in Node |-> Len(Log[i])])
  /\ matchIndex' = Set(matchIndex, i, [p \in Node |-> -1])
  /\ electionTimer' = Set(electionTimer, i, FALSE)
  /\ beating' = Set(beating, i, beating[i] + 1)
  /\ voteReplies' = voteReplies \ {m}
  /\ UNCHANGED <<CurrentTerm, VotedFor, ballots, logVars, firing, rearming,
                 heartbeatTimer, rounds, voteReqs, appendMsgs, envVars>>

(* HandleVoteReply: late, refused or superseded *)
IgnoreVoteReply(m) ==
  /\ m.term <= CurrentTerm[m.to] /\ ~Counts(m)
  /\ voteReplies' = voteReplies \ {m}
  /\ UNCHANGED <<termVars, logVars, leaderVars, timerVars, beatVars, voteReqs,
                 appendMsgs, envVars>>

-----------------------------------------------------------------------------
(* Log agreement: log_agreement.go *)

(* Mutant: the entries are appended, and what they replace is not cut *)
AppendWithoutCut(i, k, new, moved) ==
  /\ Log' = Set(Log, i, Log[i] \o new)
  /\ UNCHANGED rounds

(* r.Log := r.Log[:k] followed by append(.., new).  A round holds the slice *)
(* it took in sendHeartbeats, not a copy: unless append had to move the log *)
(* to a larger array (its capacity is Go's to choose, but an array is never *)
(* too small for the slices already in it), the round sees the new elements *)
(* at the positions it covers.                                              *)
LogWrite(i, k, new, moved) ==
  LET log     == SubSeq(Log[i], 1, k) \o new
      sharing == {rd \in rounds[i] : rd.shared}
      seen(rd) == [n \in DOMAIN rd.logs |->
                     IF n \in k+1 .. Len(log) THEN log[n] ELSE rd.logs[n]]
  IN
  /\ Log' = Set(Log, i, log)
  /\ IF moved
       THEN rounds' = Set(rounds, i, {[rd EXCEPT !.shared = FALSE] : rd \in rounds[i]})
       ELSE rounds' = Set(rounds, i, (rounds[i] \ sharing) \cup
                                     {[rd EXCEPT !.logs = seen(rd)] : rd \in sharing})

(* May append, on reaching length n, have moved the log? *)
MayMove(i, n) == /\ n > Len(Log[i])
                 /\ \A rd \in rounds[i] : rd.shared => n > Len(rd.logs)

ProposeState(i, op) ==
  /\ State[i] = "Leader" /\ Len(Log[i]) < MaxLog
  /\ \E moved \in BOOLEAN :
       /\ moved => MayMove(i, Len(Log[i]) + 1)
       /\ LogWrite(i, Len(Log[i]), <<[Term |-> CurrentTerm[i], Op |-> op]>>, moved)
  /\ UNCHANGED <<termVars, CommitIndex, leaderVars, timerVars, heartbeatTimer,
                 beating, voteMsgs, appendMsgs, envVars>>

Unanswered(i) == {m \in appendReqs : m.from = i} \cup
                 {m \in appendReplies : m.to = i}

FireHeartbeatTimer(i) ==
  /\ heartbeatTimer[i] /\ Cardinality(Unanswered(i)) <= MaxPending
  /\ Attentive => {m \in appendReqs \cup appendReplies : m.to = i} = {}
  /\ heartbeatTimer' = Set(heartbeatTimer, i, FALSE)
  /\ beating' = Set(beating, i, beating[i] + 1)
  /\ UNCHANGED <<termVars, logVars, leaderVars, timerVars, rounds, voteMsgs,
                 appendMsgs, envVars>>

(* The first locked region of sendHeartbeats: what every message of the    *)
(* round will say.                                                         *)
BeginRound(i) ==
  /\ beating[i] > 0 /\ State[i] = "Leader"
  /\ CurrentTerm[i] \in BeatTerms
  /\ beating' = Set(beating, i, beating[i] - 1)
  /\ rounds' = Set(rounds, i, rounds[i] \cup
       {[term |-> CurrentTerm[i], commit |-> CommitIndex[i], logs |-> Log[i],
         shared |-> TRUE, todo |-> Peers(i)]})
  /\ UNCHANGED <<termVars, logVars, leaderVars, timerVars, heartbeatTimer,
                 voteMsgs, appendMsgs, envVars>>

(* sendHeartbeats returns at once, and startHeartbeats re-arms its timer:  *)
(* a node that once led keeps the loop running.                            *)
IdleRound(i) ==
  /\ beating[i] > 0 /\ State[i] # "Leader"
  /\ beating' = Set(beating, i, beating[i] - 1)
  /\ heartbeatTimer' = Set(heartbeatTimer, i, TRUE)
  /\ UNCHANGED <<termVars, logVars, leaderVars, timerVars, rounds, voteMsgs,
                 appendMsgs, envVars>>

(* One peer of the loop: nextIndex is read now, the rest from the round.   *)
HeartbeatFor(i, rd, p) ==
  LET nextIdx == nextIndex[i][p] IN
  [from |-> i, to |-> p, term |-> rd.term, commit |-> rd.commit,
   prevIndex |-> nextIdx - 1,
   prevTerm  |-> IF nextIdx - 1 \in 0 .. LastIndex(rd.logs)
                   THEN TermAt(rd.logs, nextIdx - 1) ELSE -1,
   entries   |-> SubSeq(rd.logs, nextIdx + 1, Len(rd.logs))]

(* Mutant: startHeartbeats does not re-arm its timer *)
SendHeartbeatOnce(i, rd, p) ==
  LET todo == rd.todo \ {p} IN
  /\ appendReqs' = appendReqs \cup {HeartbeatFor(i, rd, p)}
  /\ rounds' = Set(rounds, i, (rounds[i] \ {rd}) \cup
                 IF todo = {} THEN {} ELSE {[rd EXCEPT !.todo = todo]})
  /\ UNCHANGED <<termVars, logVars, leaderVars, timerVars, beating, voteMsgs,
                 heartbeatTimer, appendReplies, envVars>>

(* The last peer of a round also ends it: startHeartbeats re-arms the      *)
(* timer, even if the node was deposed or stopped during the round.        *)
SendHeartbeat(i, rd, p) ==
  LET todo == rd.todo \ {p} IN
  /\ appendReqs' = appendReqs \cup {HeartbeatFor(i, rd, p)}
  /\ rounds' = Set(rounds, i, (rounds[i] \ {rd}) \cup
                 IF todo = {} THEN {} ELSE {[rd EXCEPT !.todo = todo]})
  /\ heartbeatTimer' = Set(heartbeatTimer, i, heartbeatTimer[i] \/ todo = {})
  /\ UNCHANGED <<termVars, logVars, leaderVars, timerVars, beating, voteMsgs,
                 appendReplies, envVars>>

(* Mutant: the length of the log is answered, not its last index *)
ReplyWithLength(m, term, success, match) ==
  appendReplies' = appendReplies \cup
    {[from |-> m.to, to |-> m.from, term |-> term, success |-> success,
      match |-> match + 1]}

AppendReplyTo(m, term, success, match) ==
  appendReplies' = appendReplies \cup
    {[from |-> m.to, to |-> m.from, term |-> term, success |-> success,
      match |-> match]}

(* Mutant: the refusal repeats the old leader's term *)
RejectWithoutNews(m) ==
  /\ m.term < CurrentTerm[m.to]
  /\ AppendReplyTo(m, m.term, FALSE, -1)
  /\ appendReqs' = appendReqs \ {m}
  /\ UNCHANGED <<termVars, logVars, leaderVars, timerVars, beatVars, voteMsgs,
                 envVars>>

(* HandleLeaderHeartbeat: an older term *)
RejectStaleLeader(m) ==
  /\ m.term < CurrentTerm[m.to]
  /\ AppendReplyTo(m, CurrentTerm[m.to], FALSE, -1)
  /\ appendReqs' = appendReqs \ {m}
  /\ UNCHANGED <<termVars, logVars, leaderVars, timerVars, beatVars, voteMsgs,
                 envVars>>

(* Mutant: the vote is forgotten even if the term is not new *)
FollowAndForget(m) ==
  LET i == m.to IN
  /\ m.term >= CurrentTerm[i]
  /\ CurrentTerm' = Set(CurrentTerm, i, m.term)
  /\ VotedFor' = Set(VotedFor, i, None)
  /\ State' = Set(State, i, "Follower")
  /\ ArmElectionTimer(i)
  /\ appendReqs' = appendReqs \ {m}
  /\ UNCHANGED <<VotesReceived, ballots, leaderVars, firing, rearming,
                 heartbeatTimer, beating, voteMsgs, envVars>>

(* Mutant: the newer term is not adopted *)
FollowInOldTerm(m) ==
  LET i == m.to IN
  /\ m.term >= CurrentTerm[i]
  /\ UNCHANGED <<CurrentTerm, VotedFor>>
  /\ State' = Set(State, i, "Follower")
  /\ ArmElectionTimer(i)
  /\ appendReqs' = appendReqs \ {m}
  /\ UNCHANGED <<VotesReceived, ballots, leaderVars, firing, rearming,
                 heartbeatTimer, beating, voteMsgs, envVars>>

(* Mutant: the stale leader is refused and yet followed *)
FollowAnyLeader(m) ==
  LET i == m.to IN
  /\ CurrentTerm' = Set(CurrentTerm, i, Max({m.term, CurrentTerm[i]}))
  /\ VotedFor' = IF m.term > CurrentTerm[i] THEN Set(VotedFor, i, None) ELSE VotedFor
  /\ State' = Set(State, i, "Follower")
  /\ ArmElectionTimer(i)
  /\ appendReqs' = appendReqs \ {m}
  /\ UNCHANGED <<VotesReceived, ballots, leaderVars, firing, rearming,
                 heartbeatTimer, beating, voteMsgs, envVars>>

(* What HandleLeaderHeartbeat does for every term that is not older *)
FollowLeader(m) ==
  LET i == m.to IN
  /\ m.term >= CurrentTerm[i]
  /\ CurrentTerm' = Set(CurrentTerm, i, m.term)
  /\ VotedFor' = IF m.term > CurrentTerm[i] THEN Set(VotedFor, i, None) ELSE VotedFor
  /\ State' = Set(State, i, "Follower")
  /\ ArmElectionTimer(i)
  /\ appendReqs' = appendReqs \ {m}
  /\ UNCHANGED <<VotesReceived, ballots, leaderVars, firing, rearming,
                 heartbeatTimer, beating, voteMsgs, envVars>>

HasPrevious(m) ==
  m.prevIndex >= 0 => /\ m.prevIndex <= LastIndex(Log[m.to])
                      /\ TermAt(Log[m.to], m.prevIndex) = m.prevTerm

(* HandleLeaderHeartbeat: the log lacks the entry before the new ones. *)
RejectMismatch(m) ==
  /\ FollowLeader(m) /\ ~HasPrevious(m)
  /\ AppendReplyTo(m, m.term, FALSE, -1)
  /\ UNCHANGED <<logVars, rounds>>

(* HandleLeaderHeartbeat: the log is always cut after prevIndex, whether   *)
(* or not it agrees with the entries of the message.                       *)
AcceptEntries(m) ==
  LET i    == m.to
      kept == m.prevIndex + 1
      last == m.prevIndex + Len(m.entries)
  IN
  /\ FollowLeader(m) /\ HasPrevious(m)
  /\ \E moved \in BOOLEAN :
       /\ IF kept = 0 THEN moved ELSE moved => MayMove(i, last + 1)
       /\ LogWrite(i, kept, m.entries, moved)
  /\ CommitIndex' = IF m.commit > CommitIndex[i]
                      THEN Set(CommitIndex, i, IF m.commit < last THEN m.commit
                                                               ELSE last)
                      ELSE CommitIndex
  /\ AppendReplyTo(m, m.term, TRUE, last)

(* HandleAppendReply: only a leader listens. *)
IgnoreAppendReply(m) ==
  /\ State[m.to] # "Leader"
  /\ appendReplies' = appendReplies \ {m}
  /\ UNCHANGED <<termVars, logVars, leaderVars, timerVars, beatVars, voteMsgs,
                 appendReqs, envVars>>

(* Mutant: the deposed leader's election timer stays off *)
AppendReplyNoTimer(m) ==
  /\ State[m.to] = "Leader" /\ m.term > CurrentTerm[m.to]
  /\ StepDown(m.to, m.term)
  /\ appendReplies' = appendReplies \ {m}
  /\ UNCHANGED <<VotesReceived, ballots, logVars, leaderVars, timerVars,
                 beatVars, voteMsgs, appendReqs, envVars>>

(* HandleAppendReply: the reply carries a newer term. *)
AppendReplyNewerTerm(m) ==
  /\ State[m.to] = "Leader" /\ m.term > CurrentTerm[m.to]
  /\ StepDown(m.to, m.term)
  /\ ArmElectionTimer(m.to)
  /\ appendReplies' = appendReplies \ {m}
  /\ UNCHANGED <<VotesReceived, ballots, logVars, leaderVars, firing, rearming,
                 beatVars, voteMsgs, appendReqs, envVars>>

(* Mutant: nextIndex is compared with n, not matchIndex *)
CommittableNext(i, match) ==
  {n \in CommitIndex[i] + 1 .. LastIndex(Log[i]) :
     /\ TermAt(Log[i], n) = CurrentTerm[i]
     /\ Majority(1 + Cardinality({p \in Node : match[p] + 1 >= n}))}

(* The entries of its own term that the leader, with these match indices,  *)
(* may newly commit                                                        *)
Committable(i, match) ==
  {n \in CommitIndex[i] + 1 .. LastIndex(Log[i]) :
     /\ TermAt(Log[i], n) = CurrentTerm[i]
     /\ Majority(1 + Cardinality({p \in Node : match[p] >= n}))}

(* HandleAppendReply, success.  The reply's term is not compared with the  *)
(* leader's, and the indices may go down as well as up.                    *)
RecordMatch(m) ==
  LET i     == m.to
      match == [matchIndex[i] EXCEPT ![m.from] = m.match]
      new   == Committable(i, match)
  IN
  /\ State[i] = "Leader" /\ m.term <= CurrentTerm[i] /\ m.success
  /\ matchIndex' = Set(matchIndex, i, match)
  /\ nextIndex' = [nextIndex EXCEPT ![i][m.from] = m.match + 1]
  /\ \/ new = {} /\ UNCHANGED CommitIndex
     \/ \E n \in new : /\ \A k \in new : k <= n
                       /\ CommitIndex' = Set(CommitIndex, i, n)
  /\ appendReplies' = appendReplies \ {m}
  /\ UNCHANGED <<termVars, Log, timerVars, beatVars, voteMsgs, appendReqs, envVars>>

(* Mutants: no floor, and a floor one too high *)
DecrementFreely(n) == n - 1
DecrementToOne(n) == IF n <= 1 THEN n ELSE n - 1

(* nextIndex--, not below 0 *)
Decrement(n) == IF n = 0 THEN 0 ELSE n - 1

(* HandleAppendReply, failure *)
BackOff(m) ==
  /\ State[m.to] = "Leader" /\ m.term <= CurrentTerm[m.to] /\ ~m.success
  /\ nextIndex' = [nextIndex EXCEPT ![m.to][m.from] = Decrement(@)]
  /\ appendReplies' = appendReplies \ {m}
  /\ UNCHANGED <<termVars, logVars, matchIndex, timerVars, beatVars, voteMsgs,
                 appendReqs, envVars>>

-----------------------------------------------------------------------------
(* Lifecycle: raft.go *)

(* Stop.  The channel it closes is read nowhere; goroutines already past   *)
(* their timer, and the handlers, know nothing of it.                      *)
Stop(i) ==
  /\ ~stopped[i] /\ outages < MaxOutages
  /\ outages' = outages + 1
  /\ stopped' = Set(stopped, i, TRUE)
  /\ electionTimer'  = Set(electionTimer, i, FALSE)
  /\ heartbeatTimer' = Set(heartbeatTimer, i, FALSE)
  /\ UNCHANGED <<termVars, logVars, leaderVars, firing, rearming, beating,
                 rounds, voteMsgs, appendMsgs>>

(* The process dies and comes back with NewRaft and Start: nothing of the  *)
(* term, the vote or the log was on disk.                                  *)
Restart(i) ==
  /\ MayRestart /\ outages < MaxOutages
  /\ outages' = outages + 1
  /\ CurrentTerm'    = Set(CurrentTerm, i, 0)
  /\ VotedFor'       = Set(VotedFor, i, None)
  /\ State'          = Set(State, i, "Follower")
  /\ VotesReceived'  = Set(VotesReceived, i, 0)
  /\ Log'            = Set(Log, i, << >>)
  /\ CommitIndex'    = Set(CommitIndex, i, -1)
  /\ nextIndex'      = Set(nextIndex, i, [p \in Node |-> 0])
  /\ matchIndex'     = Set(matchIndex, i, [p \in Node |-> -1])
  /\ electionTimer'  = Set(electionTimer, i, TRUE)
  /\ firing'         = Set(firing, i, 0)
  /\ rearming'       = Set(rearming, i, 0)
  /\ heartbeatTimer' = Set(heartbeatTimer, i, FALSE)
  /\ beating'        = Set(beating, i, 0)
  /\ rounds'         = Set(rounds, i, {})
  /\ stopped'        = Set(stopped, i, FALSE)
  /\ UNCHANGED <<ballots, voteMsgs, appendMsgs>>

-----------------------------------------------------------------------------
(* With Interleaved = FALSE a node's own goroutines, once started, finish  *)
(* before it does anything else; with TRUE they do so whenever they get    *)
(* the mutex.  A beat that is not a leader's sends nothing to wait for.    *)
Beats(i) == beating[i] > 0 /\ State[i] = "Leader" /\ CurrentTerm[i] \in BeatTerms

Quiet(i) == Interleaved \/ /\ firing[i] = 0 /\ rearming[i] = 0
                           /\ rounds[i] = {} /\ ~Beats(i)

Timers(i) == FireElectionTimer(i) \/ FireHeartbeatTimer(i)
Elections(i) == StartElection(i) \/ SkipElection(i) \/ RearmElectionTimer(i)
HandleVoteRequest(m) == GrantVote(m) \/ DenyVote(m)
HandleVoteReply(m) == \/ VoteReplyNewerTerm(m) \/ CountVote(m)
                      \/ WinElection(m) \/ IgnoreVoteReply(m)
Heartbeats(i) == BeginRound(i) \/ IdleRound(i)
HandleLeaderHeartbeat(m) ==
  RejectStaleLeader(m) \/ RejectMismatch(m) \/ AcceptEntries(m)
HandleAppendReply(m) == \/ IgnoreAppendReply(m) \/ AppendReplyNewerTerm(m)
                        \/ RecordMatch(m) \/ BackOff(m)

Next ==
  \/ \E i \in Node : Quiet(i) /\ Timers(i)
  \/ \E i \in Node : Elections(i) \/ Heartbeats(i)
  \/ \E i \in Node : Quiet(i) /\ \E op \in Op : ProposeState(i, op)
  \/ \E i \in Node : \E rd \in rounds[i] : \E p \in rd.todo : SendHeartbeat(i, rd, p)
  \/ \E m \in voteReqs : Quiet(m.to) /\ HandleVoteRequest(m)
  \/ \E m \in voteReplies : Quiet(m.to) /\ HandleVoteReply(m)
  \/ \E m \in appendReqs : Quiet(m.to) /\ HandleLeaderHeartbeat(m)
  \/ \E m \in appendReplies : Quiet(m.to) /\ HandleAppendReply(m)
  \/ \E i \in Node : Quiet(i) /\ Stop(i)
  \/ \E i \in Node : Restart(i)

Spec == Init /\ [][Next]_vars

-----------------------------------------------------------------------------
(* Invariants *)

TermsTyped == /\ CurrentTerm \in [Node -> Term]
              /\ VotedFor \in [Node -> Node \cup {None}]
              /\ State \in [Node -> {"Follower", "Candidate", "Leader"}]
              /\ VotesReceived \in [Node -> Nat]
              /\ ballots \subseteq Node \X Term \X Node
LogsTyped  == /\ Log \in [Node -> Seq(LogEntry)]
              /\ CommitIndex \in [Node -> Index]
              /\ nextIndex \in [Node -> [Node -> Nat]]
              /\ matchIndex \in [Node -> [Node -> Index]]
FlagsTyped == /\ electionTimer \in [Node -> BOOLEAN]
              /\ heartbeatTimer \in [Node -> BOOLEAN]
              /\ stopped \in [Node -> BOOLEAN]
GoroutinesTyped == /\ firing \in [Node -> Nat] /\ rearming \in [Node -> Nat]
                   /\ beating \in [Node -> Nat] /\ outages \in Nat
                   /\ rounds \in [Node -> SUBSET Round]
VotesTyped   == voteReqs \subseteq VoteReq /\ voteReplies \subseteq VoteReply
AppendsTyped == appendReqs \subseteq AppendReq /\ appendReplies \subseteq AppendReply

(* Every variable keeps its shape; in particular nextIndex never drops     *)
(* below 0, whatever refusals arrive, so a round never slices out of range.*)
TypeOK == /\ TermsTyped /\ LogsTyped /\ FlagsTyped
          /\ GoroutinesTyped /\ VotesTyped /\ AppendsTyped

(* Two nodes never lead in the same term (HandleVoteRequest grants one     *)
(* vote a term, HandleVoteReply wants more than half).                     *)
ElectionSafety ==
  \A i, j \in Node :
    State[i] = "Leader" /\ State[j] = "Leader" /\ CurrentTerm[i] = CurrentTerm[j]
      => i = j

Voters(t, c) == {v \in Node : <<v, t, c>> \in ballots}

(* A leader holds the votes of a majority for the very term it leads in:   *)
(* VotesReceived counts no reply of another term or another candidacy.     *)
LeaderHasMajority ==
  \A i \in Node :
    State[i] = "Leader" => Majority(Cardinality(Voters(CurrentTerm[i], i)))

(* A node that does not lead always has an election timer, armed or in the *)
(* middle of firing, so it can never wait for a dead leader for ever: each *)
(* step-down path and each end of startElection restores the timer that    *)
(* HandleVoteReply stopped on winning.                                     *)
NeverStranded ==
  \A i \in Node :
    State[i] # "Leader" /\ ~stopped[i]
      => electionTimer[i] \/ firing[i] > 0 \/ rearming[i] > 0

(* A leader always has its heartbeat loop: a timer, a goroutine about to   *)
(* start a round, or a round under way.                                    *)
LeaderKeepsBeating ==
  \A i \in Node :
    State[i] = "Leader" /\ ~stopped[i]
      => heartbeatTimer[i] \/ beating[i] > 0 \/ rounds[i] # {}

(* Two logs that agree on the term of an entry agree on everything up to   *)
(* it: the check of prevLogIndex and prevLogTerm in HandleLeaderHeartbeat. *)
LogMatching ==
  \A i, j \in Node :
    \A n \in 1 .. Min({Len(Log[i]), Len(Log[j])}) :
      Log[i][n].Term = Log[j][n].Term
        => SubSeq(Log[i], 1, n) = SubSeq(Log[j], 1, n)

(* The terms along a log never decrease, nor do they exceed the term its   *)
(* node has reached.                                                       *)
TermsOrdered ==
  \A i \in Node :
    \A n \in 1 .. Len(Log[i]) :
      /\ Log[i][n].Term <= CurrentTerm[i]
      /\ n > 1 => Log[i][n-1].Term <= Log[i][n].Term

-----------------------------------------------------------------------------
(* Action properties *)

(* Only a newer term deposes a leader: HandleLeaderHeartbeat makes any     *)
(* receiver a follower, even a leader of the message's own term, so this   *)
(* depends on there being no second leader of that term.                   *)
StepsDownOnlyForNewerTerm ==
  [][\A i \in Node :
       State[i] = "Leader" /\ State'[i] # "Leader"
         => CurrentTerm'[i] > CurrentTerm[i]]_vars

(* In the term it leads a node only ever appends to its log.               *)
LeaderAppendOnly ==
  [][\A i \in Node :
       State[i] = "Leader" /\ CurrentTerm'[i] = CurrentTerm[i]
         => /\ Len(Log'[i]) >= Len(Log[i])
            /\ SubSeq(Log'[i], 1, Len(Log[i])) = Log[i]]_vars

(* Elections implement Leadership: a node's votes are final and leadership *)
(* rests on a majority of them.                                            *)
Promised == INSTANCE Leadership
              WITH Term  <- {c[2] : c \in Contests},
                   leads <- [i \in Node |-> IF State[i] = "Leader"
                                              THEN CurrentTerm[i] ELSE 0]
LeadershipImplemented == Promised!Spec

-----------------------------------------------------------------------------
(* Claims of the sources' comments, which the code meets only at times *)

(* log_agreement.go:56 of sendHeartbeats: "Keeps followers in sync with    *)
(* the leader's log."  The log of a leader of term t holds no newer entry, *)
(* so none of its messages does.                                           *)
HeartbeatsAreTheLeaders ==
  \A m \in appendReqs :
    \A n \in 1 .. Len(m.entries) : m.entries[n].Term <= m.term

(* A node that has committed an entry keeps it (raft.go:22 of LogEntry:    *)
(* "Ensures consistent replication across nodes.").                        *)
CommittedStays ==
  [][\A i \in Node :
       LET n == CommitIndex[i] + 1 IN
       Len(Log[i]) >= n =>
         Len(Log'[i]) >= n /\ SubSeq(Log'[i], 1, n) = SubSeq(Log[i], 1, n)]_vars

(* log_agreement.go:212: a leader advances its "commit index on majority"; *)
(* when it does, a majority holds what it newly commits.                   *)
CommitMeansMajority ==
  [][\A i \in Node :
       State[i] = "Leader" /\ CommitIndex'[i] > CommitIndex[i]
         => LET n == CommitIndex'[i] + 1 IN
            Majority(Cardinality({p \in Node :
              Len(Log[p]) >= n /\ SubSeq(Log[p], 1, n) = SubSeq(Log[i], 1, n)}))]_vars

(* The nodes that have the first n entries of i's log or a newer term *)
Holding(i, n) ==
  {p \in Node : \/ CurrentTerm[p] > CurrentTerm[i]
                \/ Len(Log[p]) >= n /\ SubSeq(Log[p], 1, n) = SubSeq(Log[i], 1, n)}

(* What is left of that where a newer leader may be at work, and cut what  *)
(* the older one had replicated: the rest of the majority is in its term.  *)
CommitsAreHeld ==
  [][\A i \in Node :
       State[i] = "Leader" /\ CommitIndex'[i] > CommitIndex[i]
         => Majority(Cardinality(Holding(i, CommitIndex'[i] + 1)))]_vars

(* Do i and j have the same first n entries? *)
Agree(i, j, n) == /\ n <= Len(Log[i]) /\ n <= Len(Log[j])
                  /\ SubSeq(Log[i], 1, n) = SubSeq(Log[j], 1, n)

(* Who answers a heartbeat with success has, at that moment, the leader's   *)
(* log up to the index it answers, unless the leader has gone on to another *)
(* term: however old the heartbeat, what nextIndex and prevLogTerm were     *)
(* when it was put together and what the log was cut to in the meantime,    *)
(* what HandleAppendReply is about to record was true.                      *)
AnswersAreTrue ==
  [][\A r \in appendReplies' \ appendReplies :
       r.success /\ State'[r.to] = "Leader" /\ CurrentTerm'[r.to] = r.term
         => Agree(r.from, r.to, r.match + 1)']_vars

-----------------------------------------------------------------------------
(* Fairness and liveness: a goroutine that can run does, an armed heartbeat *)
(* timer expires, and a heartbeat or its reply arrives; votes may all be    *)
(* lost.  An election timer is not made to expire: each heartbeat puts it   *)
(* off (resetElectionTimer), for ever if they keep coming.                  *)
Fairness ==
  /\ \A i \in Node : /\ WF_vars(Quiet(i) /\ FireHeartbeatTimer(i))
                     /\ WF_vars(Elections(i))
                     /\ WF_vars(Heartbeats(i))
                     /\ WF_vars(\E rd \in rounds[i] : \E p \in rd.todo :
                                  SendHeartbeat(i, rd, p))
  /\ \A i \in Node : \A j \in Node \ {i} :
       /\ WF_vars(\E m \in appendReqs : /\ m.from = i /\ m.to = j
                                        /\ Quiet(j) /\ HandleLeaderHeartbeat(m))
       /\ WF_vars(\E m \in appendReplies : /\ m.from = i /\ m.to = j
                                           /\ Quiet(j) /\ HandleAppendReply(m))

FairSpec == Spec /\ Fairness

(* While one node leads, every follower ends up with its log and its       *)
(* commit index reaches the last entry it wrote in its own term: however   *)
(* heartbeats and replies cross, backing off and catching up converge.     *)
FollowersCatchUp ==
  \A i \in Node :
    <>[](State[i] = "Leader" /\ ~stopped[i] /\ CurrentTerm[i] \in BeatTerms) =>
      <>[](/\ \A p \in Node : Log[p] = Log[i]
           /\ (Log[i] # << >> /\ TermAt(Log[i], LastIndex(Log[i])) = CurrentTerm[i])
                => CommitIndex[i] = LastIndex(Log[i]))

(* A leader that another node's term has overtaken does not lead for ever: *)
(* the refusal of its heartbeat carries the newer term.  Unless that term  *)
(* is forgotten first: a restarted node has none, and follows the leader.  *)
StaleLeaderStepsDown ==
  \A i, j \in Node :
    State[i] = "Leader" /\ CurrentTerm[j] > CurrentTerm[i]
      ~> \/ State[i] # "Leader" \/ stopped[i]
         \/ CurrentTerm[j] <= CurrentTerm[i]

=============================================================================
