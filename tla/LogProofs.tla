------------------------------ MODULE LogProofs ------------------------------
(* Proofs about Raft's logs.  If no node restarts and no handler of a node  *)
(* runs in the middle of a round of its heartbeats, logs match, terms along *)
(* a log are in order, heartbeats bring what the leader's log holds, and    *)
(* who accepts one then has the leader's log up to the index it answers,    *)
(* whatever order messages come in and however many are under way.          *)
EXTENDS RaftProofs, WellFoundedInduction

USE DEF Set, Term, termVars, logVars, leaderVars, timerVars, beatVars,
        voteMsgs, appendMsgs, envVars

(* The n-th link of a log, or of the entries of a heartbeat: where an entry *)
(* is, the term of the one before it, and the entry.  The first element of  *)
(* s follows an entry of term `before' at position k; -1 is for none.       *)
LinkAt(k, before, s, n) ==
  <<k + n, IF n = 1 THEN before ELSE s[n - 1].Term, s[n]>>

SeqLinks(k, before, s) == {LinkAt(k, before, s, n) : n \in 1 .. Len(s)}

LogLinks(i) == SeqLinks(0, -1, Log[i])
MsgLinks(m) == SeqLinks(m.prevIndex + 1, IF m.prevIndex = -1 THEN -1 ELSE m.prevTerm,
                        m.entries)
Links == (UNION {LogLinks(i) : i \in Node}) \cup (UNION {MsgLinks(m) : m \in appendReqs})

(* The goroutines of a node that are not interleaved with its handlers: a   *)
(* round is of the log its node has now, and no candidacy begins in it.     *)
RoundsCurrent ==
  \A i \in Node :
    /\ \A rd \in rounds[i] : /\ State[i] = "Leader" /\ rd.term = CurrentTerm[i]
                             /\ rd.logs = Log[i]
    /\ firing[i] > 0 \/ rearming[i] > 0 => rounds[i] = {} /\ ~ Beats(i)

(* An entry is known by its position and term, and so is what it follows.   *)
LinksUnique ==
  \A x, y \in Links : x[1] = y[1] /\ x[3].Term = y[3].Term => x = y

LinksOrdered == \A x \in Links : x[2] <= x[3].Term

(* No term is in a log, or in a heartbeat, before its time. *)
LinksInTime ==
  /\ \A i \in Node : \A x \in LogLinks(i) : x[3].Term <= CurrentTerm[i]
  /\ \A m \in appendReqs : \A x \in MsgLinks(m) : x[3].Term <= m.term

(* The entries of a term are those of a node that was elected to it ...     *)
LinksOfLeaders ==
  \A x \in Links : \E c \in Node :
    /\ Majority(Cardinality(Voters(x[3].Term, c)))
    /\ \/ CurrentTerm[c] > x[3].Term
       \/ CurrentTerm[c] = x[3].Term /\ State[c] = "Leader"

(* ... and who has them all for as long as it leads.                        *)
LeadersHaveTheirs ==
  \A i \in Node : State[i] = "Leader" =>
    \A x \in Links : x[3].Term = CurrentTerm[i] => x \in LogLinks(i)

LogInv == /\ LinksUnique /\ LinksOrdered /\ LinksInTime
          /\ LinksOfLeaders /\ LeadersHaveTheirs

-----------------------------------------------------------------------------
(* Links of sequences *)

(* Some number is the least of a set. *)
LEMMA Least ==
  ASSUME NEW T \in SUBSET Nat, T # {}
  PROVE  \E x \in T : \A y \in T : x <= y
<1> DEFINE Less == {p \in Nat \X Nat : p[1] < p[2]}
<1>1. IsWellFoundedOn(Less, Nat)
  BY NatLessThanWellFounded DEF OpToRel
<1>2. PICK x \in T : \A y \in T : ~ (<<y, x>> \in Less)
  BY <1>1, WFMin
<1>3. ASSUME NEW y \in T PROVE x <= y
  <2>1. x \in Nat /\ y \in Nat
    OBVIOUS
  <2>2. ~ (<<y, x>> \in Less)
    BY <1>2
  <2>3. ~ (y < x)
    BY <2>1, <2>2
  <2> QED BY <2>1, <2>3
<1> QED BY <1>3

LEMMA Elements ==
  ASSUME NEW s \in Seq(LogEntry)
  PROVE  /\ Len(s) \in Nat
         /\ \A n \in 1 .. Len(s) : s[n] \in LogEntry /\ s[n].Term \in Nat
<1>1. \A e \in LogEntry : e.Term \in Nat
  BY DEF LogEntry
<1> QED BY <1>1, ElementOfSeq, LenProperties

(* The entries of a heartbeat are linked as in the log they are taken from. *)
LEMMA SliceLinks ==
  ASSUME NEW s \in Seq(LogEntry), NEW k \in Nat, NEW before,
         k = 0 => before = -1,
         k > 0 /\ k <= Len(s) => before = s[k].Term
  PROVE  SeqLinks(k, before, SubSeq(s, k + 1, Len(s))) \subseteq SeqLinks(0, -1, s)
<1> DEFINE t == SubSeq(s, k + 1, Len(s))
<1>1. /\ Len(s) \in Nat
      /\ \A n \in k + 1 .. Len(s) : s[n] \in LogEntry
  BY Elements
<1>2. /\ Len(t) = IF k + 1 <= Len(s) THEN Len(s) - k ELSE 0
      /\ \A n \in 1 .. Len(s) - k : t[n] = s[k + n]
  BY <1>1, SubSeqProperties
<1> HIDE DEF t
<1>3. ASSUME NEW n \in 1 .. Len(t) PROVE LinkAt(k, before, t, n) = LinkAt(0, -1, s, k + n)
  <2>1. n \in 1 .. Len(s) - k /\ k + n \in 1 .. Len(s) /\ k <= Len(s)
    BY <1>1, <1>2
  <2>3. t[n] = s[k + n]
    BY <1>2, <2>1
  <2>4. CASE n = 1
    BY <1>1, <2>1, <2>3, <2>4 DEF LinkAt
  <2>5. CASE n > 1
    <3>1. t[n - 1] = s[k + n - 1]
      <4>1. n - 1 \in 1 .. Len(s) - k /\ k + (n - 1) = k + n - 1
        BY <1>1, <2>1, <2>5
      <4> QED BY <1>2, <4>1
    <3> QED BY <1>1, <2>1, <2>3, <2>5, <3>1 DEF LinkAt
  <2> QED BY <2>1, <2>4, <2>5
<1>4. \A n \in 1 .. Len(t) : k + n \in 1 .. Len(s)
  BY <1>1, <1>2
<1> QED BY <1>3, <1>4 DEF SeqLinks, t

(* A log that is cut and appended to has links of its own and of what is    *)
(* appended, if that follows what is left.                                  *)
LEMMA SpliceLinks ==
  ASSUME NEW s \in Seq(LogEntry), NEW t \in Seq(LogEntry),
         NEW k \in 0 .. Len(s), NEW before,
         k = 0 => before = -1,
         k > 0 => before = s[k].Term
  PROVE  LET u == SubSeq(s, 1, k) \o t IN
         /\ SeqLinks(0, -1, u) \subseteq SeqLinks(0, -1, s) \cup SeqLinks(k, before, t)
         /\ Len(u) = k + Len(t)
         /\ \A n \in 1 .. k : LinkAt(0, -1, u, n) = LinkAt(0, -1, s, n)
         /\ \A n \in 1 .. Len(t) : LinkAt(0, -1, u, k + n) = LinkAt(k, before, t, n)
<1> DEFINE cut == SubSeq(s, 1, k)
           u == cut \o t
<1>1. /\ Len(s) \in Nat /\ Len(t) \in Nat
      /\ \A n \in 1 .. k : s[n] \in LogEntry
  BY Elements
<1>2. cut \in Seq(LogEntry) /\ Len(cut) = k /\ \A n \in 1 .. k : cut[n] = s[n]
  BY <1>1, SubSeqProperties
<1> HIDE DEF cut
<1>3. /\ Len(u) = k + Len(t)
      /\ \A n \in 1 .. k + Len(t) : u[n] = IF n <= k THEN cut[n] ELSE t[n - k]
  BY <1>2, ConcatProperties
<1>4. /\ \A n \in 1 .. k : u[n] = s[n]
      /\ \A n \in 1 .. Len(t) : u[k + n] = t[n]
  <2>1. ASSUME NEW n \in 1 .. k PROVE u[n] = s[n]
    BY <1>1, <1>2, <1>3
  <2>2. ASSUME NEW n \in 1 .. Len(t) PROVE u[k + n] = t[n]
    <3>1. k + n \in 1 .. k + Len(t) /\ ~ (k + n <= k) /\ k + n - k = n
      BY <1>1
    <3> QED BY <1>3, <3>1
  <2> QED BY <2>1, <2>2
<1> HIDE DEF u
<1>5. ASSUME NEW n \in 1 .. k PROVE LinkAt(0, -1, u, n) = LinkAt(0, -1, s, n)
  <2>1. CASE n = 1
    BY <1>4, <2>1 DEF LinkAt
  <2>2. CASE n > 1
    <3>1. n - 1 \in 1 .. k
      BY <1>1, <2>2
    <3> QED BY <1>4, <2>2, <3>1 DEF LinkAt
  <2> QED BY <1>1, <2>1, <2>2
<1>6. ASSUME NEW n \in 1 .. Len(t)
      PROVE  LinkAt(0, -1, u, k + n) = LinkAt(k, before, t, n)
  <2>0. u[k + n] = t[n]
    BY <1>4
  <2>1. CASE n = 1 /\ k = 0
    BY <1>1, <2>0, <2>1 DEF LinkAt
  <2>2. CASE n = 1 /\ k > 0
    <3>1. u[k] = s[k] /\ k + n - 1 = k /\ k + n # 1
      BY <1>1, <1>4, <2>2
    <3> QED BY <1>1, <2>0, <2>2, <3>1 DEF LinkAt
  <2>3. CASE n > 1
    <3>1. n - 1 \in 1 .. Len(t) /\ k + (n - 1) = k + n - 1 /\ k + n # 1
      BY <1>1, <2>3
    <3>2. u[k + n - 1] = t[n - 1]
      BY <1>4, <3>1
    <3> QED BY <1>1, <2>0, <2>3, <3>1, <3>2 DEF LinkAt
  <2> QED BY <1>1, <2>1, <2>2, <2>3
<1>7. SeqLinks(0, -1, u) \subseteq SeqLinks(0, -1, s) \cup SeqLinks(k, before, t)
  <2> SUFFICES ASSUME NEW n \in 1 .. Len(u)
               PROVE  LinkAt(0, -1, u, n) \in SeqLinks(0, -1, s) \cup SeqLinks(k, before, t)
    BY DEF SeqLinks
  <2>1. CASE n <= k
    <3>1. n \in 1 .. k /\ n \in 1 .. Len(s)
      BY <1>1, <1>3, <2>1
    <3> QED BY <1>5, <3>1 DEF SeqLinks
  <2>2. CASE n > k
    <3>1. n - k \in 1 .. Len(t) /\ k + (n - k) = n
      BY <1>1, <1>3, <2>2
    <3>2. LinkAt(0, -1, u, n) = LinkAt(k, before, t, n - k)
      BY <1>6, <3>1
    <3> QED BY <3>1, <3>2 DEF SeqLinks
  <2> QED BY <1>1, <1>3, <2>1, <2>2
<1> QED BY <1>3, <1>5, <1>6, <1>7 DEF u, cut

-----------------------------------------------------------------------------
(* Terms only rise, and who leads was leading or is just elected. *)
LEMMA TermsRise ==
  ASSUME ~MayRestart, TypeOK, IInv, HeartbeatsOfLeaders, [Next]_vars, NEW i \in Node
  PROVE  /\ CurrentTerm'[i] >= CurrentTerm[i]
         /\ State[i] = "Leader"
              => CurrentTerm'[i] > CurrentTerm[i] \/ State'[i] = "Leader"
         /\ State'[i] = "Leader"
              => /\ CurrentTerm'[i] = CurrentTerm[i]
                 /\ \/ State[i] = "Leader"
                    \/ \E m \in voteReplies : m.to = i /\ WinElection(m)
<1> DEFINE Goal == /\ CurrentTerm'[i] >= CurrentTerm[i]
                   /\ State[i] = "Leader"
                        => CurrentTerm'[i] > CurrentTerm[i] \/ State'[i] = "Leader"
                   /\ State'[i] = "Leader"
                        => /\ CurrentTerm'[i] = CurrentTerm[i]
                           /\ \/ State[i] = "Leader"
                              \/ \E m \in voteReplies : m.to = i /\ WinElection(m)
<1> SUFFICES Goal
  OBVIOUS
<1>1. /\ CurrentTerm \in [Node -> Nat]
      /\ State \in [Node -> {"Follower", "Candidate", "Leader"}]
  BY DEF TypeOK, TermsTyped
<1>2. CASE UNCHANGED <<CurrentTerm, State>>
  BY <1>1, <1>2
<1>3. ASSUME NEW j \in Node, Calm(j) PROVE Goal
  <2>1. CASE UNCHANGED <<CurrentTerm, VotedFor, State>>
    BY <1>2, <2>1
  <2>2. ASSUME NEW t \in Nat,
               CurrentTerm' = Set(CurrentTerm, j, t), State' = Set(State, j, "Follower"),
               \/ t > CurrentTerm[j]
               \/ t = CurrentTerm[j] /\ \E m \in appendReqs : m.to = j /\ m.term = t
        PROVE  Goal
    <3>1. State[j] = "Leader" => t > CurrentTerm[j]
      BY <2>2, LeaderHearsNoEqual
    <3> QED BY <1>1, <2>2, <3>1
  <2> QED BY <1>3, <2>1, <2>2 DEF Calm
<1>4. ASSUME NEW j \in Node, StartElection(j) PROVE Goal
  BY <1>1, <1>4 DEF StartElection
<1>5. ASSUME NEW m \in voteReqs, GrantVote(m) PROVE Goal
  <2>1. m.to \in Node /\ m.term \in Nat
    BY VoteFields
  <2> QED BY <1>1, <1>5, <2>1 DEF GrantVote, Grants
<1>6. ASSUME NEW m \in voteReqs, DenyVote(m) PROVE Goal
  BY <1>2, <1>6 DEF DenyVote
<1>7. ASSUME NEW m \in voteReplies, CountVote(m) PROVE Goal
  BY <1>2, <1>7 DEF CountVote
<1>8. ASSUME NEW m \in voteReplies, WinElection(m) PROVE Goal
  <2>1. m.to \in Node /\ CurrentTerm' = CurrentTerm /\ State' = Set(State, m.to, "Leader")
    BY <1>8, VoteFields DEF WinElection
  <2> QED BY <1>1, <1>8, <2>1
<1> HIDE DEF Goal
<1>9. CASE Still
  BY <1>2, <1>9 DEF Still
<1> QED BY CalmSteps, <1>3, <1>4, <1>5, <1>6, <1>7, <1>8, <1>9

-----------------------------------------------------------------------------
(* Rounds that nothing interrupts *)

(* What RoundsCurrent says of one node *)
Current(i) ==
  /\ \A rd \in rounds[i] : /\ State[i] = "Leader" /\ rd.term = CurrentTerm[i]
                           /\ rd.logs = Log[i]
  /\ firing[i] > 0 \/ rearming[i] > 0 => rounds[i] = {} /\ ~ Beats(i)

(* A handler of a node that has no goroutines under way starts none that   *)
(* would interfere: it may start beating, or a timer may fire, not both.   *)
LEMMA QuietStep ==
  ASSUME ~Interleaved, TypeOK, NEW i \in Node, Quiet(i), rounds'[i] = {},
         \/ firing'[i] = firing[i] /\ rearming'[i] = rearming[i]
         \/ UNCHANGED <<State, CurrentTerm, beating>>
  PROVE  Current(i)'
<1>1. firing[i] = 0 /\ rearming[i] = 0 /\ ~ Beats(i)
  BY DEF Quiet
<1> QED BY <1>1 DEF Current, Beats

LEMMA EmptyWrite ==
  ASSUME TypeOK, NEW i \in Node, rounds[i] = {},
         NEW k, NEW new, NEW moved, LogWrite(i, k, new, moved)
  PROVE  rounds'[i] = {} /\ \A j \in Node \ {i} : rounds'[j] = rounds[j]
<1>1. rounds \in [Node -> SUBSET Round]
  BY DEF TypeOK, GoroutinesTyped
<1>2. CASE moved
  BY <1>1, <1>2 DEF LogWrite
<1>3. CASE ~ moved
  BY <1>1, <1>3 DEF LogWrite
<1> QED BY <1>2, <1>3

(* A step of one node leaves the others as they are. *)
OthersAlone(i) ==
  \A j \in Node \ {i} :
    /\ rounds'[j] = rounds[j] /\ State'[j] = State[j] /\ CurrentTerm'[j] = CurrentTerm[j]
    /\ Log'[j] = Log[j] /\ firing'[j] = firing[j] /\ rearming'[j] = rearming[j]
    /\ beating'[j] = beating[j]

LEMMA CurrentStep ==
  ASSUME RoundsCurrent, NEW i \in Node, OthersAlone(i), Current(i)'
  PROVE  RoundsCurrent'
<1>1. ASSUME NEW j \in Node \ {i} PROVE Current(j)'
  BY DEF RoundsCurrent, OthersAlone, Current, Beats
<1> QED BY <1>1 DEF RoundsCurrent, Current

LEMMA RoundsStayCurrent ==
  ASSUME ~MayRestart, ~Interleaved, TypeOK, RoundsCurrent, [Next]_vars
  PROVE  RoundsCurrent'
<1>1. /\ CurrentTerm \in [Node -> Nat]
      /\ State \in [Node -> {"Follower", "Candidate", "Leader"}]
      /\ Log \in [Node -> Seq(LogEntry)]
      /\ firing \in [Node -> Nat] /\ rearming \in [Node -> Nat] /\ beating \in [Node -> Nat]
      /\ rounds \in [Node -> SUBSET Round]
      /\ outages \in Nat
  BY DEF TypeOK, TermsTyped, LogsTyped, GoroutinesTyped
<1>2. \A i \in Node : Quiet(i) => rounds[i] = {} /\ firing[i] = 0 /\ rearming[i] = 0
  BY DEF Quiet
<1>3. \A i \in Node : Current(i)
  BY DEF RoundsCurrent, Current
<1>4. ASSUME NEW i \in Node, Quiet(i), Timers(i) PROVE RoundsCurrent'
  <2>1. OthersAlone(i)
    BY <1>1, <1>4 DEF Timers, FireElectionTimer, FireHeartbeatTimer, OthersAlone
  <2>2. Current(i)'
    <3>1. rounds'[i] = {}
      BY <1>2, <1>4 DEF Timers, FireElectionTimer, FireHeartbeatTimer
    <3>2. \/ firing'[i] = firing[i] /\ rearming'[i] = rearming[i]
          \/ UNCHANGED <<State, CurrentTerm, beating>>
      BY <1>4 DEF Timers, FireElectionTimer, FireHeartbeatTimer
    <3> QED BY <1>4, <3>1, <3>2, QuietStep
  <2> QED BY <2>1, <2>2, CurrentStep
<1>5. ASSUME NEW i \in Node, Elections(i) PROVE RoundsCurrent'
  <2>1. OthersAlone(i)
    BY <1>1, <1>5 DEF Elections, StartElection, SkipElection, RearmElectionTimer, OthersAlone
  <2>2. CASE StartElection(i)
    <3>1. rounds'[i] = {} /\ State'[i] = "Candidate"
      BY <1>1, <1>3, <2>2 DEF StartElection, Current
    <3>2. Current(i)'
      BY <3>1 DEF Current, Beats
    <3> QED BY <2>1, <3>2, CurrentStep
  <2>3. CASE SkipElection(i) \/ RearmElectionTimer(i)
    <3>1. /\ rounds[i] = {} /\ ~ Beats(i)
          /\ UNCHANGED <<rounds, State, CurrentTerm, Log, beating>>
      BY <1>1, <1>3, <2>3 DEF SkipElection, RearmElectionTimer, Current
    <3>2. Current(i)'
      BY <3>1 DEF Current, Beats
    <3> QED BY <2>1, <3>2, CurrentStep
  <2> QED BY <1>5, <2>2, <2>3 DEF Elections
<1>6. ASSUME NEW i \in Node, BeginRound(i) PROVE RoundsCurrent'
  <2> DEFINE new == [term |-> CurrentTerm[i], commit |-> CommitIndex[i],
                     logs |-> Log[i], shared |-> TRUE, todo |-> Peers(i)]
  <2>1. OthersAlone(i)
    BY <1>1, <1>6 DEF BeginRound, OthersAlone
  <2>2. rounds' = Set(rounds, i, rounds[i] \cup {new})
    BY Zenon, <1>6 DEF BeginRound
  <2>3. new.term = CurrentTerm[i] /\ new.logs = Log[i]
    OBVIOUS
  <2> HIDE DEF new
  <2>4. /\ State[i] = "Leader" /\ Beats(i)
        /\ UNCHANGED <<State, CurrentTerm, Log, firing, rearming>>
    BY <1>6 DEF BeginRound, Beats
  <2>5. Current(i)'
    <3>1. ~ (firing[i] > 0) /\ ~ (rearming[i] > 0)
      BY <1>3, <2>4 DEF Current
    <3> QED BY <1>1, <1>3, <2>2, <2>3, <2>4, <3>1 DEF Current
  <2> QED BY <2>1, <2>5, CurrentStep
<1>7. ASSUME NEW i \in Node, IdleRound(i) PROVE RoundsCurrent'
  <2>1. OthersAlone(i)
    BY <1>1, <1>7 DEF IdleRound, OthersAlone
  <2>2. Current(i)'
    BY <1>3, <1>7 DEF IdleRound, Current, Beats
  <2> QED BY <2>1, <2>2, CurrentStep
<1>8. ASSUME NEW i \in Node, Quiet(i), NEW op \in Op, ProposeState(i, op)
      PROVE  RoundsCurrent'
  <2>1. rounds'[i] = {} /\ \A j \in Node \ {i} : rounds'[j] = rounds[j]
    BY <1>2, <1>8, EmptyWrite DEF ProposeState
  <2>2. \A j \in Node \ {i} : Log'[j] = Log[j]
    BY <1>1, <1>8 DEF ProposeState, LogWrite
  <2>3. OthersAlone(i)
    BY <1>8, <2>1, <2>2 DEF ProposeState, OthersAlone
  <2>4. Current(i)'
    BY <1>8, <2>1, QuietStep DEF ProposeState
  <2> QED BY <2>3, <2>4, CurrentStep
<1>9. ASSUME NEW i \in Node, NEW rd \in rounds[i], NEW p \in rd.todo,
             SendHeartbeat(i, rd, p)
      PROVE  RoundsCurrent'
  <2> DEFINE todo == rd.todo \ {p}
             rest == [rd EXCEPT !.todo = todo]
  <2>1. rest.term = rd.term /\ rest.logs = rd.logs
    BY <1>1 DEF Round
  <2>2. rounds' = Set(rounds, i, (rounds[i] \ {rd}) \cup IF todo = {} THEN {} ELSE {rest})
    BY <1>9 DEF SendHeartbeat
  <2>3. UNCHANGED <<State, CurrentTerm, Log, firing, rearming, beating>>
    BY <1>9 DEF SendHeartbeat
  <2> HIDE DEF rest, todo
  <2>4. OthersAlone(i)
    BY <1>1, <2>2, <2>3 DEF OthersAlone
  <2>5. \A r \in rounds'[i] : r \in rounds[i] \/ r = rest
    BY <1>1, <2>2
  <2>6. Current(i)'
    BY <1>3, <2>1, <2>3, <2>5 DEF Current, Beats
  <2> QED BY <2>4, <2>6, CurrentStep
<1>10. ASSUME NEW m \in voteReqs, Quiet(m.to), HandleVoteRequest(m) PROVE RoundsCurrent'
  <2>1. m.to \in Node
    BY VoteFields
  <2>2. OthersAlone(m.to)
    BY <1>1, <1>10, <2>1 DEF HandleVoteRequest, GrantVote, DenyVote, OthersAlone
  <2>3. /\ rounds'[m.to] = {}
        /\ firing'[m.to] = firing[m.to] /\ rearming'[m.to] = rearming[m.to]
    BY <1>2, <1>10, <2>1 DEF HandleVoteRequest, GrantVote, DenyVote
  <2> QED BY <1>10, <2>1, <2>2, <2>3, QuietStep, CurrentStep
<1>11. ASSUME NEW m \in voteReplies, Quiet(m.to), HandleVoteReply(m) PROVE RoundsCurrent'
  <2>1. m.to \in Node
    BY VoteFields
  <2>2. OthersAlone(m.to)
    BY <1>1, <1>11, <2>1 DEF HandleVoteReply, VoteReplyNewerTerm, StepDown, CountVote,
       WinElection, IgnoreVoteReply, OthersAlone
  <2>3. /\ rounds'[m.to] = {}
        /\ firing'[m.to] = firing[m.to] /\ rearming'[m.to] = rearming[m.to]
    BY <1>2, <1>11, <2>1 DEF HandleVoteReply, VoteReplyNewerTerm, CountVote,
       WinElection, IgnoreVoteReply
  <2> QED BY <1>11, <2>1, <2>2, <2>3, QuietStep, CurrentStep
<1>12. ASSUME NEW m \in appendReqs, Quiet(m.to), HandleLeaderHeartbeat(m)
       PROVE  RoundsCurrent'
  <2>1. m.to \in Node
    BY RequestFields
  <2>2. /\ rounds'[m.to] = {}
        /\ \A j \in Node \ {m.to} : rounds'[j] = rounds[j] /\ Log'[j] = Log[j]
    <3>1. CASE RejectStaleLeader(m) \/ RejectMismatch(m)
      BY <1>2, <1>12, <2>1, <3>1 DEF RejectStaleLeader, RejectMismatch
    <3>2. CASE AcceptEntries(m)
      <4>1. PICK moved \in BOOLEAN : LogWrite(m.to, m.prevIndex + 1, m.entries, moved)
        BY <3>2 DEF AcceptEntries
      <4>2. \A j \in Node \ {m.to} : Log'[j] = Log[j]
        BY <1>1, <2>1, <4>1 DEF LogWrite
      <4> QED BY <1>2, <1>12, <2>1, <4>1, <4>2, EmptyWrite
    <3> QED BY <1>12, <3>1, <3>2 DEF HandleLeaderHeartbeat
  <2>3. UNCHANGED <<firing, rearming, beating>>
    BY <1>12 DEF HandleLeaderHeartbeat, RejectStaleLeader, RejectMismatch, AcceptEntries,
       FollowLeader
  <2>4. \A j \in Node \ {m.to} : State'[j] = State[j] /\ CurrentTerm'[j] = CurrentTerm[j]
    BY <1>1, <1>12, <2>1 DEF HandleLeaderHeartbeat, RejectStaleLeader, RejectMismatch,
       AcceptEntries, FollowLeader
  <2>5. OthersAlone(m.to)
    BY <2>2, <2>3, <2>4 DEF OthersAlone
  <2> QED BY <1>12, <2>1, <2>2, <2>3, <2>5, QuietStep, CurrentStep
<1>13. ASSUME NEW m \in appendReplies, Quiet(m.to), HandleAppendReply(m) PROVE RoundsCurrent'
  <2>1. m.to \in Node
    <3>1. \A r \in AppendReply : r.to \in Node
      BY DEF AppendReply
    <3> QED BY <3>1 DEF TypeOK, AppendsTyped
  <2>2. OthersAlone(m.to)
    BY <1>1, <1>13, <2>1 DEF HandleAppendReply, IgnoreAppendReply, AppendReplyNewerTerm,
       StepDown, RecordMatch, BackOff, OthersAlone
  <2>3. /\ rounds'[m.to] = {}
        /\ firing'[m.to] = firing[m.to] /\ rearming'[m.to] = rearming[m.to]
    BY <1>2, <1>13, <2>1 DEF HandleAppendReply, IgnoreAppendReply, AppendReplyNewerTerm,
       RecordMatch, BackOff
  <2> QED BY <1>13, <2>1, <2>2, <2>3, QuietStep, CurrentStep
<1>14. ASSUME NEW i \in Node, Stop(i) PROVE RoundsCurrent'
  BY <1>14 DEF Stop, RoundsCurrent, Beats
<1>15. ASSUME NEW i \in Node PROVE ~ Restart(i)
  BY <1>1 DEF Restart
<1>16. CASE UNCHANGED vars
  BY <1>16 DEF vars, RoundsCurrent, Beats
<1>17. CASE \E i \in Node : \/ Quiet(i) /\ Timers(i)
                            \/ Elections(i) \/ Heartbeats(i)
                            \/ Quiet(i) /\ Stop(i)
                            \/ Restart(i)
  BY <1>4, <1>5, <1>6, <1>7, <1>14, <1>15, <1>17 DEF Heartbeats
<1>18. CASE \E i \in Node : Quiet(i) /\ \E op \in Op : ProposeState(i, op)
  BY <1>8, <1>18
<1>19. CASE \E i \in Node : \E rd \in rounds[i] : \E p \in rd.todo : SendHeartbeat(i, rd, p)
  BY <1>9, <1>19
<1>20. CASE Next
  BY Zenon, <1>10, <1>11, <1>12, <1>13, <1>17, <1>18, <1>19, <1>20 DEF Next
<1> QED BY <1>16, <1>20

-----------------------------------------------------------------------------
(* What a step does to the links *)

LEMMA Fields ==
  ASSUME TypeOK
  PROVE  /\ CurrentTerm \in [Node -> Nat]
         /\ State \in [Node -> {"Follower", "Candidate", "Leader"}]
         /\ Log \in [Node -> Seq(LogEntry)]
         /\ nextIndex \in [Node -> [Node -> Nat]]
         /\ rounds \in [Node -> SUBSET Round]
         /\ \A m \in appendReqs :
              /\ m.to \in Node /\ m.term \in Nat /\ m.prevIndex \in Nat \cup {-1}
              /\ m.prevTerm \in Nat \cup {-1} /\ m.entries \in Seq(LogEntry)
<1>1. \A m \in AppendReq :
        /\ m.to \in Node /\ m.term \in Nat /\ m.prevIndex \in Nat \cup {-1}
        /\ m.prevTerm \in Nat \cup {-1} /\ m.entries \in Seq(LogEntry)
  BY DEF AppendReq, Index
<1> QED BY <1>1 DEF TypeOK, TermsTyped, LogsTyped, GoroutinesTyped, AppendsTyped

(* The entries of a new heartbeat are its leader's. *)
LEMMA SentLinks ==
  ASSUME TypeOK, RoundsCurrent, NEW i \in Node, NEW rd \in rounds[i], NEW p \in Node
  PROVE  LET m == HeartbeatFor(i, rd, p) IN
         State[i] = "Leader" /\ m.term = CurrentTerm[i] /\ MsgLinks(m) \subseteq LogLinks(i)
<1> DEFINE k == nextIndex[i][p]
           log == rd.logs
           before == IF k - 1 \in 0 .. LastIndex(log) THEN TermAt(log, k - 1) ELSE -1
           m == HeartbeatFor(i, rd, p)
<1>1. /\ State[i] = "Leader" /\ rd.term = CurrentTerm[i] /\ log = Log[i]
      /\ k \in Nat /\ log \in Seq(LogEntry) /\ Len(log) \in Nat
  BY Fields, Elements DEF RoundsCurrent
<1>2. /\ m.term = rd.term /\ m.prevIndex = k - 1 /\ m.prevTerm = before
      /\ m.entries = SubSeq(log, k + 1, Len(log))
  BY DEF HeartbeatFor
<1> DEFINE first == IF m.prevIndex = -1 THEN -1 ELSE m.prevTerm
<1>3. /\ m.prevIndex + 1 = k
      /\ k = 0 => first = -1
      /\ k > 0 /\ k <= Len(log) => first = log[k].Term
  <2>1. m.prevIndex + 1 = k /\ (k = 0 => m.prevIndex = -1)
    BY <1>1, <1>2
  <2>2. k > 0 /\ k <= Len(log) => k - 1 \in 0 .. LastIndex(log) /\ k - 1 + 1 = k /\ k - 1 # -1
    BY <1>1 DEF LastIndex
  <2> QED BY <1>2, <2>1, <2>2 DEF TermAt
<1> HIDE DEF m, log, k, first
<1>4. SeqLinks(k, first, SubSeq(log, k + 1, Len(log))) \subseteq SeqLinks(0, -1, log)
  BY <1>1, <1>3, SliceLinks
<1> QED BY <1>1, <1>2, <1>3, <1>4 DEF MsgLinks, LogLinks, m, first

(* A new heartbeat is the next of a round. *)
LEMMA Senders ==
  ASSUME ~MayRestart, TypeOK, [Next]_vars, NEW m \in appendReqs' \ appendReqs
  PROVE  \E i \in Node : \E rd \in rounds[i] : \E p \in rd.todo :
           /\ p \in Node /\ SendHeartbeat(i, rd, p) /\ m = HeartbeatFor(i, rd, p)
<1> DEFINE Sends == \E i \in Node : \E rd \in rounds[i] : \E p \in rd.todo :
                      SendHeartbeat(i, rd, p)
<1>1. ASSUME NEW i \in Node, \/ Timers(i) \/ Elections(i) \/ Heartbeats(i) \/ Stop(i)
      PROVE  appendReqs' = appendReqs
  BY <1>1 DEF Timers, FireElectionTimer, FireHeartbeatTimer, Elections, StartElection,
       SkipElection, RearmElectionTimer, Heartbeats, BeginRound, IdleRound, Stop
<1>2. ASSUME NEW i \in Node PROVE ~ Restart(i)
  BY DEF TypeOK, GoroutinesTyped, Restart
<1>3. ASSUME NEW i \in Node, NEW op \in Op, ProposeState(i, op)
      PROVE  appendReqs' = appendReqs
  BY <1>3 DEF ProposeState
<1>4. ASSUME NEW r \in voteReqs, HandleVoteRequest(r) PROVE appendReqs' = appendReqs
  BY <1>4 DEF HandleVoteRequest, GrantVote, DenyVote
<1>5. ASSUME NEW r \in voteReplies, HandleVoteReply(r) PROVE appendReqs' = appendReqs
  BY <1>5 DEF HandleVoteReply, VoteReplyNewerTerm, CountVote, WinElection, IgnoreVoteReply
<1>6. ASSUME NEW r \in appendReqs, HandleLeaderHeartbeat(r)
      PROVE  appendReqs' \subseteq appendReqs
  BY <1>6 DEF HandleLeaderHeartbeat, RejectStaleLeader, RejectMismatch, AcceptEntries,
       FollowLeader
<1>7. ASSUME NEW r \in appendReplies, HandleAppendReply(r) PROVE appendReqs' = appendReqs
  BY <1>7 DEF HandleAppendReply, IgnoreAppendReply, AppendReplyNewerTerm, RecordMatch, BackOff
<1>8. CASE UNCHANGED vars
  BY <1>8 DEF vars
<1>9. CASE Sends
  <2>1. PICK i \in Node : \E rd \in rounds[i] : \E p \in rd.todo : SendHeartbeat(i, rd, p)
    BY <1>9
  <2>2. PICK rd \in rounds[i] : \E p \in rd.todo : SendHeartbeat(i, rd, p)
    BY <2>1
  <2>3. PICK p \in rd.todo : SendHeartbeat(i, rd, p)
    BY <2>2
  <2>4. m = HeartbeatFor(i, rd, p)
    BY <2>3 DEF SendHeartbeat
  <2>5. p \in Node
    BY RoundParts, Fields
  <2> QED BY <2>3, <2>4, <2>5
<1>10. CASE Next /\ ~ Sends
  BY Zenon, <1>1, <1>2, <1>3, <1>4, <1>5, <1>6, <1>7, <1>10 DEF Next
<1> QED BY <1>8, <1>9, <1>10

(* It is sent by a leader, and says what its log holds. *)
LEMMA NewHeartbeats ==
  ASSUME ~MayRestart, TypeOK, RoundsCurrent, [Next]_vars, NEW m \in appendReqs' \ appendReqs
  PROVE  /\ Log' = Log
         /\ \E i \in Node : /\ State[i] = "Leader" /\ m.term = CurrentTerm[i]
                            /\ MsgLinks(m) \subseteq LogLinks(i)
<1>1. PICK i \in Node : \E rd \in rounds[i] : \E p \in rd.todo :
             /\ p \in Node /\ SendHeartbeat(i, rd, p) /\ m = HeartbeatFor(i, rd, p)
  BY Senders
<1>2. PICK rd \in rounds[i] : \E p \in rd.todo :
             /\ p \in Node /\ SendHeartbeat(i, rd, p) /\ m = HeartbeatFor(i, rd, p)
  BY <1>1
<1>3. PICK p \in rd.todo :
             /\ p \in Node /\ SendHeartbeat(i, rd, p) /\ m = HeartbeatFor(i, rd, p)
  BY <1>2
<1>4. Log' = Log
  BY <1>3 DEF SendHeartbeat
<1> QED BY <1>3, <1>4, SentLinks

(* A proposal adds one link to the log of a leader. *)
LEMMA ProposalLinks ==
  ASSUME TypeOK, NEW i \in Node, NEW op \in Op, ProposeState(i, op)
  PROVE  \E x : /\ x[1] = Len(Log[i]) + 1 /\ x[3].Term = CurrentTerm[i]
                /\ x[2] = -1 \/ \E y \in LogLinks(i) : x[2] = y[3].Term
                /\ LogLinks(i)' = LogLinks(i) \cup {x}
                /\ \A j \in Node \ {i} : LogLinks(j)' = LogLinks(j)
<1> DEFINE e == [Term |-> CurrentTerm[i], Op |-> op]
           k == Len(Log[i])
           before == IF k = 0 THEN -1 ELSE Log[i][k].Term
           u == SubSeq(Log[i], 1, k) \o <<e>>
           x == LinkAt(k, before, <<e>>, 1)
<1>0. /\ Log \in [Node -> Seq(LogEntry)] /\ CurrentTerm[i] \in Nat /\ k \in Nat
  BY Fields, Elements
<1>1. e \in LogEntry /\ <<e>> \in Seq(LogEntry) /\ Len(<<e>>) = 1 /\ <<e>>[1] = e
  BY <1>0 DEF LogEntry
<1>2. Log' = Set(Log, i, u)
  BY DEF ProposeState, LogWrite
<1>3. /\ SeqLinks(0, -1, u) \subseteq LogLinks(i) \cup SeqLinks(k, before, <<e>>)
      /\ Len(u) = k + 1
      /\ \A n \in 1 .. k : LinkAt(0, -1, u, n) = LinkAt(0, -1, Log[i], n)
      /\ \A n \in 1 .. 1 : LinkAt(0, -1, u, k + n) = LinkAt(k, before, <<e>>, n)
  <2> DEFINE new == <<e>>
             old == Log[i]
  <2>1. /\ k \in 0 .. Len(old) /\ old \in Seq(LogEntry)
        /\ k = 0 => before = -1
        /\ k > 0 => before = old[k].Term
    BY <1>0
  <2>2. new \in Seq(LogEntry) /\ Len(new) = 1
    BY <1>1
  <2> HIDE DEF new, old, before, k
  <2>3. LET v == SubSeq(old, 1, k) \o new IN
        /\ SeqLinks(0, -1, v) \subseteq SeqLinks(0, -1, old) \cup SeqLinks(k, before, new)
        /\ Len(v) = k + Len(new)
        /\ \A n \in 1 .. k : LinkAt(0, -1, v, n) = LinkAt(0, -1, old, n)
        /\ \A n \in 1 .. Len(new) : LinkAt(0, -1, v, k + n) = LinkAt(k, before, new, n)
    BY <2>1, <2>2, SpliceLinks
  <2> QED BY <2>2, <2>3 DEF LogLinks, new, old
<1>4. SeqLinks(k, before, <<e>>) = {x}
  BY <1>0, <1>1 DEF SeqLinks
<1>5. /\ x[1] = k + 1 /\ x[2] = before /\ x[3] = e /\ e.Term = CurrentTerm[i]
  BY DEF LinkAt
<1> HIDE DEF x, u, e
<1>6. SeqLinks(0, -1, u) = LogLinks(i) \cup {x}
  <2>1. ASSUME NEW n \in 1 .. k PROVE LinkAt(0, -1, Log[i], n) \in SeqLinks(0, -1, u)
    <3>1. n \in 1 .. Len(u)
      BY <1>0, <1>1, <1>3
    <3> QED BY <1>3, <3>1 DEF SeqLinks
  <2>2. x \in SeqLinks(0, -1, u)
    <3>1. k + 1 \in 1 .. Len(u) /\ LinkAt(0, -1, u, k + 1) = x
      BY <1>0, <1>1, <1>3 DEF x
    <3> QED BY <3>1 DEF SeqLinks
  <2>3. LogLinks(i) \subseteq SeqLinks(0, -1, u)
    BY <2>1 DEF LogLinks, SeqLinks
  <2> QED BY <1>3, <1>4, <2>2, <2>3
<1>7. LogLinks(i)' = LogLinks(i) \cup {x}
  BY <1>0, <1>1, <1>2, <1>6 DEF LogLinks
<1>8. \A j \in Node \ {i} : LogLinks(j)' = LogLinks(j)
  BY <1>0, <1>1, <1>2 DEF LogLinks
<1>9. before = -1 \/ \E y \in LogLinks(i) : before = y[3].Term
  <2>1. CASE k > 0
    <3>1. k \in 1 .. Len(Log[i]) /\ LinkAt(0, -1, Log[i], k)[3] = Log[i][k]
      BY <1>0, <1>1, <2>1 DEF LinkAt
    <3>2. LinkAt(0, -1, Log[i], k) \in LogLinks(i)
      BY <3>1 DEF LogLinks, SeqLinks
    <3> QED BY <2>1, <3>1, <3>2
  <2> QED BY <1>0, <1>1, <2>1
<1> QED BY <1>5, <1>7, <1>8, <1>9

(* What HandleLeaderHeartbeat leaves of a log and what it puts there, it    *)
(* links as they were: the term before the new entries has been compared.   *)
LEMMA AcceptedLinks ==
  ASSUME TypeOK, NEW m \in appendReqs, AcceptEntries(m)
  PROVE  /\ LogLinks(m.to)' \subseteq LogLinks(m.to) \cup MsgLinks(m)
         /\ \A j \in Node \ {m.to} : LogLinks(j)' = LogLinks(j)
<1> DEFINE i == m.to
           k == m.prevIndex + 1
           first == IF m.prevIndex = -1 THEN -1 ELSE m.prevTerm
           u == SubSeq(Log[i], 1, k) \o m.entries
<1>1. /\ Log \in [Node -> Seq(LogEntry)] /\ i \in Node /\ m.prevIndex \in Nat \cup {-1}
      /\ m.entries \in Seq(LogEntry) /\ Len(Log[i]) \in Nat
  BY Fields, Elements
<1>2. Log' = Set(Log, i, u)
  BY DEF AcceptEntries, LogWrite
<1>3. /\ k \in 0 .. Len(Log[i])
      /\ k = 0 => first = -1
      /\ k > 0 => first = Log[i][k].Term
  BY <1>1 DEF AcceptEntries, HasPrevious, LastIndex, TermAt
<1>4. SeqLinks(0, -1, u) \subseteq SeqLinks(0, -1, Log[i]) \cup SeqLinks(k, first, m.entries)
  <2> HIDE DEF first, k
  <2> QED BY <1>1, <1>3, SpliceLinks
<1> QED BY <1>1, <1>2, <1>4 DEF LogLinks, MsgLinks

-----------------------------------------------------------------------------
(* The invariant *)

LEMMA LinkIn ==
  /\ \A i \in Node : \A x \in LogLinks(i) : x \in Links
  /\ \A m \in appendReqs : \A x \in MsgLinks(m) : x \in Links
  /\ \A x \in Links : \/ \E i \in Node : x \in LogLinks(i)
                      \/ \E m \in appendReqs : x \in MsgLinks(m)
  /\ \A x \in Links' : \/ \E i \in Node : x \in LogLinks(i)'
                       \/ \E m \in appendReqs' : x \in MsgLinks(m)
<1>1. ASSUME NEW i \in Node, NEW x \in LogLinks(i) PROVE x \in Links
  BY <1>1, Zenon DEF Links
<1>2. ASSUME NEW m \in appendReqs, NEW x \in MsgLinks(m) PROVE x \in Links
  BY <1>2, Zenon DEF Links
<1>3. ASSUME NEW x \in Links
      PROVE  (\E i \in Node : x \in LogLinks(i)) \/ (\E m \in appendReqs : x \in MsgLinks(m))
  BY <1>3, Zenon DEF Links
<1>4. ASSUME NEW x \in Links'
      PROVE  \/ \E i \in Node : x \in LogLinks(i)'
             \/ \E m \in appendReqs' : x \in MsgLinks(m)
  <2>1. \/ x \in UNION {LogLinks(i)' : i \in Node}
        \/ x \in UNION {MsgLinks(m) : m \in appendReqs'}
    BY <1>4 DEF Links, MsgLinks
  <2> QED BY <2>1, Zenon
<1> QED BY <1>1, <1>2, <1>3, <1>4

LEMMA LinkTypes ==
  ASSUME TypeOK
  PROVE  \A x \in Links : x[1] \in Nat /\ x[2] \in Int /\ x[3].Term \in Nat
<1>1. ASSUME NEW s \in Seq(LogEntry), NEW k \in Nat, NEW before \in Int,
             NEW x \in SeqLinks(k, before, s)
      PROVE  x[1] \in Nat /\ x[2] \in Int /\ x[3].Term \in Nat
  <2>1. PICK n \in 1 .. Len(s) : x = LinkAt(k, before, s, n)
    BY DEF SeqLinks
  <2>2. /\ x[1] = k + n /\ x[3] = s[n]
        /\ x[2] = IF n = 1 THEN before ELSE s[n - 1].Term
    BY <2>1 DEF LinkAt
  <2>3. n # 1 => n - 1 \in 1 .. Len(s)
    BY Elements
  <2> QED BY <2>2, <2>3, Elements
<1>2. ASSUME NEW i \in Node, NEW x \in LogLinks(i)
      PROVE  x[1] \in Nat /\ x[2] \in Int /\ x[3].Term \in Nat
  BY <1>1, <1>2, Fields DEF LogLinks
<1>3. ASSUME NEW m \in appendReqs, NEW x \in MsgLinks(m)
      PROVE  x[1] \in Nat /\ x[2] \in Int /\ x[3].Term \in Nat
  <2> DEFINE first == IF m.prevIndex = -1 THEN -1 ELSE m.prevTerm
  <2>1. m.prevIndex + 1 \in Nat /\ first \in Int /\ m.entries \in Seq(LogEntry)
    BY Fields
  <2> HIDE DEF first
  <2>2. x \in SeqLinks(m.prevIndex + 1, first, m.entries)
    BY <1>3 DEF MsgLinks, first
  <2> QED BY <1>1, <2>1, <2>2
<1> QED BY <1>2, <1>3, LinkIn

LEMMA LogPositions ==
  ASSUME TypeOK, NEW i \in Node, NEW x \in LogLinks(i)
  PROVE  x[1] \in 1 .. Len(Log[i])
<1>1. PICK n \in 1 .. Len(Log[i]) : x = LinkAt(0, -1, Log[i], n)
  BY DEF LogLinks, SeqLinks
<1>2. n \in Nat /\ x[1] = 0 + n
  BY <1>1, Fields, Elements DEF LinkAt
<1> QED BY <1>1, <1>2

(* Two nodes do not both have the votes of a majority for one term. *)
LEMMA OneMajority ==
  ASSUME IInv, NEW t, NEW c \in Node, NEW d \in Node,
         Majority(Cardinality(Voters(t, c))), Majority(Cardinality(Voters(t, d)))
  PROVE  c = d
<1>1. PICK v \in Voters(t, c) : v \in Voters(t, d)
  BY Overlap DEF Voters
<1> QED BY <1>1 DEF IInv, BallotsSound, Voters

(* A step that makes no links *)
LEMMA OldLinks ==
  ASSUME ~MayRestart, TypeOK, IInv, IInv', HeartbeatsOfLeaders, LogInv, [Next]_vars,
         TypeOK', Links' \subseteq Links,
         \A i \in Node : State'[i] = "Leader" => LogLinks(i) \subseteq LogLinks(i)'
  PROVE  LinksUnique' /\ LinksOrdered' /\ LinksOfLeaders' /\ LeadersHaveTheirs'
<1>1. LinksUnique' /\ LinksOrdered'
  BY DEF LogInv, LinksUnique, LinksOrdered
<1>2. ballots \subseteq ballots'
  BY BallotsGrow
<1>3. ASSUME NEW x \in Links'
      PROVE  \E c \in Node :
               /\ Majority(Cardinality(Voters(x[3].Term, c)'))
               /\ \/ CurrentTerm'[c] > x[3].Term
                  \/ CurrentTerm'[c] = x[3].Term /\ State'[c] = "Leader"
  <2>1. PICK c \in Node : /\ Majority(Cardinality(Voters(x[3].Term, c)))
                          /\ \/ CurrentTerm[c] > x[3].Term
                             \/ CurrentTerm[c] = x[3].Term /\ State[c] = "Leader"
    BY <1>3 DEF LogInv, LinksOfLeaders
  <2>2. Majority(Cardinality(Voters(x[3].Term, c)'))
    BY <1>2, <2>1, MajoritiesStay
  <2>3. /\ CurrentTerm[c] \in Nat /\ CurrentTerm'[c] \in Nat /\ x[3].Term \in Nat
    BY LinkTypes DEF TypeOK, TermsTyped
  <2>4. \/ CurrentTerm'[c] > x[3].Term
        \/ CurrentTerm'[c] = x[3].Term /\ State'[c] = "Leader"
    BY <2>1, <2>3, TermsRise
  <2> QED BY <2>2, <2>4
<1>4. LinksOfLeaders'
  BY <1>3 DEF LinksOfLeaders, Voters
<1>5. ASSUME NEW i \in Node, State'[i] = "Leader", NEW x \in Links',
             x[3].Term = CurrentTerm'[i]
      PROVE  x \in LogLinks(i)'
  <2>1. CurrentTerm'[i] = CurrentTerm[i] /\ x \in Links
    BY <1>5, TermsRise
  <2>2. CASE State[i] = "Leader"
    BY <1>5, <2>1, <2>2 DEF LogInv, LeadersHaveTheirs
  <2>3. ASSUME NEW m \in voteReplies, m.to = i, WinElection(m) PROVE FALSE
    <3>1. Majority(Cardinality(Voters(CurrentTerm[i], i)))
      <4>1. LeaderHasMajority'
        BY DEF IInv
      <4>2. ballots' = ballots /\ CurrentTerm' = CurrentTerm
        BY <2>3 DEF WinElection
      <4>3. \A t, c : Voters(t, c)' = Voters(t, c)
        BY <4>2 DEF Voters
      <4> QED BY <1>5, <4>1, <4>2, <4>3 DEF LeaderHasMajority
    <3>2. PICK c \in Node : /\ Majority(Cardinality(Voters(x[3].Term, c)))
                            /\ \/ CurrentTerm[c] > x[3].Term
                               \/ CurrentTerm[c] = x[3].Term /\ State[c] = "Leader"
      BY <2>1 DEF LogInv, LinksOfLeaders
    <3>3. c = i
      BY <1>5, <2>1, <3>1, <3>2, OneMajority
    <3>4. State[i] = "Candidate" /\ CurrentTerm[i] \in Nat
      BY <2>3, Fields DEF WinElection, Counts
    <3> QED BY <1>5, <2>1, <3>2, <3>3, <3>4
  <2> QED BY <1>5, <2>2, <2>3, TermsRise
<1>6. LeadersHaveTheirs'
  BY <1>5 DEF LeadersHaveTheirs
<1> QED BY <1>1, <1>4, <1>6

(* A proposal makes a new link, at the end of the log of the one leader of  *)
(* its term.                                                                *)
LEMMA ProposedLink ==
  ASSUME TypeOK, IInv, LogInv, NEW i \in Node, NEW op \in Op, ProposeState(i, op)
  PROVE  LogInv'
<1>0. /\ State[i] = "Leader" /\ appendReqs' = appendReqs
      /\ UNCHANGED <<CurrentTerm, State, ballots>>
  BY DEF ProposeState
<1>1. PICK x : /\ x[1] = Len(Log[i]) + 1 /\ x[3].Term = CurrentTerm[i]
               /\ x[2] = -1 \/ \E y \in LogLinks(i) : x[2] = y[3].Term
               /\ LogLinks(i)' = LogLinks(i) \cup {x}
               /\ \A j \in Node \ {i} : LogLinks(j)' = LogLinks(j)
  BY ProposalLinks
<1>2. /\ CurrentTerm \in [Node -> Nat] /\ Len(Log[i]) \in Nat
  BY Fields, Elements
<1>3. ASSUME NEW y \in Links' PROVE y \in Links \/ y = x
  BY <1>0, <1>1 DEF Links
<1>4. ASSUME NEW y \in Links, y[1] = x[1], y[3].Term = x[3].Term PROVE FALSE
  <2>1. y \in LogLinks(i)
    BY <1>0, <1>1, <1>4 DEF LogInv, LeadersHaveTheirs
  <2> QED BY <1>1, <1>2, <1>4, <2>1, LogPositions
<1>5. LinksUnique'
  BY <1>3, <1>4 DEF LogInv, LinksUnique
<1>6. LinksOrdered'
  <2>1. x[2] <= x[3].Term
    BY <1>1, <1>2 DEF LogInv, LinksInTime
  <2> QED BY <1>3, <2>1 DEF LogInv, LinksOrdered
<1>7. LinksInTime'
  <2>1. ASSUME NEW j \in Node, NEW y \in LogLinks(j)' PROVE y[3].Term <= CurrentTerm[j]
    BY <1>1, <1>2, <2>1 DEF LogInv, LinksInTime
  <2>2. \A m \in appendReqs : MsgLinks(m)' = MsgLinks(m)
    BY DEF MsgLinks
  <2> QED BY <1>0, <2>1, <2>2 DEF LogInv, LinksInTime
<1>8. LinksOfLeaders'
  <2>1. Majority(Cardinality(Voters(CurrentTerm[i], i)))
    BY <1>0 DEF IInv, LeaderHasMajority
  <2>2. \A t, c : Voters(t, c)' = Voters(t, c)
    BY <1>0 DEF Voters
  <2>3. ASSUME NEW y \in Links'
        PROVE  \E c \in Node : /\ Majority(Cardinality(Voters(y[3].Term, c)))
                               /\ \/ CurrentTerm[c] > y[3].Term
                                  \/ CurrentTerm[c] = y[3].Term /\ State[c] = "Leader"
    BY <1>0, <1>1, <1>3, <2>1, <2>3 DEF LogInv, LinksOfLeaders
  <2> QED BY <1>0, <2>2, <2>3 DEF LinksOfLeaders
<1>9. LeadersHaveTheirs'
  <2> SUFFICES ASSUME NEW j \in Node, State[j] = "Leader", NEW y \in Links',
                      y[3].Term = CurrentTerm[j]
               PROVE  y \in LogLinks(j)'
    BY <1>0 DEF LeadersHaveTheirs
  <2>1. CASE y \in Links
    BY <1>1, <2>1 DEF LogInv, LeadersHaveTheirs
  <2>2. CASE y = x
    <3>1. CurrentTerm[j] = CurrentTerm[i]
      BY <1>1, <2>2
    <3>2. j = i
      BY <1>0, <3>1, OneMajority DEF IInv, LeaderHasMajority
    <3> QED BY <1>1, <2>2, <3>2
  <2> QED BY <1>3, <2>1, <2>2
<1> QED BY <1>5, <1>6, <1>7, <1>8, <1>9 DEF LogInv

LEMMA LogInvStep ==
  ASSUME ~MayRestart, ~Interleaved, TypeOK, TypeOK', IInv, IInv', HeartbeatsOfLeaders,
         RoundsCurrent, LogInv, [Next]_vars
  PROVE  LogInv'
<1>1. /\ CurrentTerm \in [Node -> Nat] /\ CurrentTerm' \in [Node -> Nat]
      /\ \A m \in appendReqs : m.to \in Node /\ m.term \in Nat
  BY Fields DEF TypeOK, TermsTyped
<1>2. \A i \in Node : CurrentTerm'[i] >= CurrentTerm[i]
  BY TermsRise
<1>3. ASSUME NEW m \in appendReqs' \ appendReqs
      PROVE  /\ Log' = Log
             /\ \E i \in Node : /\ State[i] = "Leader" /\ m.term = CurrentTerm[i]
                                /\ MsgLinks(m) \subseteq LogLinks(i)
  BY <1>3, NewHeartbeats
<1>4. \A m : MsgLinks(m)' = MsgLinks(m)
  BY DEF MsgLinks
<1>5. ASSUME NEW m \in appendReqs', NEW x \in MsgLinks(m) PROVE x \in Links /\ x[3].Term <= m.term
  <2>1. CASE m \in appendReqs
    BY <1>5, <2>1, LinkIn DEF LogInv, LinksInTime
  <2>2. CASE m \notin appendReqs
    BY <1>3, <1>5, <2>2, LinkIn DEF LogInv, LinksInTime
  <2> QED BY <2>1, <2>2
<1>6. CASE Log' = Log
  <2>1. \A i \in Node : LogLinks(i)' = LogLinks(i)
    BY <1>6 DEF LogLinks
  <2>2. Links' \subseteq Links
    BY <1>4, <1>5, <2>1, LinkIn
  <2>3. LinksInTime'
    <3>1. ASSUME NEW i \in Node, NEW x \in LogLinks(i) PROVE x[3].Term <= CurrentTerm'[i]
      <4>1. x[3].Term <= CurrentTerm[i] /\ x[3].Term \in Nat
        BY <3>1, LinkIn, LinkTypes DEF LogInv, LinksInTime
      <4> QED BY <1>1, <1>2, <4>1
    <3> QED BY <1>4, <1>5, <2>1, <3>1 DEF LinksInTime
  <2> QED BY <2>1, <2>2, <2>3, OldLinks DEF LogInv
<1>7. ASSUME NEW i \in Node, NEW op \in Op, ProposeState(i, op) PROVE LogInv'
  BY <1>7, ProposedLink
<1>8. ASSUME NEW m \in appendReqs, AcceptEntries(m) PROVE LogInv'
  <2>1. /\ LogLinks(m.to)' \subseteq LogLinks(m.to) \cup MsgLinks(m)
        /\ \A j \in Node \ {m.to} : LogLinks(j)' = LogLinks(j)
    BY <1>8, AcceptedLinks
  <2>2. /\ m.to \in Node /\ m.term >= CurrentTerm[m.to]
        /\ CurrentTerm'[m.to] = m.term /\ State'[m.to] = "Follower"
    BY <1>1, <1>8, Fields DEF AcceptEntries, FollowLeader
  <2>3. Links' \subseteq Links
    <3>1. ASSUME NEW i \in Node, NEW x \in LogLinks(i)' PROVE x \in Links
      BY <2>1, <3>1, LinkIn
    <3> QED BY <1>4, <1>5, <3>1, LinkIn
  <2>4. \A i \in Node : State'[i] = "Leader" => LogLinks(i) \subseteq LogLinks(i)'
    BY <2>1, <2>2
  <2>5. LinksInTime'
    <3>1. ASSUME NEW i \in Node, NEW x \in LogLinks(i)' PROVE x[3].Term <= CurrentTerm'[i]
      <4>1. x \in Links /\ x[3].Term \in Nat
        BY <2>3, <3>1, LinkTypes DEF Links
      <4>2. CASE i = m.to
        <5>1. x[3].Term <= CurrentTerm[i] \/ x[3].Term <= m.term
          BY <2>1, <3>1, <4>2 DEF LogInv, LinksInTime
        <5> QED BY <1>1, <2>2, <4>1, <4>2, <5>1
      <4>3. CASE i # m.to
        <5>1. x[3].Term <= CurrentTerm[i]
          BY <2>1, <3>1, <4>3 DEF LogInv, LinksInTime
        <5> QED BY <1>1, <1>2, <4>1, <5>1
      <4> QED BY <4>2, <4>3
    <3> QED BY <1>4, <1>5, <3>1 DEF LinksInTime
  <2> QED BY <2>3, <2>4, <2>5, OldLinks DEF LogInv
<1> QED BY LogSteps, <1>6, <1>7, <1>8

LEMMA LogInvariant ==
  ASSUME ~MayRestart, ~Interleaved
  PROVE  Spec => [](TypeOK /\ RoundsCurrent /\ LogInv)
<1>1. Init => RoundsCurrent /\ LogInv
  <2> SUFFICES ASSUME Init PROVE RoundsCurrent /\ LogInv
    OBVIOUS
  <2>1. RoundsCurrent
    BY DEF Init, RoundsCurrent
  <2>2. Links = {} /\ \A i \in Node : LogLinks(i) = {}
    <3>1. SeqLinks(0, -1, << >>) = {}
      BY DEF SeqLinks
    <3> QED BY <3>1 DEF Init, Links, LogLinks
  <2> QED BY <2>1, <2>2 DEF Init, LogInv, LinksUnique, LinksOrdered, LinksInTime,
       LinksOfLeaders, LeadersHaveTheirs
<1>2. TypeOK /\ TypeOK' /\ IInv /\ IInv' /\ HeartbeatsOfLeaders /\ RoundsCurrent /\ LogInv
        /\ [Next]_vars => RoundsCurrent' /\ LogInv'
  <2> SUFFICES ASSUME TypeOK, TypeOK', IInv, IInv', HeartbeatsOfLeaders, RoundsCurrent,
                      LogInv, [Next]_vars
               PROVE  RoundsCurrent' /\ LogInv'
    OBVIOUS
  <2>1. LogInv'
    BY LogInvStep
  <2>2. RoundsCurrent'
    BY RoundsStayCurrent
  <2> QED BY <2>1, <2>2
<1> QED BY <1>1, <1>2, LeadershipInvariant, PTL DEF Spec

-----------------------------------------------------------------------------
(* What the links mean for the logs *)

LEMMA LinkOf ==
  ASSUME NEW i \in Node, NEW n \in 1 .. Len(Log[i])
  PROVE  LinkAt(0, -1, Log[i], n) \in LogLinks(i) /\ LinkAt(0, -1, Log[i], n) \in Links
<1>1. LinkAt(0, -1, Log[i], n) \in LogLinks(i)
  BY DEF LogLinks, SeqLinks
<1> QED BY <1>1, LinkIn

(* No log goes back in its terms, and no log is ahead of its node's term:   *)
(* HandleLeaderHeartbeat compares terms of messages and entries only with   *)
(* equality, and keeps them in order all the same.                          *)
THEOREM LogsAreOrdered ==
  ASSUME ~MayRestart, ~Interleaved
  PROVE  Spec => []TermsOrdered
<1>1. TypeOK /\ LogInv => TermsOrdered
  <2> SUFFICES ASSUME TypeOK, LogInv, NEW i \in Node, NEW n \in 1 .. Len(Log[i])
               PROVE  /\ Log[i][n].Term <= CurrentTerm[i]
                      /\ n > 1 => Log[i][n-1].Term <= Log[i][n].Term
    BY DEF TermsOrdered
  <2> DEFINE x == LinkAt(0, -1, Log[i], n)
  <2>1. x[3] = Log[i][n] /\ x[2] = IF n = 1 THEN -1 ELSE Log[i][n - 1].Term
    BY DEF LinkAt
  <2>2. x \in Links /\ x \in LogLinks(i)
    BY LinkOf
  <2> HIDE DEF x
  <2> QED BY <2>1, <2>2 DEF LogInv, LinksOrdered, LinksInTime
<1> QED BY <1>1, LogInvariant, PTL

(* Two logs that have an entry of one term at one position are equal up to  *)
(* there: there is no last difference before it.                            *)
LEMMA PrefixesAgree ==
  ASSUME TypeOK, LogInv, NEW i \in Node, NEW j \in Node,
         NEW n \in Nat, n <= Len(Log[i]), n <= Len(Log[j]),
         n > 0 => Log[i][n].Term = Log[j][n].Term
  PROVE  \A k \in 1 .. n : Log[i][k] = Log[j][k]
<1> DEFINE Wrong == {d \in Nat : d < n /\ Log[i][n - d].Term # Log[j][n - d].Term}
<1>0. Len(Log[i]) \in Nat /\ Len(Log[j]) \in Nat
  BY Fields, Elements
<1>1. ASSUME NEW k \in 1 .. n, Log[i][k].Term = Log[j][k].Term
      PROVE  /\ Log[i][k] = Log[j][k]
             /\ k > 1 => Log[i][k - 1].Term = Log[j][k - 1].Term
  <2> DEFINE x == LinkAt(0, -1, Log[i], k)
             y == LinkAt(0, -1, Log[j], k)
  <2>1. k \in 1 .. Len(Log[i]) /\ k \in 1 .. Len(Log[j])
    BY <1>0
  <2>2. x \in Links /\ y \in Links
    BY <2>1, LinkOf
  <2>3. /\ x[1] = 0 + k /\ y[1] = 0 + k /\ x[3] = Log[i][k] /\ y[3] = Log[j][k]
        /\ x[2] = IF k = 1 THEN -1 ELSE Log[i][k - 1].Term
        /\ y[2] = IF k = 1 THEN -1 ELSE Log[j][k - 1].Term
    BY DEF LinkAt
  <2> HIDE DEF x, y
  <2>4. x = y
    BY <1>1, <2>2, <2>3 DEF LogInv, LinksUnique
  <2> QED BY <2>3, <2>4
<1>2. Wrong = {}
  <2> SUFFICES ASSUME Wrong # {} PROVE FALSE
    OBVIOUS
  <2>1. PICK d \in Wrong : \A e \in Wrong : d <= e
    BY Least
  <2>2. d \in Nat /\ d < n /\ Log[i][n - d].Term # Log[j][n - d].Term
    OBVIOUS
  <2>3. d # 0
    BY <2>2
  <2>4. d - 1 \in Nat /\ d - 1 < n /\ d - 1 < d
    BY <2>2, <2>3
  <2>5. d - 1 \notin Wrong
    <3>1. ~ (d <= d - 1)
      BY <2>4
    <3> HIDE DEF Wrong
    <3> QED BY <2>1, <3>1
  <2>6. Log[i][n - (d - 1)].Term = Log[j][n - (d - 1)].Term
    BY <2>4, <2>5
  <2>7. n - (d - 1) \in 1 .. n /\ n - (d - 1) > 1 /\ n - (d - 1) - 1 = n - d
    <3>1. \A a, b \in Nat : a < b /\ a # 0 =>
            b - (a - 1) \in 1 .. b /\ b - (a - 1) > 1 /\ b - (a - 1) - 1 = b - a
      OBVIOUS
    <3> HIDE DEF Wrong
    <3> QED BY <2>2, <2>3, <3>1
  <2>8. Log[i][n - (d - 1) - 1].Term = Log[j][n - (d - 1) - 1].Term
    BY <1>1, <2>6, <2>7
  <2> QED BY <2>2, <2>7, <2>8
<1>3. ASSUME NEW k \in 1 .. n PROVE Log[i][k].Term = Log[j][k].Term
  <2>1. n - k \in Nat /\ n - k < n /\ n - (n - k) = k
    OBVIOUS
  <2> QED BY <1>2, <2>1
<1> QED BY <1>1, <1>3

LEMMA SamePrefix ==
  ASSUME NEW s \in Seq(LogEntry), NEW t \in Seq(LogEntry), NEW n \in Nat,
         n <= Len(s), n <= Len(t), \A k \in 1 .. n : s[k] = t[k]
  PROVE  SubSeq(s, 1, n) = SubSeq(t, 1, n)
<1>1. ASSUME NEW u \in Seq(LogEntry), n <= Len(u)
      PROVE  /\ SubSeq(u, 1, n) \in Seq(LogEntry) /\ Len(SubSeq(u, 1, n)) = n
             /\ \A k \in 1 .. n : SubSeq(u, 1, n)[k] = u[k]
  <2>1. \A k \in 1 .. n : u[k] \in LogEntry
    BY <1>1, Elements
  <2> QED BY <1>1, <2>1, SubSeqProperties
<1> QED BY <1>1, SeqEqual

(* The check of prevLogIndex and prevLogTerm in HandleLeaderHeartbeat is    *)
(* enough: logs that have an entry of one term at one position are equal up *)
(* to there.                                                                *)
THEOREM LogsMatch ==
  ASSUME ~MayRestart, ~Interleaved
  PROVE  Spec => []LogMatching
<1>1. TypeOK /\ LogInv => LogMatching
  <2> SUFFICES ASSUME TypeOK, LogInv, NEW i \in Node, NEW j \in Node,
                      NEW n \in 1 .. Min({Len(Log[i]), Len(Log[j])}),
                      Log[i][n].Term = Log[j][n].Term
               PROVE  SubSeq(Log[i], 1, n) = SubSeq(Log[j], 1, n)
    BY DEF LogMatching
  <2>1. /\ Log[i] \in Seq(LogEntry) /\ Log[j] \in Seq(LogEntry)
        /\ Len(Log[i]) \in Nat /\ Len(Log[j]) \in Nat
    BY Fields, Elements
  <2>2. n \in Nat /\ n > 0 /\ n <= Len(Log[i]) /\ n <= Len(Log[j])
    <3> DEFINE least == Min({Len(Log[i]), Len(Log[j])})
    <3>1. \E a \in {Len(Log[i]), Len(Log[j])} : \A b \in {Len(Log[i]), Len(Log[j])} : a <= b
      BY <2>1
    <3>2. least \in {Len(Log[i]), Len(Log[j])} /\ \A b \in {Len(Log[i]), Len(Log[j])} : least <= b
      BY <3>1 DEF Min
    <3> HIDE DEF least
    <3>3. n \in 1 .. least
      BY DEF least
    <3> QED BY <2>1, <3>2, <3>3
  <2>3. \A k \in 1 .. n : Log[i][k] = Log[j][k]
    BY <2>2, PrefixesAgree
  <2> QED BY <2>1, <2>2, <2>3, SamePrefix
<1> QED BY <1>1, LogInvariant, PTL

(* What a leader of a term sends is of that term or older: the comment of   *)
(* sendHeartbeats is right as long as no handler of the node runs between   *)
(* two messages of a round.                                                 *)
THEOREM HeartbeatsAreInTime ==
  ASSUME ~MayRestart, ~Interleaved
  PROVE  Spec => []HeartbeatsAreTheLeaders
<1>1. TypeOK /\ LogInv => HeartbeatsAreTheLeaders
  <2> SUFFICES ASSUME TypeOK, LogInv, NEW m \in appendReqs, NEW n \in 1 .. Len(m.entries)
               PROVE  m.entries[n].Term <= m.term
    BY DEF HeartbeatsAreTheLeaders
  <2> DEFINE first == IF m.prevIndex = -1 THEN -1 ELSE m.prevTerm
             x == LinkAt(m.prevIndex + 1, first, m.entries, n)
  <2>1. x \in MsgLinks(m)
    BY DEF MsgLinks, SeqLinks
  <2>2. x[3] = m.entries[n]
    BY DEF LinkAt
  <2> QED BY <2>1, <2>2 DEF LogInv, LinksInTime
<1> QED BY <1>1, LogInvariant, PTL

-----------------------------------------------------------------------------
(* What heartbeats bring, and what their answers say *)

(* Heartbeat m, if it is accepted, makes its receiver's log its sender's.   *)
Brings(m) ==
  LET i == m.from
      k == m.prevIndex + 1
  IN
  /\ k + Len(m.entries) <= Len(Log[i])
  /\ k > 0 => m.prevTerm = Log[i][k].Term
  /\ \A n \in 1 .. Len(m.entries) : m.entries[n] = Log[i][k + n]

(* It does so as long as its sender is in the term it was sent in, which    *)
(* the sender then leads.  A prevLogTerm of -1 is that of no entry.         *)
RequestsHeld ==
  \A m \in appendReqs :
    \/ CurrentTerm[m.from] > m.term
    \/ /\ CurrentTerm[m.from] = m.term /\ State[m.from] = "Leader"
       /\ (m.prevIndex = -1 \/ m.prevTerm # -1) => Brings(m)

Extends(i) == /\ Len(Log[i]) <= Len(Log'[i])
              /\ \A n \in 1 .. Len(Log[i]) : Log'[i][n] = Log[i][n]

(* A proposal only adds to a log. *)
LEMMA ProposalExtends ==
  ASSUME TypeOK, NEW j \in Node, NEW op \in Op, ProposeState(j, op), NEW i \in Node
  PROVE  Extends(i)
<1>1. /\ Log \in [Node -> Seq(LogEntry)] /\ CurrentTerm \in [Node -> Nat]
      /\ Log[i] \in Seq(LogEntry) /\ Len(Log[i]) \in Nat
      /\ SubSeq(Log[i], 1, Len(Log[i])) = Log[i]
  BY SubSeqFull, LenProperties, Fields
<1>2. CASE i # j
  <2>1. Log'[i] = Log[i]
    BY <1>1, <1>2 DEF ProposeState, LogWrite
  <2> QED BY <1>1, <2>1 DEF Extends
<1>3. CASE i = j
  <2> DEFINE e == [Term |-> CurrentTerm[j], Op |-> op]
  <2>1. e \in LogEntry /\ <<e>> \in Seq(LogEntry) /\ Len(<<e>>) = 1
    BY <1>1 DEF LogEntry
  <2>2. Log' = Set(Log, j, SubSeq(Log[j], 1, Len(Log[j])) \o <<e>>)
    BY DEF ProposeState, LogWrite
  <2> HIDE DEF e
  <2>3. Log'[i] = Log[i] \o <<e>>
    BY <1>1, <1>3, <2>2
  <2>4. /\ Len(Log'[i]) = Len(Log[i]) + 1
        /\ \A n \in 1 .. Len(Log[i]) : Log'[i][n] = Log[i][n]
    BY <1>1, <2>1, <2>3, ConcatProperties
  <2> QED BY <1>1, <2>4 DEF Extends
<1> QED BY <1>2, <1>3

(* A leader's log grows as long as it leads, and so does a follower's, but  *)
(* for the heartbeats it accepts.                                           *)
LEMMA LeadersExtend ==
  ASSUME ~MayRestart, TypeOK, [Next]_vars, NEW i \in Node
  PROVE  \/ Extends(i)
         \/ \E m \in appendReqs : m.to = i /\ AcceptEntries(m)
<1>1. Log \in [Node -> Seq(LogEntry)] /\ Len(Log[i]) \in Nat
  BY Fields, Elements
<1>2. CASE Log'[i] = Log[i]
  BY <1>1, <1>2 DEF Extends
<1>3. ASSUME NEW j \in Node, NEW op \in Op, ProposeState(j, op) PROVE Extends(i)
  BY <1>3, ProposalExtends
<1>4. ASSUME NEW m \in appendReqs, AcceptEntries(m), m.to # i PROVE Log'[i] = Log[i]
  BY <1>1, <1>4, RequestFields DEF AcceptEntries, LogWrite
<1> QED BY LogSteps, <1>2, <1>3, <1>4

(* What a heartbeat does to the messages: it is answered. *)

(* What HandleLeaderHeartbeat answers *)
LEMMA Answers ==
  ASSUME TypeOK, NEW m \in appendReqs, HandleLeaderHeartbeat(m)
  PROVE  \E r : /\ appendReplies' = appendReplies \cup {r}
                /\ r.from = m.to /\ r.to = m.from
                /\ r.success => /\ AcceptEntries(m) /\ r.term = m.term
                                /\ r.match = m.prevIndex + Len(m.entries)
<1>1. ASSUME NEW t, NEW s, NEW n, AppendReplyTo(m, t, s, n),
             s => AcceptEntries(m) /\ t = m.term /\ n = m.prevIndex + Len(m.entries)
      PROVE  \E r : /\ appendReplies' = appendReplies \cup {r}
                    /\ r.from = m.to /\ r.to = m.from
                    /\ r.success => /\ AcceptEntries(m) /\ r.term = m.term
                                    /\ r.match = m.prevIndex + Len(m.entries)
  <2> DEFINE r == [from |-> m.to, to |-> m.from, term |-> t, success |-> s, match |-> n]
  <2>1. r.from = m.to /\ r.to = m.from /\ r.success = s /\ r.match = n /\ r.term = t
    OBVIOUS
  <2>2. appendReplies' = appendReplies \cup {r}
    BY <1>1 DEF AppendReplyTo
  <2> HIDE DEF r
  <2> QED BY <1>1, <2>1, <2>2
<1>2. \/ \E t : AppendReplyTo(m, t, FALSE, -1)
      \/ AcceptEntries(m) /\ AppendReplyTo(m, m.term, TRUE, m.prevIndex + Len(m.entries))
  BY DEF HandleLeaderHeartbeat, RejectStaleLeader, RejectMismatch, AcceptEntries
<1> QED BY <1>1, <1>2

(* A new reply answers a heartbeat that is handled. *)
LEMMA Replies ==
  ASSUME ~MayRestart, TypeOK, [Next]_vars, NEW r \in appendReplies' \ appendReplies
  PROVE  \E m \in appendReqs :
           /\ r.from = m.to /\ r.to = m.from
           /\ r.success => /\ AcceptEntries(m) /\ r.term = m.term
                        /\ r.match = m.prevIndex + Len(m.entries)
<1>1. ASSUME NEW i \in Node, \/ Timers(i) \/ Elections(i) \/ Heartbeats(i) \/ Stop(i)
      PROVE  appendReplies' = appendReplies
  BY <1>1 DEF Timers, FireElectionTimer, FireHeartbeatTimer, Elections, StartElection,
       SkipElection, RearmElectionTimer, Heartbeats, BeginRound, IdleRound, Stop
<1>2. ASSUME NEW i \in Node PROVE ~ Restart(i)
  BY DEF TypeOK, GoroutinesTyped, Restart
<1>3. ASSUME NEW i \in Node, NEW op \in Op, ProposeState(i, op)
      PROVE  appendReplies' = appendReplies
  BY <1>3 DEF ProposeState
<1>4. ASSUME NEW i \in Node, NEW rd \in rounds[i], NEW p \in rd.todo, SendHeartbeat(i, rd, p)
      PROVE  appendReplies' = appendReplies
  BY <1>4 DEF SendHeartbeat
<1>5. ASSUME NEW m \in voteReqs, HandleVoteRequest(m) PROVE appendReplies' = appendReplies
  BY <1>5 DEF HandleVoteRequest, GrantVote, DenyVote
<1>6. ASSUME NEW m \in voteReplies, HandleVoteReply(m) PROVE appendReplies' = appendReplies
  BY <1>6 DEF HandleVoteReply, VoteReplyNewerTerm, CountVote, WinElection, IgnoreVoteReply
<1>7. ASSUME NEW m \in appendReplies, HandleAppendReply(m)
      PROVE  appendReplies' \subseteq appendReplies
  BY <1>7 DEF HandleAppendReply, IgnoreAppendReply, AppendReplyNewerTerm, RecordMatch, BackOff
<1>8. CASE UNCHANGED vars
  BY <1>8 DEF vars
<1>9. ASSUME NEW m \in appendReqs, HandleLeaderHeartbeat(m)
      PROVE  \E q \in appendReqs :
               /\ r.from = q.to /\ r.to = q.from
               /\ r.success => /\ AcceptEntries(q) /\ r.term = q.term
                            /\ r.match = q.prevIndex + Len(q.entries)
  BY <1>9, Answers
<1>10. CASE Next
  BY Zenon, <1>1, <1>2, <1>3, <1>4, <1>5, <1>6, <1>7, <1>9, <1>10 DEF Next
<1> QED BY <1>8, <1>10

(* A heartbeat as it is sent: what SendHeartbeat puts together of the round *)
(* and nextIndex brings what the log of its leader holds.                   *)
LEMMA SentBrings ==
  ASSUME TypeOK, RoundsCurrent, NEW i \in Node, NEW rd \in rounds[i], NEW p \in rd.todo
  PROVE  LET m == HeartbeatFor(i, rd, p) IN
         /\ m.from = i /\ m.term = CurrentTerm[i] /\ State[i] = "Leader"
         /\ (m.prevIndex = -1 \/ m.prevTerm # -1) => Brings(m)
<1> DEFINE m == HeartbeatFor(i, rd, p)
           k == nextIndex[i][p]
           log == Log[i]
<1>1. /\ p \in Node /\ State[i] = "Leader" /\ rd.term = CurrentTerm[i] /\ rd.logs = log
      /\ k \in Nat /\ log \in Seq(LogEntry) /\ Len(log) \in Nat
  BY Fields, Elements, RoundParts DEF RoundsCurrent
<1>2. /\ m.from = i /\ m.term = CurrentTerm[i] /\ m.prevIndex = k - 1
      /\ m.prevTerm = IF k - 1 \in 0 .. LastIndex(log) THEN TermAt(log, k - 1) ELSE -1
      /\ m.entries = SubSeq(log, k + 1, Len(log))
  BY <1>1 DEF HeartbeatFor
<1> HIDE DEF m, k, log
<1>3. ASSUME m.prevIndex = -1 \/ m.prevTerm # -1
      PROVE  /\ k <= Len(log) /\ (k > 0 => m.prevTerm = log[k].Term)
             /\ Len(m.entries) = Len(log) - k
             /\ \A n \in 1 .. Len(m.entries) : m.entries[n] = log[k + n]
  <2>1. k = 0 \/ k - 1 \in 0 .. LastIndex(log)
    BY <1>1, <1>2, <1>3
  <2>2. k <= Len(log)
    BY <1>1, <2>1 DEF LastIndex
  <2>3. k > 0 => k - 1 \in 0 .. LastIndex(log) /\ k - 1 + 1 = k
    BY <1>1, <2>2 DEF LastIndex
  <2>4. k > 0 => m.prevTerm = log[k].Term
    BY <1>2, <2>3 DEF TermAt
  <2>5. \A n \in k + 1 .. Len(log) : log[n] \in LogEntry
    BY <1>1, Elements
  <2>6. /\ Len(m.entries) = IF k + 1 <= Len(log) THEN Len(log) - k ELSE 0
        /\ \A n \in 1 .. Len(log) - k : m.entries[n] = log[k + n]
    BY <1>1, <1>2, <2>5, SubSeqProperties
  <2>7. Len(m.entries) = Len(log) - k
    BY <1>1, <2>2, <2>6
  <2> QED BY <2>2, <2>4, <2>6, <2>7
<1>4. m.prevIndex + 1 = k
  BY <1>1, <1>2
<1>5. (m.prevIndex = -1 \/ m.prevTerm # -1) => Brings(m)
  <2> SUFFICES ASSUME m.prevIndex = -1 \/ m.prevTerm # -1 PROVE Brings(m)
    OBVIOUS
  <2>1. k + Len(m.entries) <= Len(log)
    BY <1>1, <1>3
  <2> QED BY <1>2, <1>3, <1>4, <2>1 DEF Brings, log
<1> QED BY <1>1, <1>2, <1>5 DEF m

(* It goes on doing so while its sender only adds to its log. *)
LEMMA BringsStays ==
  ASSUME TypeOK, TypeOK', NEW m \in appendReqs, Brings(m), Extends(m.from)
  PROVE  Brings(m)'
<1> DEFINE i == m.from
           k == m.prevIndex + 1
<1>1. /\ Len(Log[i]) \in Nat /\ Len(Log'[i]) \in Nat /\ Len(m.entries) \in Nat
      /\ k \in Nat
  <2>1. i \in Node
    BY RequestFields
  <2>2. Log[i] \in Seq(LogEntry) /\ Log'[i] \in Seq(LogEntry)
    BY <2>1 DEF TypeOK, LogsTyped
  <2>3. m.prevIndex \in Nat \cup {-1} /\ m.entries \in Seq(LogEntry)
    BY Fields
  <2>4. k \in Nat
    BY <2>3
  <2> QED BY <2>2, <2>3, <2>4, LenProperties
<1>2. /\ k + Len(m.entries) <= Len(Log[i])
      /\ k > 0 => m.prevTerm = Log[i][k].Term
      /\ \A n \in 1 .. Len(m.entries) : m.entries[n] = Log[i][k + n]
  BY DEF Brings
<1>3. /\ Len(Log[i]) <= Len(Log'[i])
      /\ \A n \in 1 .. Len(Log[i]) : Log'[i][n] = Log[i][n]
  BY DEF Extends
<1> HIDE DEF i, k
<1>4. k + Len(m.entries) <= Len(Log'[i])
  BY <1>1, <1>2, <1>3
<1>5. k > 0 => Log'[i][k] = Log[i][k]
  BY <1>1, <1>2, <1>3
<1>6. \A n \in 1 .. Len(m.entries) : Log'[i][k + n] = Log[i][k + n]
  <2> SUFFICES ASSUME NEW n \in 1 .. Len(m.entries) PROVE Log'[i][k + n] = Log[i][k + n]
    OBVIOUS
  <2>1. k + n \in 1 .. Len(Log[i])
    BY <1>1, <1>2
  <2> QED BY <1>3, <2>1
<1> QED BY <1>2, <1>4, <1>5, <1>6 DEF Brings, i, k

LEMMA RequestsStep ==
  ASSUME ~MayRestart, TypeOK, TypeOK', IInv, HeartbeatsOfLeaders, RoundsCurrent,
         RequestsHeld, [Next]_vars
  PROVE  RequestsHeld'
<1> SUFFICES ASSUME NEW m \in appendReqs'
             PROVE  \/ CurrentTerm'[m.from] > m.term
                    \/ /\ CurrentTerm'[m.from] = m.term /\ State'[m.from] = "Leader"
                       /\ (m.prevIndex = -1 \/ m.prevTerm # -1) => Brings(m)'
  BY DEF RequestsHeld, Brings
<1> DEFINE i == m.from
<1>1. CASE m \notin appendReqs
  <2>1. PICK j \in Node : \E rd \in rounds[j] : \E p \in rd.todo :
               SendHeartbeat(j, rd, p) /\ m = HeartbeatFor(j, rd, p)
    BY <1>1, Senders
  <2>2. PICK rd \in rounds[j] : \E p \in rd.todo :
               SendHeartbeat(j, rd, p) /\ m = HeartbeatFor(j, rd, p)
    BY <2>1
  <2>3. PICK p \in rd.todo : SendHeartbeat(j, rd, p) /\ m = HeartbeatFor(j, rd, p)
    BY <2>2
  <2>4. /\ m.from = j /\ m.term = CurrentTerm[j] /\ State[j] = "Leader"
        /\ (m.prevIndex = -1 \/ m.prevTerm # -1) => Brings(m)
    BY <2>3, SentBrings
  <2>5. UNCHANGED <<Log, CurrentTerm, State>>
    BY <2>3 DEF SendHeartbeat
  <2> QED BY <2>4, <2>5 DEF Brings
<1>2. CASE m \in appendReqs
  <2>1. /\ i \in Node /\ CurrentTerm[i] \in Nat /\ CurrentTerm'[i] \in Nat /\ m.term \in Nat
        /\ State \in [Node -> {"Follower", "Candidate", "Leader"}]
    BY <1>2, RequestFields, Fields DEF TypeOK, TermsTyped
  <2>2. CurrentTerm'[i] >= CurrentTerm[i]
    BY <2>1, TermsRise
  <2>3. CASE CurrentTerm[i] > m.term
    BY <2>1, <2>2, <2>3
  <2>4. CASE CurrentTerm'[i] > CurrentTerm[i] /\ CurrentTerm[i] = m.term
    BY <2>1, <2>4
  <2>5. CASE ~ (CurrentTerm[i] > m.term) /\ ~ (CurrentTerm'[i] > CurrentTerm[i])
    <3>1. /\ CurrentTerm[i] = m.term /\ State[i] = "Leader"
          /\ (m.prevIndex = -1 \/ m.prevTerm # -1) => Brings(m)
      BY <1>2, <2>5 DEF RequestsHeld
    <3>2. State'[i] = "Leader" /\ CurrentTerm'[i] = m.term
      BY <2>1, <2>5, <3>1, TermsRise
    <3>3. Extends(i)
      <4>1. ASSUME NEW q \in appendReqs, q.to = i, AcceptEntries(q) PROVE FALSE
        <5>1. State' = Set(State, i, "Follower")
          BY <4>1 DEF AcceptEntries, FollowLeader
        <5> QED BY <2>1, <3>2, <5>1
      <4> QED BY <2>1, <4>1, LeadersExtend
    <3> QED BY <1>2, <3>1, <3>2, <3>3, BringsStays
  <2>6. CurrentTerm[i] > m.term \/ CurrentTerm[i] = m.term
    BY <1>2 DEF RequestsHeld
  <2> QED BY <2>1, <2>3, <2>4, <2>5, <2>6
<1> QED BY <1>1, <1>2

(* Who accepts a heartbeat of a leader has the leader's log up to the last  *)
(* entry it brings: it had what comes before (LogInv) and takes the rest.   *)
LEMMA AcceptedAgree ==
  ASSUME TypeOK, LogInv, RequestsHeld, NEW m \in appendReqs, AcceptEntries(m),
         CurrentTerm[m.from] = m.term, m.from # m.to
  PROVE  Agree(m.to, m.from, m.prevIndex + Len(m.entries) + 1)'
<1> DEFINE i == m.from
           p == m.to
           k == m.prevIndex + 1
           new == m.entries
           top == k + Len(new)
<1>0. ~ (CurrentTerm[i] > m.term)
  BY Fields, RequestFields
<1>1. /\ i \in Node /\ p \in Node /\ m.prevIndex \in Nat \cup {-1} /\ m.prevTerm \in Nat \cup {-1}
      /\ Log[i] \in Seq(LogEntry) /\ Log[p] \in Seq(LogEntry) /\ new \in Seq(LogEntry)
      /\ Len(Log[i]) \in Nat /\ Len(Log[p]) \in Nat /\ Len(new) \in Nat /\ k \in Nat
      /\ Log \in [Node -> Seq(LogEntry)] /\ CurrentTerm \in [Node -> Nat]
      /\ \A n \in 1 .. Len(Log[p]) : Log[p][n].Term \in Nat
  <2>1. /\ i \in Node /\ p \in Node
        /\ m.prevIndex \in Nat \cup {-1} /\ m.prevTerm \in Nat \cup {-1}
        /\ new \in Seq(LogEntry) /\ Log \in [Node -> Seq(LogEntry)]
        /\ CurrentTerm \in [Node -> Nat]
    BY Fields, RequestFields
  <2>2. Log[i] \in Seq(LogEntry) /\ Log[p] \in Seq(LogEntry)
    BY <2>1
  <2> HIDE DEF i, p, new
  <2>4. /\ Len(Log[i]) \in Nat /\ Len(Log[p]) \in Nat /\ Len(new) \in Nat
        /\ \A n \in 1 .. Len(Log[p]) : Log[p][n].Term \in Nat
    BY <2>1, <2>2, Elements
  <2> QED BY <2>1, <2>2, <2>4
<1>2. k <= Len(Log[p]) /\ (k > 0 => Log[p][k].Term = m.prevTerm)
  BY <1>1 DEF AcceptEntries, HasPrevious, LastIndex, TermAt
<1>3. m.prevIndex = -1 \/ m.prevTerm # -1
  BY <1>1, <1>2
<1>4. Brings(m)
  BY <1>3, <1>0 DEF RequestsHeld
<1>5. /\ top <= Len(Log[i])
      /\ k > 0 => Log[i][k].Term = Log[p][k].Term
      /\ \A n \in 1 .. Len(new) : new[n] = Log[i][k + n]
  BY <1>1, <1>2, <1>4 DEF Brings
<1>6. \A n \in 1 .. k : Log[p][n] = Log[i][n]
  <2>1. k <= Len(Log[i])
    BY <1>1, <1>5
  <2> HIDE DEF i, p, k
  <2> QED BY <1>1, <1>2, <1>5, <2>1, PrefixesAgree
<1>7. Log' = Set(Log, p, SubSeq(Log[p], 1, k) \o new)
  BY DEF AcceptEntries, LogWrite
<1> DEFINE cut == SubSeq(Log[p], 1, k)
           u == cut \o new
<1>8. /\ Len(u) = top
      /\ \A n \in 1 .. top : u[n] = Log[i][n]
  <2>1. \A n \in 1 .. k : Log[p][n] \in LogEntry
    BY <1>1, <1>2, Elements
  <2>2. cut \in Seq(LogEntry) /\ Len(cut) = k /\ \A n \in 1 .. k : cut[n] = Log[p][n]
    BY <1>1, <1>2, <2>1, SubSeqProperties
  <2> HIDE DEF cut, new, k
  <2>3. /\ Len(u) = k + Len(new)
        /\ \A n \in 1 .. k + Len(new) : u[n] = IF n <= k THEN cut[n] ELSE new[n - k]
    BY <1>1, <2>2, ConcatProperties
  <2> HIDE DEF u
  <2>4. ASSUME NEW n \in 1 .. top PROVE u[n] = Log[i][n]
    <3>1. CASE n <= k
      <4>1. n \in 1 .. k
        BY <1>1, <3>1
      <4>2. u[n] = cut[n]
        BY <1>1, <2>3, <3>1
      <4> QED BY <1>6, <2>2, <4>1, <4>2
    <3>2. CASE n > k
      <4>1. n - k \in 1 .. Len(new) /\ k + (n - k) = n
        BY <1>1, <3>2
      <4>2. new[n - k] = Log[i][k + (n - k)]
        BY <1>5, <4>1
      <4>3. u[n] = new[n - k]
        BY <1>1, <2>3, <3>2
      <4> QED BY <4>1, <4>2, <4>3
    <3> QED BY <1>1, <3>1, <3>2
  <2> QED BY <2>3, <2>4
<1> HIDE DEF u, cut
<1>9. Log'[p] = u /\ Log'[i] = Log[i]
  BY <1>1, <1>7 DEF u, cut
<1>10. top = m.prevIndex + Len(m.entries) + 1 /\ top \in Nat
  BY <1>1
<1>11. u \in Seq(LogEntry)
  <2>1. \A n \in 1 .. k : Log[p][n] \in LogEntry
    BY <1>1, <1>2, Elements
  <2>2. cut \in Seq(LogEntry)
    BY <1>1, <1>2, <2>1, SubSeqProperties DEF cut
  <2> HIDE DEF new, k
  <2> QED BY <1>1, <2>2, ConcatProperties DEF u
<1> HIDE DEF i, p, top
<1>12. SubSeq(u, 1, top) = SubSeq(Log[i], 1, top)
  BY <1>1, <1>5, <1>8, <1>10, <1>11, SamePrefix
<1>13. top <= Len(Log'[p]) /\ top <= Len(Log'[i])
  BY <1>1, <1>5, <1>8, <1>9, <1>10
<1>14. Agree(p, i, top)'
  BY <1>9, <1>12, <1>13 DEF Agree
<1> QED BY <1>10, <1>14 DEF i, p

LEMMA RequestsInvariant ==
  ASSUME ~MayRestart, ~Interleaved
  PROVE  Spec => [](TypeOK /\ HeartbeatsOfLeaders /\ LogInv /\ RequestsHeld)
<1>1. Init => RequestsHeld
  BY DEF Init, RequestsHeld
<1>2. /\ TypeOK /\ TypeOK' /\ IInv /\ HeartbeatsOfLeaders /\ RoundsCurrent
      /\ RequestsHeld /\ [Next]_vars
      => RequestsHeld'
  <2> SUFFICES ASSUME TypeOK, TypeOK', IInv, HeartbeatsOfLeaders, RoundsCurrent,
                      RequestsHeld, [Next]_vars
               PROVE  RequestsHeld'
    OBVIOUS
  <2> QED BY RequestsStep
<1> QED BY <1>1, <1>2, LeadershipInvariant, LogInvariant, PTL DEF Spec

(* Who answers a heartbeat with success has the log of the leader up to the *)
(* index it answers, whatever heartbeats and answers are under way besides, *)
(* of this leader and of others, as long as the leader is in the term of    *)
(* the heartbeat: HandleAppendReply records in matchIndex what was so.      *)
THEOREM SuccessesAreTrue ==
  ASSUME ~MayRestart, ~Interleaved
  PROVE  Spec => AnswersAreTrue
<1>1. ASSUME TypeOK, HeartbeatsOfLeaders, LogInv, RequestsHeld, [Next]_vars,
             NEW r \in appendReplies' \ appendReplies,
             r.success, State'[r.to] = "Leader", CurrentTerm'[r.to] = r.term
      PROVE  Agree(r.from, r.to, r.match + 1)'
  <2>1. PICK m \in appendReqs :
          /\ r.from = m.to /\ r.to = m.from
          /\ AcceptEntries(m) /\ r.term = m.term /\ r.match = m.prevIndex + Len(m.entries)
    BY <1>1, Replies
  <2>2. m.from # m.to
    BY <1>1 DEF HeartbeatsOfLeaders
  <2>3. CurrentTerm[m.from] = m.term
    <3>1. CurrentTerm' = Set(CurrentTerm, m.to, m.term)
      BY <2>1 DEF AcceptEntries, FollowLeader
    <3>2. CurrentTerm'[m.from] = CurrentTerm[m.from]
      BY <1>1, <2>2, <3>1, RequestFields, Fields
    <3> QED BY <1>1, <2>1, <3>2
  <2>4. Agree(m.to, m.from, m.prevIndex + Len(m.entries) + 1)'
    BY <1>1, <2>1, <2>2, <2>3, AcceptedAgree
  <2> QED BY <2>1, <2>4
<1>2. TypeOK /\ HeartbeatsOfLeaders /\ LogInv /\ RequestsHeld /\ [Next]_vars
        => [\A r \in appendReplies' \ appendReplies :
              r.success /\ State'[r.to] = "Leader" /\ CurrentTerm'[r.to] = r.term
                => Agree(r.from, r.to, r.match + 1)']_vars
  BY <1>1
<1> QED BY <1>2, RequestsInvariant, PTL DEF Spec, AnswersAreTrue
=============================================================================
