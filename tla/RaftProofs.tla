----------------------------- MODULE RaftProofs -----------------------------
(* Proofs about Raft, for any finite set of nodes, any operations and any  *)
(* values of the bounds: the types and the timers; with no restart, that   *)
(* no two nodes lead in one term, that elections implement Leadership, and *)
(* that a leader only appends to its log and only steps down for a newer   *)
(* term.                                                                   *)
EXTENDS Raft, SequenceTheorems, FiniteSetTheorems, TLAPS

USE DEF Set, Term, termVars, logVars, leaderVars, timerVars, beatVars,
        voteMsgs, appendMsgs, envVars

-----------------------------------------------------------------------------
(* Types *)

(* What a step leaves alone keeps its type. *)
LEMMA Kept ==
  /\ TermsTyped /\ UNCHANGED termVars => TermsTyped'
  /\ LogsTyped /\ UNCHANGED <<logVars, leaderVars>> => LogsTyped'
  /\ FlagsTyped /\ UNCHANGED <<electionTimer, heartbeatTimer, stopped>> => FlagsTyped'
  /\ GoroutinesTyped /\ UNCHANGED <<firing, rearming, beating, rounds, outages>>
       => GoroutinesTyped'
  /\ VotesTyped /\ UNCHANGED voteMsgs => VotesTyped'
  /\ AppendsTyped /\ UNCHANGED appendMsgs => AppendsTyped'
BY DEF TermsTyped, LogsTyped, FlagsTyped, GoroutinesTyped, VotesTyped, AppendsTyped

LEMMA VoteReplyType ==
  \A i, j \in Node, t \in Nat, g \in BOOLEAN :
    [from |-> i, to |-> j, term |-> t, granted |-> g] \in VoteReply
BY Zenon DEF VoteReply

LEMMA AppendReplyType ==
  \A i, j \in Node, t \in Nat, s \in BOOLEAN, n \in Index :
    [from |-> i, to |-> j, term |-> t, success |-> s, match |-> n] \in AppendReply
BY Zenon DEF AppendReply

LEMMA RoundType ==
  \A t \in Nat, c \in Index, l \in Seq(LogEntry), b \in BOOLEAN, d \in SUBSET Node :
    [term |-> t, commit |-> c, logs |-> l, shared |-> b, todo |-> d] \in Round
BY Zenon DEF Round

LEMMA ElectionTypes ==
  ASSUME TypeOK, NEW i \in Node, Timers(i) \/ Elections(i)
  PROVE  TypeOK'
<1> USE Kept DEF TypeOK
<1>1. CASE FireElectionTimer(i)
  <2>1. FlagsTyped'
    BY <1>1 DEF FireElectionTimer, FlagsTyped
  <2>2. GoroutinesTyped'
    BY <1>1 DEF FireElectionTimer, GoroutinesTyped
  <2> QED BY <1>1, <2>1, <2>2 DEF FireElectionTimer
<1>2. CASE FireHeartbeatTimer(i)
  <2>1. FlagsTyped'
    BY <1>2 DEF FireHeartbeatTimer, FlagsTyped
  <2>2. GoroutinesTyped'
    BY <1>2 DEF FireHeartbeatTimer, GoroutinesTyped
  <2> QED BY <1>2, <2>1, <2>2 DEF FireHeartbeatTimer
<1>3. CASE StartElection(i)
  <2>1. TermsTyped'
    BY <1>3 DEF StartElection, TermsTyped
  <2>2. VotesTyped'
    BY <1>3 DEF StartElection, TermsTyped, VotesTyped, VoteReq, Peers
  <2>3. GoroutinesTyped'
    BY <1>3 DEF StartElection, GoroutinesTyped
  <2> QED BY <1>3, <2>1, <2>2, <2>3 DEF StartElection
<1>4. CASE SkipElection(i)
  <2>1. GoroutinesTyped'
    BY <1>4 DEF SkipElection, GoroutinesTyped
  <2> QED BY <1>4, <2>1 DEF SkipElection
<1>5. CASE RearmElectionTimer(i)
  <2>1. FlagsTyped'
    BY <1>5 DEF RearmElectionTimer, ArmElectionTimer, FlagsTyped
  <2>2. GoroutinesTyped'
    BY <1>5 DEF RearmElectionTimer, GoroutinesTyped
  <2> QED BY <1>5, <2>1, <2>2 DEF RearmElectionTimer
<1> QED BY <1>1, <1>2, <1>3, <1>4, <1>5 DEF Timers, Elections

LEMMA VoteRequestTypes ==
  ASSUME TypeOK, NEW m \in voteReqs, HandleVoteRequest(m)
  PROVE  TypeOK'
<1> USE Kept DEF TypeOK
<1>0. m.from \in Node /\ m.to \in Node /\ m.term \in Nat
  BY DEF VotesTyped, VoteReq
<1>1. CASE GrantVote(m)
  <2>1. TermsTyped'
    BY <1>0, <1>1 DEF GrantVote, TermsTyped
  <2>2. FlagsTyped'
    BY <1>0, <1>1 DEF GrantVote, ArmElectionTimer, FlagsTyped
  <2>3. VotesTyped'
    BY <1>0, <1>1, VoteReplyType DEF GrantVote, VotesTyped
  <2> QED BY <1>1, <2>1, <2>2, <2>3 DEF GrantVote
<1>2. CASE DenyVote(m)
  <2>1. VotesTyped'
    <3>1. CurrentTerm[m.to] \in Nat
      BY <1>0 DEF TermsTyped
    <3> QED BY <1>0, <1>2, <3>1, VoteReplyType DEF DenyVote, VotesTyped
  <2> QED BY <1>2, <2>1 DEF DenyVote
<1> QED BY <1>1, <1>2 DEF HandleVoteRequest

LEMMA VoteReplyTypes ==
  ASSUME TypeOK, NEW m \in voteReplies, HandleVoteReply(m)
  PROVE  TypeOK'
<1> USE Kept DEF TypeOK
<1>0. m.from \in Node /\ m.to \in Node /\ m.term \in Nat
  BY DEF VotesTyped, VoteReply
<1>1. voteReplies' = voteReplies \ {m} /\ UNCHANGED voteReqs => VotesTyped'
  BY DEF VotesTyped
<1>2. CASE VoteReplyNewerTerm(m)
  <2>1. FlagsTyped'
    BY <1>0, <1>2 DEF VoteReplyNewerTerm, ArmElectionTimer, FlagsTyped
  <2>2. TermsTyped'
    BY <1>0, <1>2 DEF VoteReplyNewerTerm, StepDown, TermsTyped
  <2> QED BY <1>1, <1>2, <2>1, <2>2 DEF VoteReplyNewerTerm
<1>3. CASE CountVote(m)
  <2>1. TermsTyped'
    BY <1>0, <1>3 DEF CountVote, TermsTyped
  <2> QED BY <1>1, <1>3, <2>1 DEF CountVote
<1>4. CASE WinElection(m)
  <2>1. FlagsTyped'
    BY <1>0, <1>4 DEF WinElection, FlagsTyped
  <2>2. Len(Log[m.to]) \in Nat
    BY <1>0 DEF LogsTyped
  <2>3. LogsTyped'
    BY <1>0, <1>4, <2>2 DEF WinElection, LogsTyped, Index
  <2>4. TermsTyped'
    <3>1. VotesReceived[m.to] + 1 \in Nat
      BY <1>0 DEF TermsTyped
    <3> QED BY <1>0, <1>4, <3>1 DEF WinElection, TermsTyped
  <2>5. GoroutinesTyped'
    BY <1>0, <1>4 DEF WinElection, GoroutinesTyped
  <2> QED BY <1>1, <1>4, <2>1, <2>3, <2>4, <2>5 DEF WinElection
<1>5. CASE IgnoreVoteReply(m)
  BY <1>1, <1>5 DEF IgnoreVoteReply
<1> QED BY <1>2, <1>3, <1>4, <1>5 DEF HandleVoteReply

(* What LogWrite leaves behind: a log, and snapshots as long as before. *)
LEMMA WriteType ==
  ASSUME NEW log \in Seq(LogEntry), NEW k \in 0 .. Len(log), NEW new \in Seq(LogEntry)
  PROVE  SubSeq(log, 1, k) \o new \in Seq(LogEntry)
<1>1. \A n \in 1 .. k : log[n] \in LogEntry
  BY ElementOfSeq, LenProperties
<1>2. SubSeq(log, 1, k) \in Seq(LogEntry)
  BY <1>1, SubSeqProperties, LenProperties
<1> QED BY <1>2, ConcatProperties

LEMMA SeenType ==
  ASSUME NEW l \in Seq(LogEntry), NEW log \in Seq(LogEntry), NEW k \in Nat
  PROVE  [n \in DOMAIN l |-> IF n \in k+1 .. Len(log) THEN log[n] ELSE l[n]]
           \in Seq(LogEntry)
<1> DEFINE f == [n \in DOMAIN l |-> IF n \in k+1 .. Len(log) THEN log[n] ELSE l[n]]
<1>1. /\ Len(l) \in Nat /\ DOMAIN l = 1 .. Len(l) /\ Len(log) \in Nat
      /\ \A n \in 1 .. Len(l) : l[n] \in LogEntry
      /\ \A n \in 1 .. Len(log) : log[n] \in LogEntry
  BY LenProperties, ElementOfSeq
<1>2. f \in [1 .. Len(l) -> LogEntry]
  BY <1>1
<1>3. \A n \in Nat : \A g \in [1 .. n -> LogEntry] : g \in Seq(LogEntry)
  OBVIOUS
<1> QED BY <1>1, <1>2, <1>3

LEMMA RoundParts ==
  ASSUME NEW rd \in Round
  PROVE  /\ rd.logs \in Seq(LogEntry) /\ rd.todo \in SUBSET Node
         /\ rd.term \in Nat /\ rd.commit \in Index
         /\ [rd EXCEPT !.shared = FALSE] \in Round
         /\ \A l \in Seq(LogEntry) : [rd EXCEPT !.logs = l] \in Round
         /\ \A d \in SUBSET Node : [rd EXCEPT !.todo = d] \in Round
<1>1. [rd EXCEPT !.shared = FALSE] \in Round
  BY DEF Round
<1>2. ASSUME NEW l \in Seq(LogEntry) PROVE [rd EXCEPT !.logs = l] \in Round
  BY DEF Round
<1>3. ASSUME NEW d \in SUBSET Node PROVE [rd EXCEPT !.todo = d] \in Round
  BY DEF Round
<1>4. /\ rd.logs \in Seq(LogEntry) /\ rd.todo \in SUBSET Node
      /\ rd.term \in Nat /\ rd.commit \in Index
  BY DEF Round
<1> QED BY <1>1, <1>2, <1>3, <1>4

LEMMA LogWriteTypes ==
  ASSUME NEW i \in Node, Log[i] \in Seq(LogEntry),
         rounds \in [Node -> SUBSET Round], Log \in [Node -> Seq(LogEntry)],
         NEW k \in 0 .. Len(Log[i]), NEW new \in Seq(LogEntry), NEW moved \in BOOLEAN,
         LogWrite(i, k, new, moved)
  PROVE  /\ Log' \in [Node -> Seq(LogEntry)]
         /\ rounds' \in [Node -> SUBSET Round]
<1> DEFINE log == SubSeq(Log[i], 1, k) \o new
<1>1. log \in Seq(LogEntry)
  BY WriteType
<1>2. Log' \in [Node -> Seq(LogEntry)]
  BY <1>1 DEF LogWrite
<1>3. \A rd \in rounds[i] : rd \in Round
  OBVIOUS
<1>4. {[rd EXCEPT !.shared = FALSE] : rd \in rounds[i]} \subseteq Round
  BY <1>3, RoundParts
<1> DEFINE sharing == {rd \in rounds[i] : rd.shared}
           seen(rd) == [n \in DOMAIN rd.logs |->
                          IF n \in k+1 .. Len(log) THEN log[n] ELSE rd.logs[n]]
<1>5. (rounds[i] \ sharing) \cup {[rd EXCEPT !.logs = seen(rd)] : rd \in sharing}
        \subseteq Round
  <2> SUFFICES ASSUME NEW rd \in sharing PROVE [rd EXCEPT !.logs = seen(rd)] \in Round
    BY <1>3
  <2>1. rd.logs \in Seq(LogEntry)
    BY <1>3, RoundParts
  <2>2. k \in Nat
    BY LenProperties
  <2>3. seen(rd) \in Seq(LogEntry)
    <3> HIDE DEF log
    <3> QED BY <1>1, <2>1, <2>2, SeenType
  <2> QED BY <1>3, <2>3, RoundParts
<1>6. rounds' \in [Node -> SUBSET Round]
  <2>1. CASE moved
    BY <1>4, <2>1 DEF LogWrite
  <2>2. CASE ~moved
    BY <1>5, <2>2 DEF LogWrite
  <2> QED BY <2>1, <2>2
<1> QED BY <1>2, <1>6

LEMMA ProposalTypes ==
  ASSUME TypeOK, NEW i \in Node, NEW op \in Op, ProposeState(i, op)
  PROVE  TypeOK'
<1> USE Kept DEF TypeOK
<1> DEFINE e == [Term |-> CurrentTerm[i], Op |-> op]
<1>1. e \in LogEntry /\ <<e>> \in Seq(LogEntry)
  BY DEF TermsTyped, LogEntry
<1>2. Log[i] \in Seq(LogEntry) /\ Len(Log[i]) \in 0 .. Len(Log[i])
  BY LenProperties DEF LogsTyped
<1>3. Log' \in [Node -> Seq(LogEntry)] /\ rounds' \in [Node -> SUBSET Round]
  <2>1. PICK moved \in BOOLEAN : LogWrite(i, Len(Log[i]), <<e>>, moved)
    BY DEF ProposeState
  <2>2. Log \in [Node -> Seq(LogEntry)] /\ rounds \in [Node -> SUBSET Round]
    BY DEF LogsTyped, GoroutinesTyped
  <2> HIDE DEF e, TypeOK
  <2> QED BY <1>1, <1>2, <2>1, <2>2, LogWriteTypes
<1> QED BY <1>3 DEF ProposeState, LogsTyped, GoroutinesTyped

LEMMA RoundTypes ==
  ASSUME TypeOK, NEW i \in Node, Heartbeats(i)
  PROVE  TypeOK'
<1> USE Kept DEF TypeOK
<1>1. CASE BeginRound(i)
  <2>1. /\ CurrentTerm[i] \in Nat /\ CommitIndex[i] \in Index
        /\ Log[i] \in Seq(LogEntry) /\ Peers(i) \in SUBSET Node
    BY DEF TermsTyped, LogsTyped, Peers
  <2> DEFINE new == [term |-> CurrentTerm[i], commit |-> CommitIndex[i],
                     logs |-> Log[i], shared |-> TRUE, todo |-> Peers(i)]
  <2>2. new \in Round
    BY <2>1, RoundType
  <2>3. rounds' = [rounds EXCEPT ![i] = rounds[i] \cup {new}]
    BY <1>1 DEF BeginRound
  <2>4. GoroutinesTyped'
    <3> HIDE DEF new
    <3> QED BY <1>1, <2>2, <2>3 DEF BeginRound, GoroutinesTyped
  <2> QED BY <1>1, <2>4 DEF BeginRound
<1>2. CASE IdleRound(i)
  <2>1. FlagsTyped'
    BY <1>2 DEF IdleRound, FlagsTyped
  <2>2. GoroutinesTyped'
    BY <1>2 DEF IdleRound, GoroutinesTyped
  <2> QED BY <1>2, <2>1, <2>2 DEF IdleRound
<1> QED BY <1>1, <1>2 DEF Heartbeats

LEMMA HeartbeatType ==
  ASSUME TypeOK, NEW i \in Node, NEW rd \in rounds[i], NEW p \in Node
  PROVE  HeartbeatFor(i, rd, p) \in AppendReq
<1> DEFINE nextIdx == nextIndex[i][p]
           entries == SubSeq(rd.logs, nextIdx + 1, Len(rd.logs))
           prevTerm == IF nextIdx - 1 \in 0 .. LastIndex(rd.logs)
                         THEN TermAt(rd.logs, nextIdx - 1) ELSE -1
<1>1. rd \in Round /\ nextIdx \in Nat
  BY DEF TypeOK, GoroutinesTyped, LogsTyped
<1>2. /\ rd.logs \in Seq(LogEntry) /\ rd.term \in Nat /\ rd.commit \in Index
      /\ Len(rd.logs) \in Nat
      /\ \A n \in 1 .. Len(rd.logs) : rd.logs[n] \in LogEntry
  BY <1>1, RoundParts, LenProperties, ElementOfSeq
<1>3. entries \in Seq(LogEntry)
  BY <1>1, <1>2, SubSeqProperties
<1>4. prevTerm \in Index
  <2>1. \A n \in 1 .. Len(rd.logs) : rd.logs[n].Term \in Nat
    BY <1>2 DEF LogEntry
  <2>2. nextIdx - 1 \in 0 .. LastIndex(rd.logs) => nextIdx \in 1 .. Len(rd.logs)
    BY <1>1, <1>2 DEF LastIndex
  <2> QED BY <1>1, <2>1, <2>2 DEF TermAt, Index
<1> QED BY <1>1, <1>2, <1>3, <1>4 DEF HeartbeatFor, AppendReq, Index

LEMMA SendTypes ==
  ASSUME TypeOK, NEW i \in Node, NEW rd \in rounds[i], NEW p \in rd.todo,
         SendHeartbeat(i, rd, p)
  PROVE  TypeOK'
<1> USE Kept DEF TypeOK
<1>1. rd \in Round
  BY DEF GoroutinesTyped
<1>2. p \in Node /\ [rd EXCEPT !.todo = rd.todo \ {p}] \in Round
  BY <1>1, RoundParts
<1>3. AppendsTyped'
  BY <1>2, HeartbeatType DEF SendHeartbeat, AppendsTyped
<1>4. GoroutinesTyped'
  BY <1>2 DEF SendHeartbeat, GoroutinesTyped
<1>5. (heartbeatTimer[i] \/ rd.todo \ {p} = {}) \in BOOLEAN
  BY Zenon
<1>6. FlagsTyped'
  BY <1>5 DEF SendHeartbeat, FlagsTyped
<1> QED BY <1>3, <1>4, <1>6 DEF SendHeartbeat

LEMMA FollowTypes ==
  ASSUME TypeOK, NEW m \in appendReqs, FollowLeader(m)
  PROVE  /\ TermsTyped' /\ FlagsTyped' /\ VotesTyped'
         /\ UNCHANGED <<leaderVars, firing, rearming, beating, outages>>
<1> USE Kept DEF TypeOK
<1>1. m.to \in Node /\ m.term \in Nat
  BY DEF AppendsTyped, AppendReq
<1>2. TermsTyped'
  BY <1>1 DEF FollowLeader, TermsTyped
<1>3. FlagsTyped'
  BY <1>1 DEF FollowLeader, ArmElectionTimer, FlagsTyped
<1> QED BY <1>2, <1>3 DEF FollowLeader

LEMMA AppendRequestTypes ==
  ASSUME TypeOK, NEW m \in appendReqs, HandleLeaderHeartbeat(m)
  PROVE  TypeOK'
<1> USE Kept DEF TypeOK
<1>1. /\ m.from \in Node /\ m.to \in Node /\ m.term \in Nat
      /\ m.prevIndex \in Index /\ m.commit \in Index /\ m.entries \in Seq(LogEntry)
  BY DEF AppendsTyped, AppendReq
<1>2. ASSUME NEW t \in Nat, NEW b \in BOOLEAN, NEW n \in Index,
             AppendReplyTo(m, t, b, n), appendReqs' = appendReqs \ {m}
      PROVE  AppendsTyped'
  BY <1>1, <1>2, AppendReplyType DEF AppendReplyTo, AppendsTyped
<1>3. CASE RejectStaleLeader(m)
  <2>1. CurrentTerm[m.to] \in Nat /\ -1 \in Index
    BY <1>1 DEF TermsTyped, Index
  <2>2. AppendsTyped'
    BY <1>2, <1>3, <2>1 DEF RejectStaleLeader
  <2> QED BY <1>3, <2>2 DEF RejectStaleLeader
<1>4. CASE RejectMismatch(m)
  <2>1. FollowLeader(m) /\ appendReqs' = appendReqs \ {m} /\ -1 \in Index
    BY <1>4 DEF RejectMismatch, FollowLeader, Index
  <2>2. AppendsTyped'
    BY <1>1, <1>2, <1>4, <2>1 DEF RejectMismatch
  <2> QED BY <1>4, <2>1, <2>2, FollowTypes DEF RejectMismatch
<1>5. CASE AcceptEntries(m)
  <2> DEFINE kept == m.prevIndex + 1
             last == m.prevIndex + Len(m.entries)
  <2>1. FollowLeader(m) /\ appendReqs' = appendReqs \ {m}
    BY <1>5 DEF AcceptEntries, FollowLeader
  <2>2. Log[m.to] \in Seq(LogEntry) /\ Len(Log[m.to]) \in Nat /\ Len(m.entries) \in Nat
    BY <1>1, LenProperties DEF LogsTyped
  <2>3. kept \in 0 .. Len(Log[m.to])
    BY <1>1, <1>5, <2>2 DEF AcceptEntries, HasPrevious, LastIndex, Index
  <2>4. last \in Index
    BY <1>1, <2>2 DEF Index
  <2>5. PICK moved \in BOOLEAN : LogWrite(m.to, kept, m.entries, moved)
    BY <1>5 DEF AcceptEntries
  <2>6. Log \in [Node -> Seq(LogEntry)] /\ rounds \in [Node -> SUBSET Round]
    BY DEF LogsTyped, GoroutinesTyped
  <2>7. Log' \in [Node -> Seq(LogEntry)] /\ rounds' \in [Node -> SUBSET Round]
    <3> HIDE DEF TypeOK, kept
    <3> QED BY <1>1, <2>2, <2>3, <2>5, <2>6, LogWriteTypes
  <2>8. CommitIndex' \in [Node -> Index]
    BY <1>1, <1>5, <2>4 DEF AcceptEntries, LogsTyped
  <2>9. AppendsTyped'
    BY <1>1, <1>2, <1>5, <2>1, <2>4 DEF AcceptEntries
  <2>10. LogsTyped' /\ GoroutinesTyped'
    BY <2>1, <2>7, <2>8, FollowTypes DEF LogsTyped, GoroutinesTyped
  <2> QED BY <2>1, <2>9, <2>10, FollowTypes
<1> QED BY <1>3, <1>4, <1>5 DEF HandleLeaderHeartbeat

LEMMA AppendReplyTypes ==
  ASSUME TypeOK, NEW m \in appendReplies, HandleAppendReply(m)
  PROVE  TypeOK'
<1> USE Kept DEF TypeOK
<1>1. m.from \in Node /\ m.to \in Node /\ m.term \in Nat /\ m.match \in Index
  BY DEF AppendsTyped, AppendReply
<1>2. appendReplies' = appendReplies \ {m} /\ UNCHANGED appendReqs => AppendsTyped'
  BY DEF AppendsTyped
<1>3. CASE IgnoreAppendReply(m)
  BY <1>2, <1>3 DEF IgnoreAppendReply
<1>4. CASE AppendReplyNewerTerm(m)
  <2>1. FlagsTyped'
    BY <1>1, <1>4 DEF AppendReplyNewerTerm, ArmElectionTimer, FlagsTyped
  <2>2. TermsTyped'
    BY <1>1, <1>4 DEF AppendReplyNewerTerm, StepDown, TermsTyped
  <2> QED BY <1>2, <1>4, <2>1, <2>2 DEF AppendReplyNewerTerm
<1>5. CASE RecordMatch(m)
  <2>1. [matchIndex[m.to] EXCEPT ![m.from] = m.match] \in [Node -> Index]
    BY <1>1 DEF LogsTyped
  <2>2. matchIndex' \in [Node -> [Node -> Index]]
    BY <1>1, <1>5, <2>1 DEF RecordMatch, LogsTyped
  <2>3. m.match + 1 \in Nat /\ nextIndex[m.to] \in [Node -> Nat]
    BY <1>1 DEF LogsTyped, Index
  <2>4. nextIndex' \in [Node -> [Node -> Nat]]
    BY <1>1, <1>5, <2>3 DEF RecordMatch, LogsTyped
  <2>5. CommitIndex[m.to] \in Index /\ Len(Log[m.to]) \in Nat
    BY <1>1, LenProperties DEF LogsTyped
  <2>6. \A match : Committable(m.to, match) \subseteq Index
    BY <2>5 DEF Committable, LastIndex, Index
  <2>7. CommitIndex' \in [Node -> Index]
    BY <1>1, <1>5, <2>6 DEF RecordMatch, LogsTyped
  <2> QED BY <1>2, <1>5, <2>2, <2>4, <2>7 DEF RecordMatch, LogsTyped
<1>6. CASE BackOff(m)
  <2>1. nextIndex[m.to] \in [Node -> Nat]
    BY <1>1 DEF LogsTyped
  <2>2. Decrement(nextIndex[m.to][m.from]) \in Nat
    BY <1>1, <2>1 DEF Decrement
  <2>3. nextIndex' \in [Node -> [Node -> Nat]]
    BY <1>1, <1>6, <2>1, <2>2 DEF BackOff, LogsTyped
  <2> QED BY <1>2, <1>6, <2>3 DEF BackOff, LogsTyped
<1> QED BY <1>3, <1>4, <1>5, <1>6 DEF HandleAppendReply

LEMMA LifecycleTypes ==
  ASSUME TypeOK, NEW i \in Node, Stop(i) \/ Restart(i)
  PROVE  TypeOK'
<1> USE Kept DEF TypeOK
<1>1. CASE Stop(i)
  <2>1. FlagsTyped'
    BY <1>1 DEF Stop, FlagsTyped
  <2>2. GoroutinesTyped'
    BY <1>1 DEF Stop, GoroutinesTyped
  <2> QED BY <1>1, <2>1, <2>2 DEF Stop
<1>2. CASE Restart(i)
  <2>1. TermsTyped'
    BY <1>2 DEF Restart, TermsTyped
  <2>2. LogsTyped'
    BY <1>2 DEF Restart, LogsTyped, Index
  <2>3. FlagsTyped'
    BY <1>2 DEF Restart, FlagsTyped
  <2>4. GoroutinesTyped'
    BY <1>2 DEF Restart, GoroutinesTyped
  <2> QED BY <1>2, <2>1, <2>2, <2>3, <2>4 DEF Restart
<1> QED BY <1>1, <1>2

LEMMA TypeInit == Init => TypeOK
BY DEF Init, TypeOK, TermsTyped, LogsTyped, FlagsTyped, GoroutinesTyped,
       VotesTyped, AppendsTyped, Index

LEMMA TypeStep == TypeOK /\ [Next]_vars => TypeOK'
<1> SUFFICES ASSUME TypeOK, [Next]_vars PROVE TypeOK'
  OBVIOUS
<1>1. CASE UNCHANGED vars
  BY <1>1, Kept DEF TypeOK, vars
<1>2. ASSUME NEW i \in Node, Timers(i) \/ Elections(i) PROVE TypeOK'
  BY <1>2, ElectionTypes
<1>3. ASSUME NEW i \in Node, NEW op \in Op, ProposeState(i, op) PROVE TypeOK'
  BY <1>3, ProposalTypes
<1>4. ASSUME NEW i \in Node, NEW rd \in rounds[i], NEW p \in rd.todo,
             SendHeartbeat(i, rd, p)
      PROVE  TypeOK'
  BY <1>4, SendTypes
<1> QED BY <1>1, <1>2, <1>3, <1>4, RoundTypes, VoteRequestTypes, VoteReplyTypes,
           AppendRequestTypes, AppendReplyTypes, LifecycleTypes DEF Next

(* Every variable keeps its type; nextIndex never falls below 0 and the    *)
(* slices of a heartbeat round are always taken within the log.            *)
THEOREM TypeCorrect == Spec => []TypeOK
BY TypeInit, TypeStep, PTL DEF Spec

-----------------------------------------------------------------------------
(* Timers and goroutines that must never all be lost *)

(* A node that does not lead has an election timer, armed or firing: no    *)
(* interleaving of startElection with the handlers loses it.               *)
THEOREM NobodyStranded == Spec => []NeverStranded
<1>1. Init => NeverStranded
  BY DEF Init, NeverStranded
<1>2. TypeOK /\ NeverStranded /\ [Next]_vars => NeverStranded'
  <2> SUFFICES ASSUME TypeOK, NeverStranded, [Next]_vars PROVE NeverStranded'
    OBVIOUS
  <2> USE DEF NeverStranded, ArmElectionTimer, StepDown, FollowLeader
  <2>1. /\ electionTimer \in [Node -> BOOLEAN] /\ stopped \in [Node -> BOOLEAN]
        /\ firing \in [Node -> Nat] /\ rearming \in [Node -> Nat]
        /\ State \in [Node -> {"Follower", "Candidate", "Leader"}]
    BY DEF TypeOK, TermsTyped, FlagsTyped, GoroutinesTyped
  <2>2. /\ \A m \in voteReqs \cup voteReplies : m.to \in Node
        /\ \A m \in appendReqs \cup appendReplies : m.to \in Node
    BY DEF TypeOK, VotesTyped, VoteReq, VoteReply, AppendsTyped, AppendReq, AppendReply
  <2>3. CASE UNCHANGED vars
    BY <2>3 DEF vars
  <2>4. ASSUME NEW i \in Node, Timers(i) PROVE NeverStranded'
    BY <2>1, <2>2, <2>4 DEF Timers, FireElectionTimer, FireHeartbeatTimer
  <2>5. ASSUME NEW i \in Node, Elections(i) PROVE NeverStranded'
    BY <2>1, <2>2, <2>5 DEF Elections, StartElection, SkipElection, RearmElectionTimer
  <2>6. ASSUME NEW i \in Node, Heartbeats(i) PROVE NeverStranded'
    BY <2>1, <2>2, <2>6 DEF Heartbeats, BeginRound, IdleRound
  <2>7. ASSUME NEW i \in Node, NEW op \in Op, ProposeState(i, op) PROVE NeverStranded'
    BY <2>1, <2>2, <2>7 DEF ProposeState
  <2>8. ASSUME NEW i \in Node, NEW rd \in rounds[i], NEW p \in rd.todo, SendHeartbeat(i, rd, p) PROVE NeverStranded'
    BY <2>1, <2>2, <2>8 DEF SendHeartbeat
  <2>9. ASSUME NEW m \in voteReqs, HandleVoteRequest(m) PROVE NeverStranded'
    BY <2>1, <2>2, <2>9 DEF HandleVoteRequest, GrantVote, DenyVote
  <2>10. ASSUME NEW m \in voteReplies, HandleVoteReply(m) PROVE NeverStranded'
    BY <2>1, <2>2, <2>10 DEF HandleVoteReply, VoteReplyNewerTerm, CountVote, WinElection,
           IgnoreVoteReply
  <2>11. ASSUME NEW m \in appendReqs, HandleLeaderHeartbeat(m) PROVE NeverStranded'
    BY <2>1, <2>2, <2>11 DEF HandleLeaderHeartbeat, RejectStaleLeader, RejectMismatch,
           AcceptEntries
  <2>12. ASSUME NEW m \in appendReplies, HandleAppendReply(m) PROVE NeverStranded'
    BY <2>1, <2>2, <2>12 DEF HandleAppendReply, IgnoreAppendReply, AppendReplyNewerTerm,
           RecordMatch, BackOff
  <2>13. ASSUME NEW i \in Node, Stop(i) \/ Restart(i) PROVE NeverStranded'
    BY <2>1, <2>2, <2>13 DEF Stop, Restart
  <2> QED BY <2>3, <2>4, <2>5, <2>6, <2>7, <2>8, <2>9, <2>10, <2>11, <2>12, <2>13 DEF Next
<1> QED BY <1>1, <1>2, TypeCorrect, PTL DEF Spec

LEMMA WriteKeepsRounds ==
  ASSUME rounds \in [Node -> SUBSET Round], NEW i \in Node, NEW j \in Node,
         rounds[j] # {}, NEW k, NEW new, NEW moved, LogWrite(i, k, new, moved)
  PROVE  rounds'[j] # {}
<1> DEFINE log == SubSeq(Log[i], 1, k) \o new
           sharing == {rd \in rounds[i] : rd.shared}
           seen(rd) == [n \in DOMAIN rd.logs |->
                          IF n \in k+1 .. Len(log) THEN log[n] ELSE rd.logs[n]]
           apart == {[rd EXCEPT !.shared = FALSE] : rd \in rounds[i]}
           rewritten == {[rd EXCEPT !.logs = seen(rd)] : rd \in sharing}
<1>1. rounds' = IF moved THEN Set(rounds, i, apart)
                ELSE Set(rounds, i, (rounds[i] \ sharing) \cup rewritten)
  BY DEF LogWrite
<1>2. CASE i # j
  <2> HIDE DEF apart, rewritten, sharing
  <2> QED BY <1>1, <1>2
<1>3. CASE i = j
  <2>1. PICK rd \in rounds[i] : TRUE
    BY <1>3
  <2>2. [rd EXCEPT !.shared = FALSE] \in apart
    BY <2>1
  <2>3. rd \in sharing => [rd EXCEPT !.logs = seen(rd)] \in rewritten
    OBVIOUS
  <2> HIDE DEF apart, rewritten, sharing, seen
  <2> QED BY <1>1, <1>3, <2>1, <2>2, <2>3
<1> QED BY <1>2, <1>3

(* A leader has a heartbeat timer, a goroutine about to send or a round    *)
(* under way, whatever deposes and re-elects it meanwhile.                 *)
THEOREM LeadersKeepBeating == Spec => []LeaderKeepsBeating
<1>1. Init => LeaderKeepsBeating
  BY DEF Init, LeaderKeepsBeating
<1>2. TypeOK /\ LeaderKeepsBeating /\ [Next]_vars => LeaderKeepsBeating'
  <2> SUFFICES ASSUME TypeOK, LeaderKeepsBeating, [Next]_vars PROVE LeaderKeepsBeating'
    OBVIOUS
  <2> USE DEF LeaderKeepsBeating, StepDown, FollowLeader
  <2>1. /\ heartbeatTimer \in [Node -> BOOLEAN] /\ stopped \in [Node -> BOOLEAN]
        /\ beating \in [Node -> Nat] /\ rounds \in [Node -> SUBSET Round]
        /\ State \in [Node -> {"Follower", "Candidate", "Leader"}]
    BY DEF TypeOK, TermsTyped, FlagsTyped, GoroutinesTyped
  <2>2. /\ \A m \in voteReqs \cup voteReplies : m.to \in Node
        /\ \A m \in appendReqs \cup appendReplies : m.to \in Node
    BY DEF TypeOK, VotesTyped, VoteReq, VoteReply, AppendsTyped, AppendReq, AppendReply
  <2>3. CASE UNCHANGED vars
    BY <2>3 DEF vars
  <2>4. ASSUME NEW i \in Node, Timers(i) PROVE LeaderKeepsBeating'
    BY <2>1, <2>2, <2>4 DEF Timers, FireElectionTimer, FireHeartbeatTimer
  <2>5. ASSUME NEW i \in Node, Elections(i) PROVE LeaderKeepsBeating'
    BY <2>1, <2>2, <2>5 DEF Elections, StartElection, SkipElection, RearmElectionTimer
  <2>6. ASSUME NEW i \in Node, Heartbeats(i) PROVE LeaderKeepsBeating'
    <3>1. CASE BeginRound(i)
      BY <2>1, <3>1 DEF BeginRound
    <3>2. CASE IdleRound(i)
      BY <2>1, <3>2 DEF IdleRound
    <3> QED BY <2>6, <3>1, <3>2 DEF Heartbeats
  <2>7. ASSUME NEW i \in Node, NEW op \in Op, ProposeState(i, op) PROVE LeaderKeepsBeating'
    BY <2>1, <2>2, <2>7, WriteKeepsRounds DEF ProposeState
  <2>8. ASSUME NEW i \in Node, NEW rd \in rounds[i], NEW p \in rd.todo, SendHeartbeat(i, rd, p) PROVE LeaderKeepsBeating'
    BY <2>1, <2>2, <2>8 DEF SendHeartbeat
  <2>9. ASSUME NEW m \in voteReqs, HandleVoteRequest(m) PROVE LeaderKeepsBeating'
    BY <2>1, <2>2, <2>9 DEF HandleVoteRequest, GrantVote, DenyVote
  <2>10. ASSUME NEW m \in voteReplies, HandleVoteReply(m) PROVE LeaderKeepsBeating'
    BY <2>1, <2>2, <2>10 DEF HandleVoteReply, VoteReplyNewerTerm, CountVote, WinElection,
           IgnoreVoteReply
  <2>11. ASSUME NEW m \in appendReqs, HandleLeaderHeartbeat(m) PROVE LeaderKeepsBeating'
    BY <2>1, <2>2, <2>11, WriteKeepsRounds DEF HandleLeaderHeartbeat, RejectStaleLeader, RejectMismatch,
           AcceptEntries
  <2>12. ASSUME NEW m \in appendReplies, HandleAppendReply(m) PROVE LeaderKeepsBeating'
    BY <2>1, <2>2, <2>12 DEF HandleAppendReply, IgnoreAppendReply, AppendReplyNewerTerm,
           RecordMatch, BackOff
  <2>13. ASSUME NEW i \in Node, Stop(i) \/ Restart(i) PROVE LeaderKeepsBeating'
    BY <2>1, <2>2, <2>13 DEF Stop, Restart
  <2> QED BY <2>3, <2>4, <2>5, <2>6, <2>7, <2>8, <2>9, <2>10, <2>11, <2>12, <2>13 DEF Next
<1> QED BY <1>1, <1>2, TypeCorrect, PTL DEF Spec

-----------------------------------------------------------------------------
(* Elections *)

Terms == {c[2] : c \in Contests}

(* A vote is final, and nobody votes in, or for, a term not yet reached.   *)
BallotsSound ==
  /\ \A b \in ballots : /\ b[2] \in Terms
                        /\ b[2] <= CurrentTerm[b[1]] /\ b[2] <= CurrentTerm[b[3]]
                        /\ b[2] = CurrentTerm[b[1]] => VotedFor[b[1]] = b[3]
  /\ \A b, d \in ballots : b[1] = d[1] /\ b[2] = d[2] => b[3] = d[3]

(* Who stands, or leads, has voted for itself. *)
StandsForItself ==
  \A i \in Node : State[i] # "Follower" => <<i, CurrentTerm[i], i>> \in ballots

(* A request still on its way has not been granted. *)
RequestsOpen ==
  \A m \in voteReqs : /\ m.from # m.to /\ m.term \in Terms
                      /\ m.term <= CurrentTerm[m.from]
                      /\ <<m.to, m.term, m.from>> \notin ballots

(* A grant still on its way was cast as a ballot. *)
GrantsCast ==
  \A m \in voteReplies :
    m.granted => m.from # m.to /\ <<m.from, m.term, m.to>> \in ballots

(* The voters of a candidate whose reply is no longer on its way *)
Heard(i) ==
  {v \in Voters(CurrentTerm[i], i) :
     \A m \in voteReplies :
       ~ (m.granted /\ m.from = v /\ m.to = i /\ m.term = CurrentTerm[i])}

CountsHeard ==
  \A i \in Node :
    State[i] = "Candidate" => VotesReceived[i] <= Cardinality(Heard(i))

IInv == /\ BallotsSound /\ StandsForItself /\ RequestsOpen /\ GrantsCast
        /\ CountsHeard /\ LeaderHasMajority

-----------------------------------------------------------------------------
(* Counting *)

LEMMA Counting ==
  ASSUME NEW S \in SUBSET Node, NEW T \in SUBSET Node, S \subseteq T
  PROVE  /\ Cardinality(S) \in Nat /\ Cardinality(T) \in Nat
         /\ Cardinality(Node) \in Nat
         /\ Cardinality(S) <= Cardinality(T)
         /\ Majority(Cardinality(S)) => Majority(Cardinality(T))
<1>1. /\ Cardinality(S) \in Nat /\ Cardinality(T) \in Nat
      /\ Cardinality(Node) \in Nat /\ Cardinality(S) <= Cardinality(T)
  BY FS_Subset, FS_CardinalityType, NodesFinite
<1> QED BY <1>1 DEF Majority

LEMMA OneMore ==
  ASSUME NEW S \in SUBSET Node, NEW x \in Node \ S
  PROVE  Cardinality(S \cup {x}) = Cardinality(S) + 1
<1>1. IsFiniteSet(S)
  BY FS_Subset, NodesFinite
<1> QED BY <1>1, FS_AddElement

(* Two majorities of the nodes share one. *)
LEMMA Overlap ==
  ASSUME NEW S \in SUBSET Node, NEW T \in SUBSET Node,
         Majority(Cardinality(S)), Majority(Cardinality(T))
  PROVE  \E v \in S : v \in T
<1>1. /\ Cardinality(Node) \in Nat /\ Cardinality(S) \in Nat
      /\ Cardinality(T) \in Nat
  BY FS_Subset, FS_CardinalityType, NodesFinite
<1>2. Cardinality(S) + Cardinality(T) > Cardinality(Node)
  BY <1>1 DEF Majority
<1> QED BY <1>2, FS_MajoritiesIntersect, NodesFinite

-----------------------------------------------------------------------------
(* The invariant *)

(* A step that casts no vote, counts none and leads to no candidacy *)
Calm(i) ==
  /\ ballots' = ballots /\ VotesReceived' = VotesReceived /\ voteReqs' = voteReqs
  /\ voteReplies' \subseteq voteReplies
  /\ \/ UNCHANGED <<CurrentTerm, VotedFor, State>>
     \/ /\ State' = Set(State, i, "Follower")
        /\ \E t \in Nat :
             /\ CurrentTerm' = Set(CurrentTerm, i, t)
             /\ \/ t > CurrentTerm[i]
                \/ /\ t = CurrentTerm[i] /\ VotedFor' = VotedFor
                   /\ \E m \in appendReqs : m.to = i /\ m.term = t
        /\ \A j \in Node \ {i} : VotedFor'[j] = VotedFor[j]

LEMMA VoteFields ==
  ASSUME TypeOK
  PROVE  /\ \A m \in voteReqs : m.from \in Node /\ m.to \in Node /\ m.term \in Nat
         /\ \A m \in voteReplies : /\ m.from \in Node /\ m.to \in Node
                                   /\ m.term \in Nat /\ m.granted \in BOOLEAN
<1>1. \A m \in VoteReq : m.from \in Node /\ m.to \in Node /\ m.term \in Nat
  BY DEF VoteReq
<1>2. \A m \in VoteReply : m.from \in Node /\ m.to \in Node /\ m.term \in Nat
  BY DEF VoteReply
<1>3. \A m \in VoteReply : m.granted \in BOOLEAN
  BY Zenon DEF VoteReply
<1> QED BY Zenon, <1>1, <1>2, <1>3 DEF TypeOK, VotesTyped

LEMMA CalmStep ==
  ASSUME TypeOK, IInv, NEW i \in Node, Calm(i)
  PROVE  IInv'
<1> USE DEF IInv
<1>1. /\ CurrentTerm \in [Node -> Nat] /\ VotedFor \in [Node -> Node \cup {None}]
      /\ State \in [Node -> {"Follower", "Candidate", "Leader"}]
      /\ VotesReceived \in [Node -> Nat]
      /\ ballots \subseteq Node \X Nat \X Node
  BY DEF TypeOK, TermsTyped
<1>0. \A m \in voteReqs : m.from \in Node /\ m.to \in Node /\ m.term \in Nat
  BY VoteFields
<1>2. \A j \in Node : /\ CurrentTerm'[j] \in Nat /\ CurrentTerm'[j] >= CurrentTerm[j]
                      /\ CurrentTerm'[j] = CurrentTerm[j] => VotedFor'[j] = VotedFor[j]
                      /\ State'[j] # "Follower" => /\ State'[j] = State[j]
                                                   /\ CurrentTerm'[j] = CurrentTerm[j]
  <2>1. CASE UNCHANGED <<CurrentTerm, VotedFor, State>>
    BY <1>1, <2>1
  <2>2. CASE ~UNCHANGED <<CurrentTerm, VotedFor, State>>
    <3>1. State' = Set(State, i, "Follower")
      BY <2>2 DEF Calm
    <3>2. PICK t \in Nat : /\ CurrentTerm' = Set(CurrentTerm, i, t)
                           /\ \/ t > CurrentTerm[i]
                              \/ t = CurrentTerm[i] /\ VotedFor' = VotedFor
      BY <2>2 DEF Calm
    <3>3. \A j \in Node \ {i} : VotedFor'[j] = VotedFor[j]
      BY <2>2 DEF Calm
    <3> QED BY <1>1, <3>1, <3>2, <3>3
  <2> QED BY <2>1, <2>2
<1>3. ballots' = ballots /\ VotesReceived' = VotesReceived /\ voteReqs' = voteReqs
      /\ voteReplies' \subseteq voteReplies
  BY DEF Calm
<1>4. BallotsSound'
  BY <1>1, <1>2, <1>3 DEF BallotsSound
<1>5. StandsForItself'
  BY <1>2, <1>3 DEF StandsForItself
<1>6. RequestsOpen'
  <2> SUFFICES ASSUME NEW m \in voteReqs
               PROVE  /\ m.from # m.to /\ m.term \in Terms
                      /\ m.term <= CurrentTerm'[m.from]
                      /\ <<m.to, m.term, m.from>> \notin ballots
    BY <1>3 DEF RequestsOpen
  <2>1. /\ CurrentTerm[m.from] \in Nat /\ CurrentTerm'[m.from] \in Nat
        /\ CurrentTerm'[m.from] >= CurrentTerm[m.from]
    BY <1>0, <1>1, <1>2
  <2> QED BY <1>0, <2>1 DEF RequestsOpen
<1>7. GrantsCast'
  BY <1>3 DEF GrantsCast
<1>8. CountsHeard'
  <2> SUFFICES ASSUME NEW j \in Node, State'[j] = "Candidate"
               PROVE  VotesReceived'[j] <= Cardinality(Heard(j)')
    BY DEF CountsHeard
  <2>1. State[j] = "Candidate" /\ CurrentTerm'[j] = CurrentTerm[j]
    BY <1>2
  <2>2. Heard(j) \subseteq Heard(j)'
    BY <1>3, <2>1 DEF Heard, Voters
  <2>3. /\ Cardinality(Heard(j)) \in Nat /\ Cardinality(Heard(j)') \in Nat
        /\ Cardinality(Heard(j)) <= Cardinality(Heard(j)')
    BY <2>2, Counting DEF Heard, Voters
  <2> QED BY <1>1, <1>3, <2>1, <2>3 DEF CountsHeard
<1>9. LeaderHasMajority'
  BY <1>2, <1>3 DEF LeaderHasMajority, Voters
<1> QED BY <1>4, <1>5, <1>6, <1>7, <1>8, <1>9

LEMMA StartStep ==
  ASSUME TypeOK, IInv, NEW i \in Node, StartElection(i)
  PROVE  IInv'
<1> USE DEF IInv
<1> DEFINE t == CurrentTerm[i] + 1
<1>0. \A m \in voteReqs : m.from \in Node /\ m.to \in Node /\ m.term \in Nat
  BY VoteFields
<1>1. /\ CurrentTerm \in [Node -> Nat] /\ VotedFor \in [Node -> Node \cup {None}]
      /\ State \in [Node -> {"Follower", "Candidate", "Leader"}]
      /\ VotesReceived \in [Node -> Nat]
      /\ ballots \subseteq Node \X Nat \X Node
  BY DEF TypeOK, TermsTyped
<1>2. /\ CurrentTerm' = Set(CurrentTerm, i, t) /\ State' = Set(State, i, "Candidate")
      /\ VotedFor' = Set(VotedFor, i, i) /\ VotesReceived' = Set(VotesReceived, i, 1)
      /\ ballots' = ballots \cup {<<i, t, i>>} /\ t \in Nat /\ t > CurrentTerm[i]
      /\ voteReplies' = voteReplies
      /\ voteReqs' = voteReqs \cup {[from |-> i, to |-> p, term |-> t] : p \in Node \ {i}}
  BY <1>1 DEF StartElection, Peers
<1>3. t \in Terms
  BY DEF StartElection, MayStand, Terms
<1>4. \A b \in ballots : b[1] = i \/ b[3] = i => b[2] < t
  BY <1>1, <1>2 DEF BallotsSound
<1> HIDE DEF t
<1>5. BallotsSound'
  BY <1>1, <1>2, <1>3, <1>4 DEF BallotsSound
<1>6. StandsForItself'
  BY <1>1, <1>2 DEF StandsForItself
<1>7. RequestsOpen'
  <2>1. ASSUME NEW m \in voteReqs
        PROVE  /\ m.from # m.to /\ m.term \in Terms /\ m.term <= CurrentTerm'[m.from]
               /\ <<m.to, m.term, m.from>> \notin ballots'
    BY <1>0, <1>1, <1>2 DEF RequestsOpen
  <2>2. ASSUME NEW p \in Node \ {i}
        PROVE  <<p, t, i>> \notin ballots'
    BY <1>2, <1>4
  <2>3. ASSUME NEW m \in voteReqs' \ voteReqs
        PROVE  /\ m.from # m.to /\ m.term \in Terms /\ m.term <= CurrentTerm'[m.from]
               /\ <<m.to, m.term, m.from>> \notin ballots'
    <3>1. PICK p \in Node \ {i} : m = [from |-> i, to |-> p, term |-> t]
      BY <1>2
    <3> QED BY <1>1, <1>2, <1>3, <2>2, <3>1
  <2> QED BY <2>1, <2>3 DEF RequestsOpen
<1>8. GrantsCast'
  BY <1>2 DEF GrantsCast
<1>9. CountsHeard'
  <2> SUFFICES ASSUME NEW j \in Node, State'[j] = "Candidate"
               PROVE  VotesReceived'[j] <= Cardinality(Heard(j)')
    BY DEF CountsHeard
  <2>1. CASE j = i
    <3>1. i \in Heard(i)'
      BY <1>1, <1>2 DEF Heard, Voters, GrantsCast
    <3>2. Cardinality({i}) <= Cardinality(Heard(i)')
      BY <3>1, Counting DEF Heard, Voters
    <3> QED BY <1>1, <1>2, <2>1, <3>2, FS_Singleton
  <2>2. CASE j # i
    <3>1. Heard(j)' = Heard(j)
      BY <1>1, <1>2, <2>2 DEF Heard, Voters
    <3> QED BY <1>1, <1>2, <2>2, <3>1 DEF CountsHeard
  <2> QED BY <2>1, <2>2
<1>10. LeaderHasMajority'
  <2> SUFFICES ASSUME NEW j \in Node, State'[j] = "Leader"
               PROVE  Majority(Cardinality(Voters(CurrentTerm[j], j)'))
    BY DEF LeaderHasMajority
  <2>1. j # i
    BY <1>1, <1>2
  <2>2. Voters(CurrentTerm[j], j)' = Voters(CurrentTerm[j], j)
    BY <1>1, <1>2, <2>1 DEF Voters
  <2> QED BY <1>1, <1>2, <2>1, <2>2 DEF LeaderHasMajority
<1> QED BY <1>5, <1>6, <1>7, <1>8, <1>9, <1>10

LEMMA GrantStep ==
  ASSUME TypeOK, IInv, NEW m \in voteReqs, GrantVote(m)
  PROVE  IInv'
<1> USE DEF IInv
<1> DEFINE i == m.to
           c == m.from
           t == m.term
           reply == [from |-> i, to |-> c, term |-> t, granted |-> TRUE]
<1>0. \A r \in voteReqs : /\ r.from \in Node /\ r.to \in Node /\ r.term \in Nat
                          /\ r = [from |-> r.from, to |-> r.to, term |-> r.term]
  BY DEF TypeOK, VotesTyped, VoteReq
<1>1. /\ CurrentTerm \in [Node -> Nat] /\ VotedFor \in [Node -> Node \cup {None}]
      /\ State \in [Node -> {"Follower", "Candidate", "Leader"}]
      /\ VotesReceived \in [Node -> Nat]
      /\ ballots \subseteq Node \X Nat \X Node
      /\ i \in Node /\ c \in Node /\ t \in Nat
  BY <1>0 DEF TypeOK, TermsTyped
<1>2. /\ CurrentTerm' = Set(CurrentTerm, i, t) /\ VotedFor' = Set(VotedFor, i, c)
      /\ State' = IF t > CurrentTerm[i] THEN Set(State, i, "Follower") ELSE State
      /\ VotesReceived' = VotesReceived
      /\ ballots' = ballots \cup {<<i, t, c>>}
      /\ voteReqs' = voteReqs \ {m}
      /\ \/ t > CurrentTerm[i]
         \/ t = CurrentTerm[i] /\ VotedFor[i] \in {None, c}
  BY DEF GrantVote, Grants
<1>3. voteReplies' = voteReplies \cup {reply}
  BY Zenon DEF GrantVote
<1>4. /\ reply.from = i /\ reply.to = c /\ reply.term = t
  OBVIOUS
<1>5. c # i /\ t \in Terms /\ t <= CurrentTerm[c] /\ <<i, t, c>> \notin ballots
  BY DEF RequestsOpen
<1> HIDE DEF i, c, t, reply
<1>6. \A b \in ballots : b[1] = i => b[2] < t
  BY <1>1, <1>2, <1>5, NoneIsNoNode DEF BallotsSound
<1>7. \A j \in Node : /\ CurrentTerm'[j] \in Nat /\ CurrentTerm'[j] >= CurrentTerm[j]
                      /\ State'[j] # "Follower" => /\ State'[j] = State[j]
                                                   /\ CurrentTerm'[j] = CurrentTerm[j]
  BY <1>1, <1>2
<1>8. BallotsSound'
  BY <1>1, <1>2, <1>5, <1>6, <1>7 DEF BallotsSound
<1>9. StandsForItself'
  BY <1>2, <1>7 DEF StandsForItself
<1>10. RequestsOpen'
  <2> SUFFICES ASSUME NEW r \in voteReqs, r # m
               PROVE  /\ r.from # r.to /\ r.term \in Terms
                      /\ r.term <= CurrentTerm'[r.from]
                      /\ <<r.to, r.term, r.from>> \notin ballots'
    BY <1>2 DEF RequestsOpen
  <2>1. /\ CurrentTerm[r.from] \in Nat /\ CurrentTerm'[r.from] \in Nat
        /\ CurrentTerm'[r.from] >= CurrentTerm[r.from]
    BY <1>0, <1>1, <1>7
  <2>2. <<r.to, r.term, r.from>> # <<i, t, c>>
    BY <1>0 DEF i, t, c
  <2> QED BY <1>0, <1>2, <2>1, <2>2 DEF RequestsOpen
<1>11. GrantsCast'
  BY <1>2, <1>3, <1>4, <1>5 DEF GrantsCast
<1>12. CountsHeard'
  <2> SUFFICES ASSUME NEW j \in Node, State'[j] = "Candidate"
               PROVE  VotesReceived'[j] <= Cardinality(Heard(j)')
    BY DEF CountsHeard
  <2>1. State[j] = "Candidate" /\ CurrentTerm'[j] = CurrentTerm[j]
    BY <1>7
  <2>2. Heard(j) \subseteq Heard(j)'
    BY <1>2, <1>3, <1>4, <1>5, <2>1 DEF Heard, Voters
  <2>3. /\ Cardinality(Heard(j)) \in Nat /\ Cardinality(Heard(j)') \in Nat
        /\ Cardinality(Heard(j)) <= Cardinality(Heard(j)')
    BY <2>2, Counting DEF Heard, Voters
  <2> QED BY <1>1, <1>2, <2>1, <2>3 DEF CountsHeard
<1>13. LeaderHasMajority'
  <2> SUFFICES ASSUME NEW j \in Node, State'[j] = "Leader"
               PROVE  Majority(Cardinality(Voters(CurrentTerm[j], j)'))
    BY DEF LeaderHasMajority
  <2>1. State[j] = "Leader" /\ CurrentTerm'[j] = CurrentTerm[j]
    BY <1>7
  <2>2. Voters(CurrentTerm[j], j) \subseteq Voters(CurrentTerm[j], j)'
    BY <1>2, <2>1 DEF Voters
  <2>3. Majority(Cardinality(Voters(CurrentTerm[j], j)))
    BY <2>1 DEF LeaderHasMajority
  <2> QED BY <2>2, <2>3, Counting DEF Voters
<1> QED BY <1>8, <1>9, <1>10, <1>11, <1>12, <1>13

LEMMA DenyStep ==
  ASSUME TypeOK, IInv, NEW m \in voteReqs, DenyVote(m)
  PROVE  IInv'
<1> USE DEF IInv
<1>1. /\ UNCHANGED <<CurrentTerm, VotedFor, State, VotesReceived, ballots>>
      /\ voteReqs' = voteReqs \ {m}
  BY DEF DenyVote
<1>2. \A r \in voteReplies' : r \in voteReplies \/ ~ r.granted
  <2> DEFINE reply == [from |-> m.to, to |-> m.from, term |-> CurrentTerm[m.to],
                       granted |-> FALSE]
  <2>1. ~ reply.granted
    OBVIOUS
  <2>2. voteReplies' = voteReplies \cup {reply}
    BY Zenon DEF DenyVote
  <2> HIDE DEF reply
  <2> QED BY Zenon, <2>1, <2>2
<1>3. \A r \in voteReplies : r \in voteReplies'
  BY DEF DenyVote
<1>4. BallotsSound' /\ StandsForItself' /\ LeaderHasMajority'
  BY <1>1 DEF BallotsSound, StandsForItself, LeaderHasMajority, Voters
<1>5. RequestsOpen'
  BY <1>1 DEF RequestsOpen
<1>6. GrantsCast'
  BY Zenon, <1>1, <1>2 DEF GrantsCast
<1>7. ASSUME NEW j \in Node PROVE Heard(j)' = Heard(j)
  <2>1. Voters(CurrentTerm[j], j)' = Voters(CurrentTerm[j], j)
    BY <1>1 DEF Voters
  <2> QED BY Zenon, <1>1, <1>2, <1>3, <2>1 DEF Heard
<1>8. CountsHeard'
  BY <1>1, <1>7 DEF CountsHeard
<1> QED BY <1>4, <1>5, <1>6, <1>8

(* The reply m is the first to bring its vote. *)
LEMMA NewlyHeard ==
  ASSUME TypeOK, IInv, NEW m \in voteReplies, Counts(m),
         ballots' = ballots, CurrentTerm' = CurrentTerm,
         voteReplies' = voteReplies \ {m}
  PROVE  /\ \A j \in Node : Heard(j) \subseteq Heard(j)'
         /\ VotesReceived[m.to] + 1 <= Cardinality(Heard(m.to)')
         /\ VotesReceived[m.to] \in Nat
<1> USE DEF IInv
<1> DEFINE i == m.to
<1>1. /\ i \in Node /\ m.from \in Node /\ m.term \in Nat
      /\ State[i] = "Candidate" /\ m.term = CurrentTerm[i]
  BY VoteFields DEF Counts
<1>2. m.granted
  BY DEF Counts
<1>3. <<m.from, CurrentTerm[i], i>> \in ballots
  BY Zenon, <1>1, <1>2 DEF GrantsCast
<1>4. m.from \notin Heard(i)
  BY Zenon, <1>1, <1>2 DEF Heard
<1>5. \A r \in voteReplies :
        /\ r.granted /\ r.from = m.from /\ r.to = m.to /\ r.term = m.term
        => r = m
  <2>1. \A r \in VoteReply : r = [from |-> r.from, to |-> r.to, term |-> r.term,
                                  granted |-> r.granted]
    BY DEF VoteReply
  <2>2. \A r \in VoteReply : r.granted \in BOOLEAN
    BY Zenon DEF VoteReply
  <2>3. \A r \in voteReplies : r.granted => r.granted = TRUE
    BY Zenon, <2>2 DEF TypeOK, VotesTyped
  <2>4. voteReplies \subseteq VoteReply
    BY DEF TypeOK, VotesTyped
  <2> QED BY Zenon, <1>2, <2>1, <2>3, <2>4
<1>6. m.from \in Heard(i)'
  BY <1>1, <1>3, <1>5 DEF Heard, Voters
<1>7. \A j \in Node : Heard(j) \subseteq Heard(j)'
  BY DEF Heard, Voters
<1>8. VotesReceived[i] <= Cardinality(Heard(i))
  BY <1>1 DEF CountsHeard
<1>9. VotesReceived[i] \in Nat
  BY <1>1 DEF TypeOK, TermsTyped
<1>10. Heard(i) \in SUBSET Node /\ Heard(i)' \in SUBSET Node
  BY DEF Heard, Voters
<1>11. Cardinality(Heard(i) \cup {m.from}) = Cardinality(Heard(i)) + 1
  BY <1>1, <1>4, <1>10, OneMore
<1>12. /\ Cardinality(Heard(i) \cup {m.from}) <= Cardinality(Heard(i)')
       /\ Cardinality(Heard(i)) \in Nat /\ Cardinality(Heard(i)') \in Nat
  BY <1>1, <1>6, <1>7, <1>10, Counting
<1> QED BY <1>7, <1>8, <1>9, <1>11, <1>12

LEMMA CountStep ==
  ASSUME TypeOK, IInv, NEW m \in voteReplies, CountVote(m) \/ WinElection(m)
  PROVE  IInv'
<1> USE DEF IInv
<1> DEFINE i == m.to
<1>1. /\ Counts(m) /\ voteReplies' = voteReplies \ {m}
      /\ UNCHANGED <<CurrentTerm, VotedFor, ballots, voteReqs>>
      /\ VotesReceived' = Set(VotesReceived, i, VotesReceived[i] + 1)
      /\ \/ State' = State
         \/ State' = Set(State, i, "Leader") /\ Majority(VotesReceived[i] + 1)
  BY DEF CountVote, WinElection
<1>2. /\ i \in Node /\ State[i] = "Candidate"
      /\ State \in [Node -> {"Follower", "Candidate", "Leader"}]
      /\ VotesReceived \in [Node -> Nat]
  BY <1>1, VoteFields DEF TypeOK, TermsTyped, Counts
<1>3. /\ \A j \in Node : Heard(j) \subseteq Heard(j)'
      /\ VotesReceived[i] + 1 <= Cardinality(Heard(i)')
      /\ VotesReceived[i] \in Nat
  BY <1>1, NewlyHeard
<1> HIDE DEF i
<1>4. BallotsSound' /\ RequestsOpen' /\ GrantsCast'
  BY <1>1 DEF BallotsSound, RequestsOpen, GrantsCast
<1>5. StandsForItself'
  BY <1>1, <1>2 DEF StandsForItself
<1>6. CountsHeard'
  <2> SUFFICES ASSUME NEW j \in Node, State'[j] = "Candidate"
               PROVE  VotesReceived'[j] <= Cardinality(Heard(j)')
    BY DEF CountsHeard
  <2>1. CASE j = i
    BY <1>1, <1>2, <1>3, <2>1
  <2>2. CASE j # i
    <3>1. VotesReceived'[j] = VotesReceived[j] /\ State[j] = "Candidate"
      BY <1>1, <1>2, <2>2
    <3>2. /\ Cardinality(Heard(j)) \in Nat /\ Cardinality(Heard(j)') \in Nat
          /\ Cardinality(Heard(j)) <= Cardinality(Heard(j)')
      BY <1>3, Counting DEF Heard, Voters
    <3> QED BY <1>2, <3>1, <3>2 DEF CountsHeard
  <2> QED BY <2>1, <2>2
<1>7. LeaderHasMajority'
  <2> SUFFICES ASSUME NEW j \in Node, State'[j] = "Leader"
               PROVE  Majority(Cardinality(Voters(CurrentTerm[j], j)'))
    BY DEF LeaderHasMajority
  <2>1. CASE State[j] = "Leader"
    BY <1>1, <2>1 DEF LeaderHasMajority, Voters
  <2>2. CASE State[j] # "Leader"
    <3>1. j = i /\ Majority(VotesReceived[i] + 1)
      BY <1>1, <1>2, <2>2
    <3>2. Heard(i)' \subseteq Voters(CurrentTerm[i], i)'
      BY DEF Heard
    <3>3. /\ Cardinality(Heard(i)') <= Cardinality(Voters(CurrentTerm[i], i)')
          /\ Cardinality(Heard(i)') \in Nat /\ Cardinality(Node) \in Nat
          /\ Cardinality(Voters(CurrentTerm[i], i)') \in Nat
      BY <3>2, Counting DEF Voters
    <3> QED BY <1>3, <3>1, <3>3 DEF Majority
  <2> QED BY <2>1, <2>2
<1> QED BY <1>4, <1>5, <1>6, <1>7

-----------------------------------------------------------------------------
(* The steps, as far as elections are concerned *)

Still == UNCHANGED <<termVars, voteMsgs>>

LEMMA CalmSteps ==
  ASSUME ~MayRestart, TypeOK, [Next]_vars
  PROVE  \/ Still
         \/ \E i \in Node : Calm(i) \/ StartElection(i)
         \/ \E m \in voteReqs : GrantVote(m) \/ DenyVote(m)
         \/ \E m \in voteReplies : CountVote(m) \/ WinElection(m)
<1> DEFINE Goal == \/ Still
                   \/ \E i \in Node : Calm(i) \/ StartElection(i)
                   \/ \E m \in voteReqs : GrantVote(m) \/ DenyVote(m)
                   \/ \E m \in voteReplies : CountVote(m) \/ WinElection(m)
<1> SUFFICES Goal
  OBVIOUS
<1> HIDE DEF Goal
<1>1. /\ CurrentTerm \in [Node -> Nat] /\ VotedFor \in [Node -> Node \cup {None}]
      /\ outages \in Nat
  BY DEF TypeOK, TermsTyped, GoroutinesTyped
<1>2. /\ \A m \in voteReplies : m.to \in Node /\ m.term \in Nat
      /\ \A m \in appendReqs \cup appendReplies : m.to \in Node /\ m.term \in Nat
  <2>1. \A m \in AppendReq \cup AppendReply : m.to \in Node /\ m.term \in Nat
    BY DEF AppendReq, AppendReply
  <2> QED BY VoteFields, <2>1 DEF TypeOK, AppendsTyped
<1>3. ASSUME NEW m \in voteReqs, HandleVoteRequest(m) PROVE Goal
  BY <1>3 DEF HandleVoteRequest, Goal
<1>4. ASSUME NEW m \in voteReplies, HandleVoteReply(m) PROVE Goal
  <2>1. CASE VoteReplyNewerTerm(m)
    <3>1. Calm(m.to)
      BY <1>1, <1>2, <2>1 DEF VoteReplyNewerTerm, StepDown, Calm
    <3> QED BY <1>2, <3>1 DEF Goal
  <2>2. CASE IgnoreVoteReply(m)
    <3>1. Calm(m.to)
      BY <2>2 DEF IgnoreVoteReply, Calm
    <3> QED BY <1>2, <3>1 DEF Goal
  <2> QED BY <1>4, <2>1, <2>2 DEF HandleVoteReply, Goal
<1>5. ASSUME NEW m \in appendReqs, HandleLeaderHeartbeat(m) PROVE Goal
  <2>1. CASE RejectStaleLeader(m)
    BY <2>1 DEF RejectStaleLeader, Still, Goal
  <2>2. CASE FollowLeader(m)
    <3>1. Calm(m.to)
      <4>1. CASE m.term > CurrentTerm[m.to]
        BY <1>1, <1>2, <2>2, <4>1 DEF FollowLeader, Calm
      <4>2. CASE m.term = CurrentTerm[m.to]
        BY <1>1, <1>2, <2>2, <4>2 DEF FollowLeader, Calm
      <4> QED BY <1>1, <1>2, <2>2, <4>1, <4>2 DEF FollowLeader
    <3> QED BY <1>2, <3>1 DEF Goal
  <2> QED BY <1>5, <2>1, <2>2 DEF HandleLeaderHeartbeat, RejectMismatch, AcceptEntries, Goal
<1>6. ASSUME NEW m \in appendReplies, HandleAppendReply(m) PROVE Goal
  <2>1. CASE AppendReplyNewerTerm(m)
    <3>1. Calm(m.to)
      BY <1>1, <1>2, <2>1 DEF AppendReplyNewerTerm, StepDown, Calm
    <3> QED BY <1>2, <3>1 DEF Goal
  <2> QED BY <1>6, <2>1 DEF HandleAppendReply, IgnoreAppendReply, RecordMatch, BackOff, Still, Goal
<1>7. CASE UNCHANGED vars
  BY <1>7 DEF vars, Still, Goal
<1>8. ASSUME NEW i \in Node, Timers(i) \/ Heartbeats(i) PROVE Still
  BY <1>8 DEF Timers, FireElectionTimer, FireHeartbeatTimer, Heartbeats,
              BeginRound, IdleRound, Still
<1>9. ASSUME NEW i \in Node, Elections(i) PROVE Goal
  BY <1>9 DEF Elections, SkipElection, RearmElectionTimer, Still, Goal
<1>10. ASSUME NEW i \in Node, NEW op \in Op, ProposeState(i, op) PROVE Still
  BY <1>10 DEF ProposeState, Still
<1>11. ASSUME NEW i \in Node, NEW rd \in rounds[i], NEW p \in rd.todo,
              SendHeartbeat(i, rd, p)
       PROVE  Still
  BY <1>11 DEF SendHeartbeat, Still
<1>12. ASSUME NEW i \in Node, Stop(i) PROVE Still
  BY <1>12 DEF Stop, Still
<1>13. ASSUME NEW i \in Node PROVE ~ Restart(i)
  BY <1>1 DEF Restart
<1>14. Still => Goal
  BY DEF Goal
<1>15. CASE \E i \in Node : \/ Timers(i) \/ Elections(i) \/ Heartbeats(i)
                            \/ Stop(i) \/ Restart(i)
  BY <1>8, <1>9, <1>12, <1>13, <1>14, <1>15
<1>16. CASE \E i \in Node : \E op \in Op : ProposeState(i, op)
  BY <1>10, <1>14, <1>16
<1>17. CASE \E i \in Node : \E rd \in rounds[i] : \E p \in rd.todo : SendHeartbeat(i, rd, p)
  BY <1>11, <1>14, <1>17
<1>18. CASE Next
  BY Zenon, <1>3, <1>4, <1>5, <1>6, <1>15, <1>16, <1>17, <1>18 DEF Next
<1> QED BY <1>7, <1>18

LEMMA ElectionInvariant ==
  ASSUME ~MayRestart
  PROVE  Spec => [](TypeOK /\ IInv)
<1>1. Init => IInv
  BY DEF Init, IInv, BallotsSound, StandsForItself, RequestsOpen, GrantsCast,
         CountsHeard, LeaderHasMajority
<1>2. TypeOK /\ IInv /\ [Next]_vars => IInv'
  <2> SUFFICES ASSUME TypeOK, IInv, [Next]_vars PROVE IInv'
    OBVIOUS
  <2>1. CASE Still
    BY <2>1 DEF Still, IInv, BallotsSound, StandsForItself, RequestsOpen, GrantsCast,
                CountsHeard, LeaderHasMajority, Heard, Voters
  <2> QED BY <2>1, CalmSteps, CalmStep, StartStep, GrantStep, DenyStep, CountStep
<1> QED BY <1>1, <1>2, TypeCorrect, PTL DEF Spec

-----------------------------------------------------------------------------
(* What elections guarantee *)

(* VotesReceived never counts a vote that was not cast for the candidacy   *)
(* in course: HandleVoteReply makes leaders only of majorities.            *)
THEOREM LeadersHaveMajorities ==
  ASSUME ~MayRestart
  PROVE  Spec => []LeaderHasMajority
BY ElectionInvariant, PTL DEF IInv

(* HandleVoteRequest and HandleVoteReply never make two leaders in a term, *)
(* as long as no node restarts and forgets its vote.                       *)
THEOREM ElectionsAreSafe ==
  ASSUME ~MayRestart
  PROVE  Spec => []ElectionSafety
<1>1. TypeOK /\ IInv => ElectionSafety
  <2> SUFFICES ASSUME TypeOK, IInv, NEW i \in Node, NEW j \in Node,
                      State[i] = "Leader", State[j] = "Leader",
                      CurrentTerm[i] = CurrentTerm[j]
               PROVE  i = j
    BY DEF ElectionSafety
  <2>1. PICK v \in Voters(CurrentTerm[i], i) : v \in Voters(CurrentTerm[j], j)
    BY Overlap DEF IInv, LeaderHasMajority, Voters
  <2> QED BY <2>1 DEF IInv, BallotsSound, Voters
<1> QED BY <1>1, ElectionInvariant, PTL

Leads == [i \in Node |-> IF State[i] = "Leader" THEN CurrentTerm[i] ELSE 0]

(* Elections implement the abstract Leadership.                            *)
THEOREM ElectionsImplementLeadership ==
  ASSUME ~MayRestart
  PROVE  Spec => LeadershipImplemented
<1>1. Init => Promised!Init
  BY DEF Init, Promised!Init
<1>2. TypeOK /\ IInv /\ [Next]_vars => [Promised!Next]_<<ballots, Leads>>
  <2> SUFFICES ASSUME TypeOK, IInv, [Next]_vars
               PROVE  Promised!Next \/ UNCHANGED <<ballots, Leads>>
    OBVIOUS
  <2> USE DEF IInv
  <2>1. /\ CurrentTerm \in [Node -> Nat] /\ VotedFor \in [Node -> Node \cup {None}]
        /\ State \in [Node -> {"Follower", "Candidate", "Leader"}]
        /\ ballots \subseteq Node \X Nat \X Node
    BY DEF TypeOK, TermsTyped
  <2>2. CASE Still
    BY <2>2 DEF Still, Leads
  <2>3. ASSUME NEW i \in Node, Calm(i)
        PROVE  Promised!Next \/ UNCHANGED <<ballots, Leads>>
    <3>1. CASE UNCHANGED <<CurrentTerm, VotedFor, State>>
      BY <2>3, <3>1 DEF Calm, Leads
    <3>2. CASE ~ UNCHANGED <<CurrentTerm, VotedFor, State>>
      <4>1. PICK t \in Nat : CurrentTerm' = Set(CurrentTerm, i, t)
        BY <2>3, <3>2 DEF Calm
      <4>2. State' = Set(State, i, "Follower") /\ ballots' = ballots
        BY <2>3, <3>2 DEF Calm
      <4>3. Leads' = [Leads EXCEPT ![i] = 0]
        BY <2>1, <4>1, <4>2 DEF Leads
      <4>4. Promised!Resign(i)
        BY <4>2, <4>3 DEF Promised!Resign, Leads
      <4> QED BY <4>4 DEF Promised!Next
    <3> QED BY <3>1, <3>2
  <2>4. ASSUME NEW i \in Node, StartElection(i)
        PROVE  Promised!Next
    <3> DEFINE t == CurrentTerm[i] + 1
    <3>1. t \in Terms
      BY <2>4 DEF StartElection, MayStand, Terms
    <3>2. \A b \in ballots : b[1] = i => b[2] < t
      BY <2>1 DEF BallotsSound
    <3>3. /\ CurrentTerm' = Set(CurrentTerm, i, t) /\ State' = Set(State, i, "Candidate")
          /\ ballots' = ballots \cup {<<i, t, i>>}
      BY <2>4 DEF StartElection
    <3>4. Leads' = [Leads EXCEPT ![i] = 0]
      BY <2>1, <3>3 DEF Leads
    <3>5. Promised!Cast(i, t, i)
      BY <3>2, <3>3, <3>4 DEF Promised!Cast, Leads
    <3> HIDE DEF t
    <3> QED BY <3>1, <3>5 DEF Promised!Next, Terms
  <2>5. ASSUME NEW m \in voteReqs, GrantVote(m)
        PROVE  Promised!Next
    <3> DEFINE i == m.to
               c == m.from
               t == m.term
    <3>1. /\ i \in Node /\ c \in Node /\ t \in Nat
          /\ t \in Terms /\ c # i /\ <<i, t, c>> \notin ballots
      BY VoteFields DEF RequestsOpen
    <3>2. /\ CurrentTerm' = Set(CurrentTerm, i, t)
          /\ State' = IF t > CurrentTerm[i] THEN Set(State, i, "Follower") ELSE State
          /\ ballots' = ballots \cup {<<i, t, c>>}
          /\ \/ t > CurrentTerm[i]
             \/ t = CurrentTerm[i] /\ VotedFor[i] \in {None, c}
      BY <2>5 DEF GrantVote, Grants
    <3> HIDE DEF i, c, t
    <3>3. \A b \in ballots : b[1] = i => b[2] < t
      BY <2>1, <3>1, <3>2, NoneIsNoNode DEF BallotsSound
    <3>4. State'[i] # "Leader"
      BY <2>1, <3>1, <3>2, <3>3 DEF StandsForItself
    <3>5. Leads' = [Leads EXCEPT ![i] = 0]
      BY <2>1, <3>1, <3>2, <3>4 DEF Leads
    <3>6. Promised!Cast(i, t, c)
      BY <3>2, <3>3, <3>5 DEF Promised!Cast, Leads
    <3> QED BY <3>1, <3>6 DEF Promised!Next, Terms
  <2>6. ASSUME NEW m \in voteReqs, DenyVote(m)
        PROVE  UNCHANGED <<ballots, Leads>>
    BY <2>6 DEF DenyVote, Leads
  <2>7. ASSUME NEW m \in voteReplies, CountVote(m)
        PROVE  UNCHANGED <<ballots, Leads>>
    BY <2>7 DEF CountVote, Leads
  <2>8. ASSUME NEW m \in voteReplies, WinElection(m)
        PROVE  Promised!Next
    <3>1. m.to \in Node /\ State[m.to] = "Candidate"
      BY <2>8, VoteFields DEF WinElection, Counts
    <3>2. CurrentTerm[m.to] \in Terms
      BY <3>1 DEF StandsForItself, BallotsSound
    <3>3. PICK n \in Node, t \in Terms :
            n = m.to /\ t = CurrentTerm[n] /\ State[n] = "Candidate" /\ t \in Nat
      BY <2>1, <3>1, <3>2
    <3>4. /\ CurrentTerm' = CurrentTerm /\ State' = Set(State, n, "Leader")
          /\ ballots' = ballots
      BY <2>8, <3>3 DEF WinElection
    <3>5. Cardinality(Voters(t, n)) > Cardinality(Node) \div 2
      <4>1. LeaderHasMajority'
        BY <2>8, CountStep
      <4>2. State'[n] = "Leader" /\ CurrentTerm'[n] = t /\ Voters(t, n)' = Voters(t, n)
        BY <2>1, <3>3, <3>4 DEF Voters
      <4> QED BY <3>3, <4>1, <4>2 DEF LeaderHasMajority, Majority, Voters
    <3>6. Leads[n] = 0
      BY <3>3 DEF Leads
    <3>7. Leads' = [Leads EXCEPT ![n] = t]
      BY <2>1, <3>3, <3>4 DEF Leads
    <3>8. \A b \in ballots : b[1] = n => b[2] <= t
      BY <3>3 DEF BallotsSound
    <3>9. Promised!Cardinality(Promised!Voters(t, n)) > Promised!Cardinality(Node) \div 2
      BY Zenon, <3>5 DEF Promised!Voters, Voters, Promised!Cardinality, Cardinality
    <3>10. Promised!Elect(n, t)
      BY <3>4, <3>5, <3>6, <3>7, <3>8, <3>9 DEF Promised!Elect, Leads
    <3> QED BY <3>10 DEF Promised!Next, Terms
  <2> QED BY CalmSteps, <2>2, <2>3, <2>4, <2>5, <2>6, <2>7, <2>8
<1> QED BY <1>1, <1>2, ElectionInvariant, PTL DEF Spec, LeadershipImplemented, Promised!Spec, Leads
-----------------------------------------------------------------------------
(* What a leader of Raft does and says: only a newer term deposes it, and  *)
(* until then it only appends to its log.                                  *)

(* Every round, and every heartbeat, is that of a node a majority elected  *)
(* to the term it names.                                                   *)
RoundsOfLeaders ==
  \A i \in Node : \A rd \in rounds[i] :
    /\ i \notin rd.todo
    /\ Majority(Cardinality(Voters(rd.term, i)))

HeartbeatsOfLeaders ==
  \A m \in appendReqs :
    /\ m.from # m.to
    /\ Majority(Cardinality(Voters(m.term, m.from)))

LEMMA RequestFields ==
  ASSUME TypeOK
  PROVE  \A m \in appendReqs : m.from \in Node /\ m.to \in Node /\ m.term \in Nat
<1>1. \A m \in AppendReq : m.from \in Node /\ m.to \in Node /\ m.term \in Nat
  BY DEF AppendReq
<1> QED BY <1>1 DEF TypeOK, AppendsTyped

(* A log write changes no round but in what its slice holds. *)
LEMMA WriteKeepsTerms ==
  ASSUME rounds \in [Node -> SUBSET Round], NEW i \in Node,
         NEW k, NEW new, NEW moved, LogWrite(i, k, new, moved)
  PROVE  \A j \in Node : \A rd \in rounds'[j] :
           \E old \in rounds[j] : rd.term = old.term /\ rd.todo = old.todo
<1> DEFINE log == SubSeq(Log[i], 1, k) \o new
           sharing == {rd \in rounds[i] : rd.shared}
           seen(rd) == [n \in DOMAIN rd.logs |->
                          IF n \in k+1 .. Len(log) THEN log[n] ELSE rd.logs[n]]
           apart == {[rd EXCEPT !.shared = FALSE] : rd \in rounds[i]}
           rewritten == {[rd EXCEPT !.logs = seen(rd)] : rd \in sharing}
<1>1. rounds' = IF moved THEN Set(rounds, i, apart)
                ELSE Set(rounds, i, (rounds[i] \ sharing) \cup rewritten)
  BY DEF LogWrite
<1>2. \A rd \in rounds[i] : rd \in Round
  OBVIOUS
<1>3. ASSUME NEW rd \in Round, NEW l
      PROVE  /\ [rd EXCEPT !.shared = FALSE].term = rd.term
             /\ [rd EXCEPT !.shared = FALSE].todo = rd.todo
             /\ [rd EXCEPT !.logs = l].term = rd.term
             /\ [rd EXCEPT !.logs = l].todo = rd.todo
  BY DEF Round
<1>4. ASSUME NEW rd \in apart
      PROVE  \E old \in rounds[i] : rd.term = old.term /\ rd.todo = old.todo
  <2>1. PICK old \in rounds[i] : rd = [old EXCEPT !.shared = FALSE]
    OBVIOUS
  <2> QED BY <1>2, <1>3, <2>1
<1>5. ASSUME NEW rd \in rewritten
      PROVE  \E old \in rounds[i] : rd.term = old.term /\ rd.todo = old.todo
  <2>1. PICK old \in rounds[i] : rd = [old EXCEPT !.logs = seen(old)]
    OBVIOUS
  <2> HIDE DEF seen
  <2> QED BY <1>2, <1>3, <2>1
<1> HIDE DEF apart, rewritten, sharing
<1>6. \A j \in Node \ {i} : rounds'[j] = rounds[j]
  BY <1>1
<1>7. \A rd \in rounds'[i] : rd \in apart \/ rd \in rewritten \/ rd \in rounds[i]
  BY <1>1
<1> QED BY <1>4, <1>5, <1>6, <1>7

(* Votes are never withdrawn. *)
LEMMA BallotsGrow ==
  ASSUME ~MayRestart, TypeOK, [Next]_vars
  PROVE  ballots \subseteq ballots'
<1>1. ASSUME NEW i \in Node, Calm(i) \/ StartElection(i) PROVE ballots \subseteq ballots'
  BY <1>1 DEF Calm, StartElection
<1>2. ASSUME NEW m \in voteReqs, GrantVote(m) \/ DenyVote(m) PROVE ballots \subseteq ballots'
  BY <1>2 DEF GrantVote, DenyVote
<1>3. ASSUME NEW m \in voteReplies, CountVote(m) \/ WinElection(m)
      PROVE  ballots \subseteq ballots'
  BY <1>3 DEF CountVote, WinElection
<1> QED BY CalmSteps, <1>1, <1>2, <1>3 DEF Still

LEMMA MajoritiesStay ==
  ASSUME ballots \subseteq ballots', NEW t, NEW c,
         Majority(Cardinality(Voters(t, c)))
  PROVE  Majority(Cardinality(Voters(t, c)'))
<1>1. /\ Voters(t, c) \subseteq Voters(t, c)' /\ Voters(t, c) \in SUBSET Node
      /\ Voters(t, c)' \in SUBSET Node
  BY DEF Voters
<1> QED BY <1>1, Counting

(* What a step may do to the rounds and the heartbeats *)
LEMMA RoundSteps ==
  ASSUME ~MayRestart, TypeOK, [Next]_vars
  PROVE  /\ \A j \in Node : \A rd \in rounds'[j] :
              \/ \E old \in rounds[j] : rd.term = old.term /\ rd.todo \subseteq old.todo
              \/ State[j] = "Leader" /\ rd.term = CurrentTerm[j] /\ rd.todo = Peers(j)
         /\ \A m \in appendReqs' :
              \/ m \in appendReqs
              \/ \E rd \in rounds[m.from] : m.term = rd.term /\ m.to \in rd.todo
<1> DEFINE RGoal == \A j \in Node : \A rd \in rounds'[j] :
              \/ \E old \in rounds[j] : rd.term = old.term /\ rd.todo \subseteq old.todo
              \/ State[j] = "Leader" /\ rd.term = CurrentTerm[j] /\ rd.todo = Peers(j)
           MGoal == \A m \in appendReqs' :
              \/ m \in appendReqs
              \/ \E rd \in rounds[m.from] : m.term = rd.term /\ m.to \in rd.todo
<1> SUFFICES RGoal /\ MGoal
  OBVIOUS
<1>1. rounds \in [Node -> SUBSET Round] /\ outages \in Nat
  BY DEF TypeOK, GoroutinesTyped
<1>2. ASSUME rounds' = rounds, appendReqs' \subseteq appendReqs PROVE RGoal /\ MGoal
  BY <1>2
<1>3. ASSUME NEW i \in Node, NEW k, NEW new, NEW moved, LogWrite(i, k, new, moved)
      PROVE  RGoal
  BY <1>1, <1>3, WriteKeepsTerms
<1>4. ASSUME NEW i \in Node, BeginRound(i) PROVE RGoal /\ MGoal
  <2> DEFINE new == [term |-> CurrentTerm[i], commit |-> CommitIndex[i],
                     logs |-> Log[i], shared |-> TRUE, todo |-> Peers(i)]
  <2>1. new.term = CurrentTerm[i] /\ new.todo = Peers(i)
    OBVIOUS
  <2>2. State[i] = "Leader" /\ appendReqs' = appendReqs
    BY <1>4 DEF BeginRound
  <2>3. rounds' = Set(rounds, i, rounds[i] \cup {new})
    BY Zenon, <1>4 DEF BeginRound
  <2> HIDE DEF new
  <2> QED BY <1>1, <2>1, <2>2, <2>3
<1>5. ASSUME NEW i \in Node, NEW rd \in rounds[i], NEW p \in rd.todo,
             SendHeartbeat(i, rd, p)
      PROVE  RGoal /\ MGoal
  <2> DEFINE todo == rd.todo \ {p}
             rest == [rd EXCEPT !.todo = todo]
             msg  == HeartbeatFor(i, rd, p)
  <2>1. rest.term = rd.term /\ rest.todo = todo /\ todo \subseteq rd.todo
    BY <1>1 DEF Round
  <2>2. msg.from = i /\ msg.to = p /\ msg.term = rd.term
    BY DEF HeartbeatFor
  <2>3. /\ appendReqs' = appendReqs \cup {msg}
        /\ rounds' = Set(rounds, i, (rounds[i] \ {rd}) \cup
                                    IF todo = {} THEN {} ELSE {rest})
    BY <1>5 DEF SendHeartbeat
  <2> HIDE DEF msg, rest, todo
  <2> QED BY <1>1, <2>1, <2>2, <2>3
<1> HIDE DEF RGoal, MGoal
<1>6. CASE UNCHANGED vars
  BY <1>2, <1>6 DEF vars
<1>7. ASSUME NEW i \in Node, \/ Timers(i) \/ Elections(i) \/ IdleRound(i) \/ Stop(i)
      PROVE  RGoal /\ MGoal
  BY <1>2, <1>7 DEF Timers, FireElectionTimer, FireHeartbeatTimer, Elections,
       StartElection, SkipElection, RearmElectionTimer, IdleRound, Stop
<1>8. ASSUME NEW i \in Node, NEW op \in Op, ProposeState(i, op) PROVE RGoal /\ MGoal
  <2>1. RGoal
    BY <1>3, <1>8 DEF ProposeState
  <2>2. MGoal
    BY <1>8 DEF ProposeState, MGoal
  <2> QED BY <2>1, <2>2
<1>9. ASSUME NEW m \in voteReqs, HandleVoteRequest(m) PROVE RGoal /\ MGoal
  BY <1>2, <1>9 DEF HandleVoteRequest, GrantVote, DenyVote
<1>10. ASSUME NEW m \in voteReplies, HandleVoteReply(m) PROVE RGoal /\ MGoal
  BY <1>2, <1>10 DEF HandleVoteReply, VoteReplyNewerTerm, CountVote, WinElection,
       IgnoreVoteReply
<1>11. ASSUME NEW m \in appendReqs, HandleLeaderHeartbeat(m) PROVE RGoal /\ MGoal
  <2>1. CASE RejectStaleLeader(m) \/ RejectMismatch(m)
    BY <1>2, <2>1 DEF RejectStaleLeader, RejectMismatch, FollowLeader
  <2>2. CASE AcceptEntries(m)
    <3>1. RGoal
      BY <1>3, <2>2, RequestFields DEF AcceptEntries
    <3>2. MGoal
      BY <2>2 DEF AcceptEntries, FollowLeader, MGoal
    <3> QED BY <3>1, <3>2
  <2> QED BY <1>11, <2>1, <2>2 DEF HandleLeaderHeartbeat
<1>12. ASSUME NEW m \in appendReplies, HandleAppendReply(m) PROVE RGoal /\ MGoal
  BY <1>2, <1>12 DEF HandleAppendReply, IgnoreAppendReply, AppendReplyNewerTerm,
       RecordMatch, BackOff
<1>13. ASSUME NEW i \in Node PROVE ~ Restart(i)
  BY <1>1 DEF Restart
<1>14. CASE \E i \in Node : \/ Timers(i) \/ Elections(i) \/ Heartbeats(i)
                            \/ Stop(i) \/ Restart(i)
  BY <1>4, <1>7, <1>13, <1>14 DEF Heartbeats
<1>15. CASE \E i \in Node : \E op \in Op : ProposeState(i, op)
  BY <1>8, <1>15
<1>16. CASE \E i \in Node : \E rd \in rounds[i] : \E p \in rd.todo : SendHeartbeat(i, rd, p)
  BY <1>5, <1>16
<1>17. CASE Next
  BY Zenon, <1>9, <1>10, <1>11, <1>12, <1>14, <1>15, <1>16, <1>17 DEF Next
<1> QED BY <1>6, <1>17

LEMMA LeadershipInvariant ==
  ASSUME ~MayRestart
  PROVE  Spec => [](TypeOK /\ IInv /\ RoundsOfLeaders /\ HeartbeatsOfLeaders)
<1>1. Init => RoundsOfLeaders /\ HeartbeatsOfLeaders
  BY DEF Init, RoundsOfLeaders, HeartbeatsOfLeaders
<1>2. TypeOK /\ TypeOK' /\ IInv /\ RoundsOfLeaders /\ HeartbeatsOfLeaders /\ [Next]_vars
        => RoundsOfLeaders' /\ HeartbeatsOfLeaders'
  <2> SUFFICES ASSUME TypeOK, TypeOK', IInv, RoundsOfLeaders, HeartbeatsOfLeaders, [Next]_vars
               PROVE  RoundsOfLeaders' /\ HeartbeatsOfLeaders'
    OBVIOUS
  <2>1. ballots \subseteq ballots'
    BY BallotsGrow
  <2>2. \A j \in Node : \A rd \in rounds'[j] :
          \/ \E old \in rounds[j] : rd.term = old.term /\ rd.todo \subseteq old.todo
          \/ State[j] = "Leader" /\ rd.term = CurrentTerm[j] /\ rd.todo = Peers(j)
    BY RoundSteps
  <2>3. \A m \in appendReqs' :
          \/ m \in appendReqs
          \/ \E rd \in rounds[m.from] : m.term = rd.term /\ m.to \in rd.todo
    BY RoundSteps
  <2>4. RoundsOfLeaders'
    <3> SUFFICES ASSUME NEW j \in Node, NEW rd \in rounds'[j]
                 PROVE  j \notin rd.todo /\ Majority(Cardinality(Voters(rd.term, j)'))
      BY DEF RoundsOfLeaders, Voters
    <3>1. j \notin rd.todo /\ Majority(Cardinality(Voters(rd.term, j)))
      BY <2>2 DEF RoundsOfLeaders, IInv, LeaderHasMajority, Peers
    <3> QED BY <2>1, <3>1, MajoritiesStay
  <2>5. HeartbeatsOfLeaders'
    <3> SUFFICES ASSUME NEW m \in appendReqs'
                 PROVE  m.from # m.to /\ Majority(Cardinality(Voters(m.term, m.from)'))
      BY DEF HeartbeatsOfLeaders, Voters
    <3>1. m.from \in Node
      <4>1. \A r \in AppendReq : r.from \in Node
        BY DEF AppendReq
      <4> QED BY <4>1 DEF TypeOK, AppendsTyped
    <3>2. m.from # m.to /\ Majority(Cardinality(Voters(m.term, m.from)))
      BY <2>3, <3>1 DEF RoundsOfLeaders, HeartbeatsOfLeaders
    <3> QED BY <2>1, <3>2, MajoritiesStay
  <2> QED BY <2>4, <2>5
<1> QED BY <1>1, <1>2, ElectionInvariant, PTL DEF Spec

-----------------------------------------------------------------------------
(* No leader hears a heartbeat of its own term.                            *)
LEMMA LeaderHearsNoEqual ==
  ASSUME TypeOK, IInv, HeartbeatsOfLeaders, NEW m \in appendReqs,
         State[m.to] = "Leader"
  PROVE  m.term # CurrentTerm[m.to]
<1> SUFFICES ASSUME m.term = CurrentTerm[m.to] PROVE FALSE
  OBVIOUS
<1>1. m.from \in Node /\ m.to \in Node /\ m.from # m.to
  BY RequestFields DEF HeartbeatsOfLeaders
<1>2. /\ Majority(Cardinality(Voters(m.term, m.from)))
      /\ Majority(Cardinality(Voters(m.term, m.to)))
  BY <1>1 DEF IInv, LeaderHasMajority, HeartbeatsOfLeaders
<1>3. PICK v \in Voters(m.term, m.from) : v \in Voters(m.term, m.to)
  BY <1>2, Overlap DEF Voters
<1> QED BY <1>1, <1>3 DEF IInv, BallotsSound, Voters

(* HandleLeaderHeartbeat makes any receiver of a current term a follower,  *)
(* but a leader only ever steps down for a newer one.                      *)
THEOREM LeadersYieldToNewerTerms ==
  ASSUME ~MayRestart
  PROVE  Spec => StepsDownOnlyForNewerTerm
<1> DEFINE Yields == \A i \in Node :
                       State[i] = "Leader" /\ State'[i] # "Leader"
                         => CurrentTerm'[i] > CurrentTerm[i]
<1>1. TypeOK /\ IInv /\ HeartbeatsOfLeaders /\ [Next]_vars => [Yields]_vars
  <2> SUFFICES ASSUME TypeOK, IInv, HeartbeatsOfLeaders, [Next]_vars,
                      NEW i \in Node, State[i] = "Leader", State'[i] # "Leader"
               PROVE  CurrentTerm'[i] > CurrentTerm[i]
    OBVIOUS
  <2>1. /\ CurrentTerm \in [Node -> Nat]
        /\ State \in [Node -> {"Follower", "Candidate", "Leader"}]
    BY DEF TypeOK, TermsTyped
  <2>2. ASSUME NEW j \in Node, Calm(j) PROVE CurrentTerm'[i] > CurrentTerm[i]
    <3>1. i = j /\ ~ UNCHANGED <<CurrentTerm, VotedFor, State>>
      BY <2>1, <2>2 DEF Calm
    <3>2. PICK t \in Nat :
            /\ CurrentTerm' = Set(CurrentTerm, i, t)
            /\ t > CurrentTerm[i] \/ \E m \in appendReqs : m.to = i /\ m.term = CurrentTerm[i]
      BY <2>2, <3>1 DEF Calm
    <3>3. ASSUME NEW m \in appendReqs, m.to = i PROVE m.term # CurrentTerm[i]
      BY <3>3, LeaderHearsNoEqual
    <3> QED BY <2>1, <3>2, <3>3
  <2>3. ASSUME NEW j \in Node PROVE ~ StartElection(j)
    BY <2>1 DEF StartElection
  <2>4. ASSUME NEW m \in voteReqs, GrantVote(m) PROVE CurrentTerm'[i] > CurrentTerm[i]
    <3>1. m.to \in Node /\ m.term \in Nat
      BY VoteFields
    <3> QED BY <2>1, <2>4, <3>1 DEF GrantVote
  <2>5. ASSUME NEW m \in voteReqs PROVE ~ DenyVote(m)
    BY DEF DenyVote
  <2>6. ASSUME NEW m \in voteReplies PROVE ~ CountVote(m) /\ ~ WinElection(m)
    BY <2>1 DEF CountVote, WinElection
  <2> QED BY CalmSteps, <2>2, <2>3, <2>4, <2>5, <2>6 DEF Still
<1> QED BY <1>1, LeadershipInvariant, PTL DEF Spec, StepsDownOnlyForNewerTerm

(* What a step may do to a log: nothing, append one entry as a leader, or  *)
(* obey a heartbeat.                                                       *)
LEMMA LogSteps ==
  ASSUME ~MayRestart, TypeOK, [Next]_vars
  PROVE  \/ Log' = Log
         \/ \E i \in Node, op \in Op : ProposeState(i, op)
         \/ \E m \in appendReqs : AcceptEntries(m)
<1> DEFINE Goal == \/ Log' = Log
                   \/ \E i \in Node, op \in Op : ProposeState(i, op)
                   \/ \E m \in appendReqs : AcceptEntries(m)
<1> SUFFICES Goal
  OBVIOUS
<1>1. ASSUME NEW i \in Node PROVE ~ Restart(i)
  BY DEF TypeOK, GoroutinesTyped, Restart
<1>2. ASSUME NEW i \in Node, \/ Timers(i) \/ Elections(i) \/ Heartbeats(i) \/ Stop(i)
      PROVE  Log' = Log
  BY <1>2 DEF Timers, FireElectionTimer, FireHeartbeatTimer, Elections, StartElection,
       SkipElection, RearmElectionTimer, Heartbeats, BeginRound, IdleRound, Stop
<1>3. ASSUME NEW i \in Node, NEW rd \in rounds[i], NEW p \in rd.todo,
             SendHeartbeat(i, rd, p)
      PROVE  Log' = Log
  BY <1>3 DEF SendHeartbeat
<1>4. ASSUME NEW m \in voteReqs, HandleVoteRequest(m) PROVE Log' = Log
  BY <1>4 DEF HandleVoteRequest, GrantVote, DenyVote
<1>5. ASSUME NEW m \in voteReplies, HandleVoteReply(m) PROVE Log' = Log
  BY <1>5 DEF HandleVoteReply, VoteReplyNewerTerm, CountVote, WinElection, IgnoreVoteReply
<1>6. ASSUME NEW m \in appendReqs, HandleLeaderHeartbeat(m)
      PROVE  Log' = Log \/ AcceptEntries(m)
  BY <1>6 DEF HandleLeaderHeartbeat, RejectStaleLeader, RejectMismatch
<1>7. ASSUME NEW m \in appendReplies, HandleAppendReply(m) PROVE Log' = Log
  BY <1>7 DEF HandleAppendReply, IgnoreAppendReply, AppendReplyNewerTerm, RecordMatch, BackOff
<1>8. CASE UNCHANGED vars
  BY <1>8 DEF vars
<1>9. CASE Next
  BY Zenon, <1>1, <1>2, <1>3, <1>4, <1>5, <1>6, <1>7, <1>9 DEF Next
<1> QED BY <1>8, <1>9

(* In the term it leads a node only ever appends: HandleLeaderHeartbeat    *)
(* cuts the log of whoever it reaches, but never that of a leader.         *)
THEOREM LeadersOnlyAppend ==
  ASSUME ~MayRestart
  PROVE  Spec => LeaderAppendOnly
<1> DEFINE Appends == \A i \in Node :
                        State[i] = "Leader" /\ CurrentTerm'[i] = CurrentTerm[i]
                          => /\ Len(Log'[i]) >= Len(Log[i])
                             /\ SubSeq(Log'[i], 1, Len(Log[i])) = Log[i]
<1>1. TypeOK /\ IInv /\ HeartbeatsOfLeaders /\ [Next]_vars => [Appends]_vars
  <2> SUFFICES ASSUME TypeOK, IInv, HeartbeatsOfLeaders, [Next]_vars, NEW i \in Node,
                      State[i] = "Leader", CurrentTerm'[i] = CurrentTerm[i]
               PROVE  /\ Len(Log'[i]) >= Len(Log[i])
                      /\ SubSeq(Log'[i], 1, Len(Log[i])) = Log[i]
    OBVIOUS
  <2>1. /\ Log \in [Node -> Seq(LogEntry)] /\ CurrentTerm \in [Node -> Nat]
        /\ Log[i] \in Seq(LogEntry) /\ Len(Log[i]) \in Nat
        /\ SubSeq(Log[i], 1, Len(Log[i])) = Log[i]
    BY SubSeqFull, LenProperties DEF TypeOK, LogsTyped, TermsTyped
  <2>2. CASE Log'[i] = Log[i]
    BY <2>1, <2>2
  <2>3. ASSUME NEW j \in Node, NEW op \in Op, ProposeState(j, op), Log'[i] # Log[i]
        PROVE  /\ Len(Log'[i]) >= Len(Log[i])
               /\ SubSeq(Log'[i], 1, Len(Log[i])) = Log[i]
    <3> DEFINE e == [Term |-> CurrentTerm[j], Op |-> op]
    <3>1. e \in LogEntry /\ <<e>> \in Seq(LogEntry) /\ Len(<<e>>) = 1
      BY <2>1 DEF LogEntry
    <3>2. Log' = Set(Log, j, SubSeq(Log[j], 1, Len(Log[j])) \o <<e>>)
      BY <2>3 DEF ProposeState, LogWrite
    <3> HIDE DEF e
    <3>3. Log'[i] = Log[i] \o <<e>>
      BY <2>1, <2>3, <3>2
    <3>4. /\ Log'[i] \in Seq(LogEntry) /\ Len(Log'[i]) = Len(Log[i]) + 1
          /\ \A n \in 1 .. Len(Log[i]) : Log'[i][n] = Log[i][n]
      BY <2>1, <3>1, <3>3, ConcatProperties
    <3>5. /\ SubSeq(Log'[i], 1, Len(Log[i])) \in Seq(LogEntry)
          /\ Len(SubSeq(Log'[i], 1, Len(Log[i]))) = Len(Log[i])
          /\ \A n \in 1 .. Len(Log[i]) : SubSeq(Log'[i], 1, Len(Log[i]))[n] = Log[i][n]
      <4>1. \A n \in 1 .. Len(Log[i]) : Log'[i][n] \in LogEntry
        BY <2>1, <3>4, ElementOfSeq
      <4> QED BY <2>1, <3>4, <4>1, SubSeqProperties
    <3> QED BY <2>1, <3>4, <3>5, SeqEqual
  <2>4. ASSUME NEW m \in appendReqs, AcceptEntries(m) PROVE Log'[i] = Log[i]
    <3>1. m.to \in Node /\ m.term \in Nat
      BY RequestFields
    <3>2. m.to # i
      BY <2>1, <2>4, <3>1, LeaderHearsNoEqual DEF AcceptEntries, FollowLeader
    <3> QED BY <2>1, <2>4, <3>1, <3>2 DEF AcceptEntries, LogWrite
  <2> QED BY LogSteps, <2>2, <2>3, <2>4
<1> QED BY <1>1, LeadershipInvariant, PTL DEF Spec, LeaderAppendOnly
=============================================================================
