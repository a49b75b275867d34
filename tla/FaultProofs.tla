----------------------------- MODULE FaultProofs -----------------------------
(***************************************************************************)
(* Theorems about FaultManager, for any peers, gossip and limits.          *)
(***************************************************************************)
EXTENDS FaultManager, FiniteSetTheorems, TLAPS

USE LimitsAreNatural, GossipReachesSomebody, GossipIsAboutOthers, SwitchIsBoolean
USE DEF detectorVars, callbackVars, recoveryVars, gossipVars, inputVars, Put

-----------------------------------------------------------------------------
(* Types *)

(* The rounds that follow from one: a target less, or none left. *)
LEMMA RoundsKeepTheirType ==
  ASSUME TypeOK, NEW s \in spreads, NEW p \in s.todo
  PROVE  /\ s.about \in Peer /\ p \in Peer
         /\ [s EXCEPT !.todo = s.todo \ {p}] \in
              [about : Peer, round : 1 .. MaxRounds, todo : SUBSET Peer]
BY DEF TypeOK

LEMMA InitIsTyped == Init => TypeOK
BY DEF Init, TypeOK

LEMMA StepsKeepTypes == TypeOK /\ [Next]_vars => TypeOK'
<1> SUFFICES ASSUME TypeOK, [Next]_vars PROVE TypeOK'
  OBVIOUS
<1>1. ASSUME NEW n \in Peer, FallSilent(n) PROVE TypeOK'
  BY <1>1 DEF FallSilent, TypeOK
<1>2. ASSUME NEW n \in Peer, RecordHeartbeat(n) PROVE TypeOK'
  BY <1>2 DEF RecordHeartbeat, TypeOK
<1>3. ASSUME CheckAll PROVE TypeOK'
  BY <1>3 DEF CheckAll, TypeOK
<1>4. ASSUME NEW n \in Peer, ReportFailure(n) PROVE TypeOK'
  BY <1>4 DEF ReportFailure, OnFailure, TypeOK
<1>5. ASSUME NEW n \in Peer, ReportConfirmed(n) PROVE TypeOK'
  BY <1>5 DEF ReportConfirmed, OnFailure, TypeOK
<1>6. ASSUME NEW n \in Peer, OnNodeRejoin(n) PROVE TypeOK'
  BY <1>6 DEF OnNodeRejoin, TypeOK
<1>7. ASSUME NEW n \in Peer, SpreadFailure(n) PROVE TypeOK'
  <2>1. /\ due' \in [Peer -> Nat]
        /\ rumours' \in [Peer -> 0 .. MaxRounds]
    BY <1>7 DEF SpreadFailure, TypeOK
  <2>2. spreads' \subseteq [about : Peer, round : 1 .. MaxRounds, todo : SUBSET Peer]
    <3>1. CASE rumours[n] >= MaxRounds
      BY <1>7, <3>1 DEF SpreadFailure, TypeOK
    <3>2. CASE ~(rumours[n] >= MaxRounds)
      <4>1. PICK T \in Targets(n) :
              spreads' = spreads \cup
                IF T = {} THEN {}
                ELSE {[about |-> n, round |-> rumours[n] + 1, todo |-> T]}
        BY <1>7, <3>2 DEF SpreadFailure
      <4>2. T \subseteq Peer
        BY DEF Targets, Candidates
      <4>3. rumours[n] + 1 \in 1 .. MaxRounds
        BY <3>2 DEF TypeOK
      <4> QED
        BY <4>1, <4>2, <4>3 DEF TypeOK
    <3> QED
      BY <3>1, <3>2
  <2> QED
    BY <1>7, <2>1, <2>2 DEF SpreadFailure, TypeOK
<1>8. ASSUME NEW s \in spreads, NEW p \in s.todo, SendGossip(s, p) PROVE TypeOK'
  <2>1. /\ s.about \in Peer /\ p \in Peer
        /\ [s EXCEPT !.todo = s.todo \ {p}] \in
              [about : Peer, round : 1 .. MaxRounds, todo : SUBSET Peer]
    BY RoundsKeepTheirType
  <2>2. spreads' \subseteq [about : Peer, round : 1 .. MaxRounds, todo : SUBSET Peer]
    BY <1>8, <2>1 DEF SendGossip, TypeOK
  <2>3. history' \in [Peer -> SUBSET Peer]
    BY <1>8, <2>1 DEF SendGossip, TypeOK
  <2> QED
    BY <1>8, <2>2, <2>3 DEF SendGossip, TypeOK
<1>9. ASSUME NEW g \in gossips, ReceiveGossip(g) PROVE TypeOK'
  <2>1. g \in Gossips /\ g[2] \in Peer
    BY DEF TypeOK
  <2> QED
    BY <1>9, <2>1 DEF ReceiveGossip, TypeOK
<1>10. ASSUME NEW g \in noting, NoteGossip(g) PROVE TypeOK'
  <2>1. g[1] \in Peer /\ g[2] \in Peer
    BY DEF TypeOK
  <2> QED
    BY <1>10, <2>1 DEF NoteGossip, TypeOK
<1>11. ASSUME UNCHANGED vars PROVE TypeOK'
  BY <1>11 DEF vars, TypeOK
<1> QED
  BY <1>1, <1>2, <1>3, <1>4, <1>5, <1>6, <1>7, <1>8, <1>9, <1>10, <1>11
  DEF Next, Callbacks

(* Every variable keeps its shape, and the news of a peer is spread in     *)
(* MaxRounds rounds at most (SpreadFailure's cap) whoever asks for them.   *)
THEOREM TypesHold == Spec => []TypeOK
BY InitIsTyped, StepsKeepTypes, PTL DEF Spec

-----------------------------------------------------------------------------
(* One report a failure *)

LEMMA StepsReportOnce ==
  TypeOK /\ OncePerFailure /\ [Next]_vars => OncePerFailure'
<1> SUFFICES ASSUME TypeOK, OncePerFailure, [Next]_vars PROVE OncePerFailure'
  OBVIOUS
<1> USE DEF TypeOK, OncePerFailure
<1>1. ASSUME NEW n \in Peer, FallSilent(n) PROVE OncePerFailure'
  BY <1>1 DEF FallSilent
<1>2. ASSUME NEW n \in Peer, RecordHeartbeat(n) PROVE OncePerFailure'
  BY <1>2 DEF RecordHeartbeat
<1>3. ASSUME CheckAll PROVE OncePerFailure'
  BY <1>3 DEF CheckAll
<1>4. ASSUME NEW n \in Peer, ReportFailure(n) PROVE OncePerFailure'
  BY <1>4 DEF ReportFailure, OnFailure
<1>5. ASSUME NEW n \in Peer, ReportConfirmed(n) PROVE OncePerFailure'
  BY <1>5 DEF ReportConfirmed, OnFailure
<1>6. ASSUME NEW n \in Peer, OnNodeRejoin(n) PROVE OncePerFailure'
  BY <1>6 DEF OnNodeRejoin
<1>7. ASSUME NEW n \in Peer, SpreadFailure(n) PROVE OncePerFailure'
  BY <1>7 DEF SpreadFailure
<1>8. ASSUME NEW s \in spreads, NEW p \in s.todo, SendGossip(s, p)
      PROVE OncePerFailure'
  BY <1>8 DEF SendGossip
<1>9. ASSUME NEW g \in gossips, ReceiveGossip(g) PROVE OncePerFailure'
  <2>1. g[2] \in Peer
    OBVIOUS
  <2> QED
    BY <1>9, <2>1 DEF ReceiveGossip
<1>10. ASSUME NEW g \in noting, NoteGossip(g) PROVE OncePerFailure'
  BY <1>10 DEF NoteGossip
<1>11. ASSUME UNCHANGED vars PROVE OncePerFailure'
  BY <1>11 DEF vars
<1> QED
  BY <1>1, <1>2, <1>3, <1>4, <1>5, <1>6, <1>7, <1>8, <1>9, <1>10, <1>11
  DEF Next, Callbacks

(* Monitor and gossip never both report one failure, and none goes         *)
(* unreported: the status is tested and set under the detector's mutex.    *)
THEOREM FailuresReportedOnce == Spec => []OncePerFailure
<1>1. Init => OncePerFailure
  BY DEF Init, OncePerFailure
<1> QED
  BY <1>1, InitIsTyped, StepsKeepTypes, StepsReportOnce, PTL DEF Spec

-----------------------------------------------------------------------------
(* What RecoveryKeepsUp needs to be inductive when callbacks finish before *)
(* the next event: where the callback of the last event stands.            *)
Reporting(n) == n \in justFailed \/ confirmed[n] = 1

RecoveryOf(n) ==
  /\ confirmed[n] \in {0, 1} /\ rejoining[n] \in {0, 1}
  /\ n \in justFailed => confirmed[n] = 0
  /\ Reporting(n) =>
       /\ rejoining[n] = 0 /\ status[n] = "failed" /\ record[n] # "pending"
       /\ recovered[n] = failures[n] - 1
  /\ rejoining[n] = 1 =>
       /\ status[n] = "alive" /\ record[n] = "pending"
       /\ recovered[n] = failures[n] - 1
  /\ ~Reporting(n) /\ rejoining[n] = 0 =>
       /\ status[n] = "failed" <=> record[n] = "pending"
       /\ recovered[n] = IF status[n] = "failed" THEN failures[n] - 1 ELSE failures[n]

RecoveryInv == \A n \in Peer : RecoveryOf(n)

(* An event of the world finds no callback under way. *)
LEMMA EventsFindCallbacksDone ==
  ASSUME ~Interleaved, Quiet, NEW m \in Peer
  PROVE  m \notin justFailed /\ confirmed[m] = 0 /\ rejoining[m] = 0
BY DEF Quiet, Settled

(* A step that leaves alone what the detector, the callbacks and the       *)
(* records say of a peer leaves its recovery alone.                        *)
LEMMA OthersRecoveryStays ==
  ASSUME NEW m \in Peer, RecoveryOf(m),
         m \in justFailed' <=> m \in justFailed,
         confirmed'[m] = confirmed[m], rejoining'[m] = rejoining[m],
         status'[m] = status[m], record'[m] = record[m],
         recovered'[m] = recovered[m], failures'[m] = failures[m]
  PROVE  RecoveryOf(m)'
BY DEF RecoveryOf, Reporting

LEMMA StepsKeepRecovery ==
  ASSUME ~Interleaved, TypeOK, RecoveryInv, [Next]_vars
  PROVE  RecoveryInv'
<1> SUFFICES ASSUME NEW m \in Peer PROVE RecoveryOf(m)'
  BY DEF RecoveryInv
<1>0. RecoveryOf(m)
  BY DEF RecoveryInv
<1>1. ASSUME NEW n \in Peer, FallSilent(n) PROVE RecoveryOf(m)'
  BY <1>0, <1>1, OthersRecoveryStays DEF FallSilent
<1>2. ASSUME NEW n \in Peer, RecordHeartbeat(n) PROVE RecoveryOf(m)'
  <2>1. m \notin justFailed /\ confirmed[m] = 0 /\ rejoining[m] = 0
    BY <1>2, EventsFindCallbacksDone DEF RecordHeartbeat
  <2>2. CASE m = n /\ status[n] = "failed"
    BY <1>0, <1>2, <2>1, <2>2 DEF RecordHeartbeat, RecoveryOf, Reporting, TypeOK
  <2>3. CASE ~(m = n /\ status[n] = "failed")
    <3>1. status'[m] = status[m] /\ rejoining'[m] = rejoining[m]
      BY <1>2, <2>3 DEF RecordHeartbeat, TypeOK
    <3> QED
      BY <1>0, <1>2, <3>1, OthersRecoveryStays DEF RecordHeartbeat
  <2> QED
    BY <2>2, <2>3
<1>3. ASSUME CheckAll PROVE RecoveryOf(m)'
  <2>1. m \notin justFailed /\ confirmed[m] = 0 /\ rejoining[m] = 0
    BY <1>3, EventsFindCallbacksDone DEF CheckAll
  <2> QED
    BY <1>0, <1>3, <2>1 DEF CheckAll, RecoveryOf, Reporting, TypeOK
<1>4. ASSUME NEW n \in Peer, ReportFailure(n) PROVE RecoveryOf(m)'
  <2>1. CASE m = n
    BY <1>0, <1>4, <2>1 DEF ReportFailure, OnFailure, RecoveryOf, Reporting, TypeOK
  <2>2. CASE m # n
    BY <1>0, <1>4, <2>2, OthersRecoveryStays DEF ReportFailure, OnFailure, TypeOK
  <2> QED
    BY <2>1, <2>2
<1>5. ASSUME NEW n \in Peer, ReportConfirmed(n) PROVE RecoveryOf(m)'
  <2>1. CASE m = n
    BY <1>0, <1>5, <2>1 DEF ReportConfirmed, OnFailure, RecoveryOf, Reporting, TypeOK
  <2>2. CASE m # n
    BY <1>0, <1>5, <2>2, OthersRecoveryStays DEF ReportConfirmed, OnFailure, TypeOK
  <2> QED
    BY <2>1, <2>2
<1>6. ASSUME NEW n \in Peer, OnNodeRejoin(n) PROVE RecoveryOf(m)'
  <2>1. CASE m = n
    BY <1>0, <1>6, <2>1 DEF OnNodeRejoin, RecoveryOf, Reporting, TypeOK
  <2>2. CASE m # n
    BY <1>0, <1>6, <2>2, OthersRecoveryStays DEF OnNodeRejoin, TypeOK
  <2> QED
    BY <2>1, <2>2
<1>7. ASSUME NEW n \in Peer, SpreadFailure(n) PROVE RecoveryOf(m)'
  BY <1>0, <1>7, OthersRecoveryStays DEF SpreadFailure
<1>8. ASSUME NEW s \in spreads, NEW p \in s.todo, SendGossip(s, p)
      PROVE RecoveryOf(m)'
  BY <1>0, <1>8, OthersRecoveryStays DEF SendGossip
<1>9. ASSUME NEW g \in gossips, ReceiveGossip(g) PROVE RecoveryOf(m)'
  <2>1. m \notin justFailed /\ confirmed[m] = 0 /\ rejoining[m] = 0
    BY <1>9, EventsFindCallbacksDone DEF ReceiveGossip
  <2>2. g[2] \in Peer
    BY DEF TypeOK
  <2>3. CASE m = g[2] /\ status[m] = "alive"
    BY <1>0, <1>9, <2>1, <2>3 DEF ReceiveGossip, RecoveryOf, Reporting, TypeOK
  <2>4. CASE ~(m = g[2] /\ status[m] = "alive")
    <3>1. /\ status'[m] = status[m] /\ failures'[m] = failures[m]
          /\ confirmed'[m] = confirmed[m]
      BY <1>9, <2>2, <2>4 DEF ReceiveGossip, TypeOK
    <3> QED
      BY <1>0, <1>9, <3>1, OthersRecoveryStays DEF ReceiveGossip
  <2> QED
    BY <2>3, <2>4
<1>10. ASSUME NEW g \in noting, NoteGossip(g) PROVE RecoveryOf(m)'
  BY <1>0, <1>10, OthersRecoveryStays DEF NoteGossip
<1>11. ASSUME UNCHANGED vars PROVE RecoveryOf(m)'
  BY <1>0, <1>11, OthersRecoveryStays DEF vars
<1> QED
  BY <1>1, <1>2, <1>3, <1>4, <1>5, <1>6, <1>7, <1>8, <1>9, <1>10, <1>11
  DEF Next, Callbacks

(* recovery.go:47 is right as long as callbacks finish before the next     *)
(* heartbeat, check or gossip: a failed peer's record is pending, another  *)
(* peer's is not, and every rejoin has made the recovery run.  What breaks *)
(* it is an event between an unlock and the callback that follows it.      *)
THEOREM OrderlyRecoveryKeepsUp ==
  ASSUME ~Interleaved
  PROVE  Spec => []RecoveryKeepsUp
<1>1. Init => RecoveryInv
  BY DEF Init, RecoveryInv, RecoveryOf, Reporting
<1>2. TypeOK /\ RecoveryInv /\ [Next]_vars => RecoveryInv'
  BY StepsKeepRecovery
<1>3. RecoveryInv => RecoveryKeepsUp
  BY DEF RecoveryInv, RecoveryOf, Reporting, RecoveryKeepsUp, Settled
<1> QED
  BY <1>1, <1>2, <1>3, InitIsTyped, StepsKeepTypes, PTL DEF Spec

-----------------------------------------------------------------------------
(* What FirstFailureIsGossiped needs to be inductive: a failure that was   *)
(* reported is on its way to a round, and a counted round has enough peers *)
(* marked or still to tell.  Marks and targets only ever add up.           *)
Named(n) == history[n] \cup UNION {s.todo : s \in {r \in spreads : r.about = n}}
Enough(n, S) == Cardinality(S) >= Fanout \/ Peer \ {n} \subseteq S
OnItsWay(n) == \/ n \in justFailed \/ confirmed[n] > 0 \/ due[n] > 0
               \/ \E g \in noting : g[2] = n

NewsOf(n) == /\ rumours[n] > 0 => Enough(n, Named(n))
             /\ failures[n] > 0 => rumours[n] > 0 \/ OnItsWay(n)

NewsInv == \A n \in Peer : NewsOf(n)

(* More peers named are enough if fewer were. *)
LEMMA EnoughGrows ==
  ASSUME NEW n \in Peer, NEW S, NEW T, Enough(n, S), S \subseteq T, T \subseteq Peer
  PROVE  Enough(n, T)
<1>1. CASE Peer \ {n} \subseteq S
  BY <1>1 DEF Enough
<1>2. CASE Cardinality(S) >= Fanout
  <2>1. IsFiniteSet(T)
    BY PeersFinite, FS_Subset
  <2>2. /\ Cardinality(S) \in Nat /\ Cardinality(T) \in Nat
        /\ Cardinality(S) <= Cardinality(T)
    BY <2>1, FS_Subset, FS_CardinalityType
  <2> QED
    BY <1>2, <2>2 DEF Enough
<1> QED
  BY <1>1, <1>2 DEF Enough

LEMMA RoundsNameEnough ==
  ASSUME TypeOK, TypeOK', NewsInv, NEW n \in Peer, NEW m \in Peer, SpreadFailure(n)
  PROVE  NewsOf(m)'
<1> USE DEF TypeOK
<1>0. NewsOf(m) /\ Named(m)' \subseteq Peer /\ history' = history
  BY DEF NewsInv, SpreadFailure, Named
<1>1. spreads \subseteq spreads'
  BY DEF SpreadFailure
<1>2. Named(m) \subseteq Named(m)'
  BY <1>0, <1>1 DEF Named
<1>3. CASE m # n \/ rumours[n] >= MaxRounds
  <2>1. rumours'[m] = rumours[m] /\ (rumours[m] > 0 \/ due'[m] = due[m])
    BY <1>3 DEF SpreadFailure
  <2>2. rumours'[m] > 0 => Enough(m, Named(m)')
    BY <1>0, <1>2, <2>1, EnoughGrows DEF NewsOf
  <2>3. failures'[m] > 0 => rumours'[m] > 0 \/ OnItsWay(m)'
    BY <1>0, <2>1 DEF NewsOf, OnItsWay, SpreadFailure
  <2> QED
    BY <2>2, <2>3 DEF NewsOf, Enough
<1>4. CASE m = n /\ ~(rumours[n] >= MaxRounds)
  <2> DEFINE round(T) == [about |-> n, round |-> rumours[n] + 1, todo |-> T]
  <2>1. PICK T \in Targets(n) :
          spreads' = spreads \cup IF T = {} THEN {} ELSE {round(T)}
    BY <1>4 DEF SpreadFailure
  <2>2. T \subseteq Named(m)' /\ history[m] \subseteq Named(m)'
    <3>1. round(T).about = n /\ round(T).todo = T
      OBVIOUS
    <3> HIDE DEF round
    <3>2. CASE T = {}
      BY <1>0, <3>2 DEF Named
    <3>3. CASE T # {}
      BY <1>0, <1>4, <2>1, <3>1, <3>3 DEF Named
    <3> QED
      BY <3>2, <3>3
  <2>3. Enough(m, Named(m)')
    <3>1. CASE Cardinality(T) = Fanout
      <4>1. Enough(m, T)
        BY <3>1 DEF Enough
      <4> QED
        BY <1>0, <2>2, <4>1, EnoughGrows
    <3>2. CASE T = Candidates(n)
      BY <1>4, <2>2, <3>2 DEF Candidates, Enough
    <3> QED
      BY <3>1, <3>2 DEF Targets
  <2>4. rumours'[m] > 0
    BY <1>4 DEF SpreadFailure
  <2> QED
    BY <2>3, <2>4 DEF NewsOf, Enough
<1> QED
  BY <1>3, <1>4

(* A step that counts no round takes no name away. *)
LEMMA NamesStay ==
  ASSUME TypeOK', NEW m \in Peer, NewsOf(m), rumours'[m] = rumours[m],
         Named(m) \subseteq Named(m)',
         failures'[m] > 0 => rumours[m] > 0 \/ OnItsWay(m)'
  PROVE  NewsOf(m)'
<1>1. Named(m)' \subseteq Peer
  BY DEF TypeOK, Named
<1>2. rumours[m] > 0 => Enough(m, Named(m)')
  BY <1>1, EnoughGrows DEF NewsOf
<1> QED
  BY <1>2 DEF NewsOf, Enough

LEMMA StepsKeepNews ==
  ASSUME TypeOK, TypeOK', NewsInv, [Next]_vars
  PROVE  NewsInv'
<1> SUFFICES ASSUME NEW m \in Peer PROVE NewsOf(m)'
  BY DEF NewsInv
<1>0. /\ NewsOf(m)
      /\ failures[m] > 0 => rumours[m] > 0 \/ OnItsWay(m)
  BY DEF NewsInv, NewsOf
<1>a. ASSUME UNCHANGED <<history, spreads>> PROVE Named(m) \subseteq Named(m)'
  BY <1>a DEF Named
<1> USE DEF TypeOK, OnItsWay
<1>1. ASSUME NEW n \in Peer, FallSilent(n) PROVE NewsOf(m)'
  BY <1>0, <1>a, <1>1, NamesStay DEF FallSilent
<1>2. ASSUME NEW n \in Peer, RecordHeartbeat(n) PROVE NewsOf(m)'
  BY <1>0, <1>a, <1>2, NamesStay DEF RecordHeartbeat
<1>3. ASSUME CheckAll PROVE NewsOf(m)'
  BY <1>0, <1>a, <1>3, NamesStay DEF CheckAll
<1>4. ASSUME NEW n \in Peer, ReportFailure(n) PROVE NewsOf(m)'
  BY <1>0, <1>a, <1>4, NamesStay DEF ReportFailure, OnFailure
<1>5. ASSUME NEW n \in Peer, ReportConfirmed(n) PROVE NewsOf(m)'
  BY <1>0, <1>a, <1>5, NamesStay DEF ReportConfirmed, OnFailure
<1>6. ASSUME NEW n \in Peer, OnNodeRejoin(n) PROVE NewsOf(m)'
  BY <1>0, <1>a, <1>6, NamesStay DEF OnNodeRejoin
<1>7. ASSUME NEW n \in Peer, SpreadFailure(n) PROVE NewsOf(m)'
  BY <1>7, RoundsNameEnough
<1>8. ASSUME NEW s \in spreads, NEW p \in s.todo, SendGossip(s, p)
      PROVE NewsOf(m)'
  <2> DEFINE rest == [s EXCEPT !.todo = s.todo \ {p}]
  <2>1. s.about \in Peer /\ p \in Peer
    BY RoundsKeepTheirType
  <2>2. rest.about = s.about /\ rest.todo = s.todo \ {p}
    OBVIOUS
  <2>3. /\ spreads' = (spreads \ {s}) \cup
                        IF s.todo \ {p} = {} THEN {} ELSE {rest}
        /\ history' = [history EXCEPT ![s.about] = history[s.about] \cup {p}]
    BY <1>8 DEF SendGossip
  <2> HIDE DEF rest
  <2>4. ASSUME NEW q \in Named(m) PROVE q \in Named(m)'
    <3>1. history[m] \subseteq history'[m]
      BY <2>1, <2>3
    <3>2. CASE q \in history[m]
      BY <3>1, <3>2 DEF Named
    <3>3. ASSUME NEW r \in spreads, r.about = m, q \in r.todo
          PROVE  q \in Named(m)'
      <4>1. CASE r # s
        BY <2>3, <3>3, <4>1 DEF Named
      <4>2. CASE r = s /\ q = p
        BY <2>1, <2>3, <3>3, <4>2 DEF Named
      <4>3. CASE r = s /\ q # p
        <5>1. rest \in spreads' /\ rest.about = m /\ q \in rest.todo
          BY <2>2, <2>3, <3>3, <4>3
        <5> QED
          BY <5>1 DEF Named
      <4> QED
        BY <4>1, <4>2, <4>3
    <3> QED
      BY <2>4, <3>2, <3>3 DEF Named
  <2> QED
    BY <1>0, <1>8, <2>4, NamesStay DEF SendGossip
<1>9. ASSUME NEW g \in gossips, ReceiveGossip(g) PROVE NewsOf(m)'
  <2>1. /\ g[2] \in Peer /\ noting' = noting \cup {g}
        /\ UNCHANGED <<justFailed, rumours, history, due, spreads>>
    BY <1>9 DEF ReceiveGossip
  <2>2. CASE m = g[2]
    BY <1>0, <1>a, <2>1, <2>2, NamesStay
  <2>3. CASE m # g[2]
    <3>1. failures'[m] = failures[m] /\ confirmed'[m] = confirmed[m]
      BY <1>9, <2>1, <2>3 DEF ReceiveGossip
    <3> QED
      BY <1>0, <1>a, <2>1, <3>1, NamesStay
  <2> QED
    BY <2>2, <2>3
<1>10. ASSUME NEW g \in noting, NoteGossip(g) PROVE NewsOf(m)'
  <2>1. g[1] \in Peer /\ g[2] \in Peer
    OBVIOUS
  <2>2. Named(m) \subseteq Named(m)'
    BY <1>10, <2>1 DEF NoteGossip, Named
  <2>3. CASE m = g[2] /\ rumours[m] < MaxRounds
    <3>1. due'[m] > 0 /\ rumours'[m] = rumours[m]
      BY <1>10, <2>1, <2>3 DEF NoteGossip
    <3> QED
      BY <1>0, <2>2, <3>1, NamesStay
  <2>4. CASE m = g[2] /\ ~(rumours[m] < MaxRounds)
    <3>1. rumours[m] > 0 /\ rumours'[m] = rumours[m]
      BY <1>10, <2>1, <2>4 DEF NoteGossip
    <3> QED
      BY <1>0, <2>2, <3>1, NamesStay
  <2>5. CASE m # g[2]
    BY <1>0, <1>10, <2>1, <2>2, <2>5, NamesStay DEF NoteGossip
  <2> QED
    BY <2>3, <2>4, <2>5
<1>11. ASSUME UNCHANGED vars PROVE NewsOf(m)'
  BY <1>0, <1>a, <1>11, NamesStay DEF vars
<1> QED
  BY <1>1, <1>2, <1>3, <1>4, <1>5, <1>6, <1>7, <1>8, <1>9, <1>10, <1>11
  DEF Next, Callbacks

(* The first failure of a peer reaches a round whoever finds it, and the   *)
(* rounds, marks set by gossip that arrives and the round limit together   *)
(* never leave fewer than Fanout peers, or all, sent the gossip or heard.  *)
THEOREM FirstFailuresAreGossiped == Spec => []FirstFailureIsGossiped
<1>1. Init => NewsInv
  BY DEF Init, NewsInv, NewsOf
<1>2. TypeOK /\ TypeOK' /\ NewsInv /\ [Next]_vars => NewsInv'
  BY StepsKeepNews
<1>3. TypeOK /\ NewsInv => FirstFailureIsGossiped
  <2> SUFFICES ASSUME TypeOK, NewsInv, NEW n \in Peer, Settled(n), failures[n] = 1
               PROVE  Enough(n, history[n])
    BY DEF FirstFailureIsGossiped, Enough
  <2>1. rumours[n] > 0 /\ Enough(n, Named(n))
    BY DEF TypeOK, NewsInv, NewsOf, OnItsWay, Settled
  <2>2. Named(n) = history[n]
    BY DEF Named, Settled
  <2> QED
    BY <2>1, <2>2
<1> QED
  BY <1>1, <1>2, <1>3, InitIsTyped, StepsKeepTypes, PTL DEF Spec
=============================================================================
