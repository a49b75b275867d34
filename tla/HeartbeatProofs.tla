--------------------------- MODULE HeartbeatProofs ---------------------------
(* Proofs about Heartbeats and Client: in a cluster of any size whose       *)
(* rounds fit the detector's timeout, whoever runs is suspected for a cause *)
(* only, and so the client passes over a running primary for a cause only.  *)
EXTENDS Client, TLAPS

(* A round, its sleep and its POSTs to peers that listen, fits the timeout. *)
RoundsFit == \A p \in Node : Interval + Len(PeerURLs[p]) * MaxDelay <= Timeout

-----------------------------------------------------------------------------
(* Arithmetic: one POST more, and no more than all                         *)
LEMMA OneMore ==
  ASSUME NEW j \in Int, NEW d \in Nat
  PROVE  j * d \in Int /\ (j + 1) * d = j * d + d
OBVIOUS

LEMMA ManyMore ==
  ASSUME NEW i \in Int, NEW j \in Int, NEW d \in Nat, i <= j
  PROVE  i * d <= j * d
<1>1. PICK e \in Nat : j = i + e
  BY j - i \in Nat
<1>2. j * d = i * d + e * d /\ e * d >= 0
  BY <1>1
<1> QED  BY <1>2

LEMMA Times ==
  /\ Interval \in Nat \ {0} /\ SendTimeout \in Nat /\ Timeout \in Nat
  /\ MaxDelay \in Nat /\ MaxCrashes \in Nat /\ BootTimes \subseteq Nat
BY TimesAreNatural

(* Whoever is contacted at some index has the sender for a peer.           *)
LEMMA Listed ==
  ASSUME NEW p \in Node
  PROVE  /\ Len(PeerURLs[p]) \in Nat \ {0} /\ Peers(p) \subseteq Node
         /\ DOMAIN PeerURLs[p] = 1 .. Len(PeerURLs[p])
         /\ \A k \in DOMAIN PeerURLs[p] :
              PeerURLs[p][k] \in Peers(p) /\ p \in Peers(PeerURLs[p][k])
         /\ \A n \in Node : p \in Peers(n) => \E k \in DOMAIN PeerURLs[p] : PeerURLs[p][k] = n
<1>1. PeerURLs[p] \in Seq(Node) /\ PeerURLs[p] # << >>
  BY PeersAreListed
<1>2. Peers(p) = {PeerURLs[p][k] : k \in DOMAIN PeerURLs[p]}
  BY DEF Peers, Range
<1> QED  BY <1>1, <1>2, PeersAreListed

-----------------------------------------------------------------------------
(* The invariant *)

(* The POSTs between now and the one to the peer at index k                *)
Ahead(p, k) == IF next[p] <= k THEN k - next[p]
                               ELSE Len(PeerURLs[p]) - next[p] + k

(* The sleep that lies between the last POST to that peer and now, or in   *)
(* what is left to wait                                                    *)
Slept(p, k) == IF next[p] <= k THEN Interval ELSE 0

(* From the last heartbeat at the peer to the next no more than a round    *)
(* goes by.                                                                *)
OnTime(p, k) ==
  age[PeerURLs[p][k]][p] + wait[p] + Ahead(p, k) * MaxDelay
    <= Slept(p, k) + Len(PeerURLs[p]) * MaxDelay

InTime ==
  \A p \in Node : \A k \in DOMAIN PeerURLs[p] :
    Running(p) /\ <<PeerURLs[p][k], p>> \notin excused => OnTime(p, k)

IInv == TypeOK /\ InTime /\ SuspectsForCause

LEMMA InitHolds == Init => IInv
<1> SUFFICES ASSUME Init PROVE IInv
  OBVIOUS
<1> USE Times, Listed
<1>1. TypeOK
  BY DEF Init, TypeOK
<1>2. InTime
  <2> SUFFICES ASSUME NEW p \in Node, NEW k \in DOMAIN PeerURLs[p]
               PROVE  OnTime(p, k)
    BY DEF InTime
  <2>1. /\ age[PeerURLs[p][k]][p] = 0 /\ wait[p] = Interval /\ next[p] = 1
        /\ k >= 1 /\ k <= Len(PeerURLs[p]) /\ k \in Int
    BY DEF Init
  <2>2. (k - 1) * MaxDelay <= Len(PeerURLs[p]) * MaxDelay
    BY <2>1, ManyMore
  <2>3. (k - 1) * MaxDelay \in Int /\ Len(PeerURLs[p]) * MaxDelay \in Int
    BY <2>1, OneMore
  <2> QED  BY <2>1, <2>2, <2>3 DEF OnTime, Ahead, Slept
<1>3. SuspectsForCause
  BY DEF Init, SuspectsForCause
<1> QED  BY <1>1, <1>2, <1>3 DEF IInv

(* The index moves on by one, and a round's sleep comes with its end.      *)
LEMMA MovesOn ==
  ASSUME TypeOK, NEW p \in Node, NEW d \in Nat,
         next' = [next EXCEPT ![p] = NextPeer(p)],
         wait' = [wait EXCEPT ![p] = d + Pause(p)],
         NEW k \in DOMAIN PeerURLs[p]
  PROVE  /\ next'[p] \in DOMAIN PeerURLs[p] /\ wait'[p] \in Nat
         /\ wait'[p] <= d + Slept(p, k)' /\ Slept(p, k) \in Nat /\ Slept(p, k)' \in Nat
         /\ Ahead(p, k)' \in Int /\ Ahead(p, k)' + 1 <= Len(PeerURLs[p])
         /\ k # next[p] => /\ Ahead(p, k) = Ahead(p, k)' + 1
                           /\ wait'[p] - Slept(p, k)' = d - Slept(p, k)
<1> USE Times, Listed
<1> DEFINE j == next[p]
           m == Len(PeerURLs[p])
<1>1. j \in 1 .. m /\ k \in 1 .. m /\ m \in Nat /\ Interval \in Nat
  BY DEF TypeOK
<1>2. /\ next'[p] = (IF j = m THEN 1 ELSE j + 1)
      /\ wait'[p] = d + (IF j = m THEN Interval ELSE 0)
  BY DEF TypeOK, NextPeer, Pause
<1> HIDE DEF j, m
<1>3. Ahead(p, k) = (IF j <= k THEN k - j ELSE m - j + k) /\ Slept(p, k) = (IF j <= k THEN Interval ELSE 0)
  BY DEF Ahead, Slept, j, m
<1>4. /\ Ahead(p, k)' = (IF next'[p] <= k THEN k - next'[p] ELSE m - next'[p] + k)
      /\ Slept(p, k)' = (IF next'[p] <= k THEN Interval ELSE 0)
  BY DEF Ahead, Slept, m
<1>5. DOMAIN PeerURLs[p] = 1 .. m
  BY DEF m
<1>6. CASE j = m
  BY <1>1, <1>2, <1>3, <1>4, <1>5, <1>6 DEF j, m
<1>7. CASE j # m
  BY <1>1, <1>2, <1>3, <1>4, <1>5, <1>7 DEF j, m
<1> QED  BY <1>6, <1>7

-----------------------------------------------------------------------------
(* Each action keeps the invariant. *)

(* A POST that took no longer than MaxDelay keeps the times of those it    *)
(* was not sent to, in terms of the products.                              *)
LEMMA OnePostLater ==
  ASSUME NEW a \in Int, NEW w \in Int, NEW s \in Int, NEW t \in Int, NEW d \in Int,
         NEW X \in Int, NEW Y \in Int, NEW L \in Int, NEW D \in Int,
         a + 0 + X <= s + L, X = Y + D, w - t = d - s, d <= D
  PROVE  a + w + Y <= t + L
OBVIOUS

LEMMA SendTypes ==
  ASSUME TypeOK, NEW p \in Node, SendToNext(p)
  PROVE  /\ TypeOK'
         /\ \E d \in Nat :
              /\ wait' = [wait EXCEPT ![p] = d + Pause(p)]
              /\ cond[PeerURLs[p][next[p]]] = "silent" \/ d <= MaxDelay
         /\ next' = [next EXCEPT ![p] = NextPeer(p)]
         /\ PeerURLs[p][next[p]] \in Node /\ p \in Peers(PeerURLs[p][next[p]])
<1> DEFINE n == PeerURLs[p][next[p]]
<1>1. n \in Node /\ p \in Peers(n) /\ next[p] \in DOMAIN PeerURLs[p]
  BY Listed DEF TypeOK
<1> HIDE DEF n
<1>2. PICK d \in SendTime(n) : wait' = [wait EXCEPT ![p] = d + Pause(p)]
  BY DEF SendToNext, n
<1>3. d \in Nat /\ (cond[n] = "silent" \/ d <= MaxDelay)
  BY <1>2, Times DEF SendTime
<1>4. next' = [next EXCEPT ![p] = NextPeer(p)]
  BY DEF SendToNext
<1>5. /\ next'[p] \in DOMAIN PeerURLs[p] /\ wait'[p] \in Nat
      /\ DOMAIN PeerURLs[p] \subseteq Nat \ {0}
  <2>1. next'[p] \in DOMAIN PeerURLs[p] /\ wait'[p] \in Nat
    BY <1>1, <1>2, <1>3, <1>4, MovesOn
  <2> QED  BY <2>1, Listed
<1>6. /\ next' \in [Node -> Nat \ {0}] /\ wait' \in [Node -> Nat]
      /\ \A q \in Node : next'[q] \in DOMAIN PeerURLs[q]
  <2>1. \A q \in Node : q # p => next'[q] = next[q]
    BY <1>4 DEF TypeOK
  <2>2. next' \in [Node -> Nat \ {0}]
    BY <1>4, <1>5 DEF TypeOK
  <2>3. wait' \in [Node -> Nat]
    BY <1>2, <1>5 DEF TypeOK
  <2> QED  BY <1>5, <2>1, <2>2, <2>3 DEF TypeOK
<1>7. /\ DOMAIN age' = Node /\ DOMAIN status' = Node
      /\ \A q \in Node : /\ age'[q] \in [Peers(q) -> 0 .. Timeout + 1]
                         /\ status'[q] \in [Peers(q) -> {"alive", "failed"}]
      /\ excused' \subseteq Node \X Node
  <2>1. CASE Serving(n)
    <3>1. age' = [age EXCEPT ![n][p] = 0] /\ status' = [status EXCEPT ![n][p] = "alive"]
          /\ excused' = excused \ {<<n, p>>}
      BY <2>1 DEF SendToNext, RecordHeartbeat, n
    <3>2. 0 \in 0 .. Timeout + 1
      BY Times
    <3>3. DOMAIN age' = Node /\ \A q \in Node : age'[q] \in [Peers(q) -> 0 .. Timeout + 1]
      BY <1>1, <3>1, <3>2 DEF TypeOK
    <3>4. DOMAIN status' = Node
          /\ \A q \in Node : status'[q] \in [Peers(q) -> {"alive", "failed"}]
      BY <1>1, <3>1 DEF TypeOK
    <3> QED  BY <3>1, <3>3, <3>4 DEF TypeOK
  <2>2. CASE ~Serving(n)
    <3>1. age' = age /\ status' = status /\ excused' \subseteq excused \cup (Node \X Node)
      BY <1>1, <2>2 DEF SendToNext, detectorVars, n
    <3> QED  BY <3>1 DEF TypeOK
  <2> QED  BY <2>1, <2>2
<1>8. cond' = cond /\ boot' = boot /\ crashes' = crashes
  BY DEF SendToNext
<1>9. TypeOK'
  BY <1>6, <1>7, <1>8 DEF TypeOK
<1> QED  BY <1>1, <1>2, <1>3, <1>4, <1>9 DEF n

LEMMA SendKeeps ==
  ASSUME IInv, NEW p \in Node, SendToNext(p)
  PROVE  IInv'
<1> DEFINE n == PeerURLs[p][next[p]]
<1>0. \A q \in Node : Peers(q) \subseteq Node
  BY Listed
<1>1. TypeOK' /\ n \in Node /\ p \in Peers(n) /\ next[p] \in DOMAIN PeerURLs[p]
      /\ next' = [next EXCEPT ![p] = NextPeer(p)]
  BY SendTypes DEF IInv, TypeOK
<1>2. PICK d \in Nat : /\ wait' = [wait EXCEPT ![p] = d + Pause(p)]
                       /\ cond[n] = "silent" \/ d <= MaxDelay
  BY SendTypes DEF IInv
<1>3. /\ cond' = cond /\ Running(p) /\ wait[p] = 0
      /\ \A q \in Node : Running(q)' <=> Running(q)
  BY DEF SendToNext, Running
<1> HIDE DEF n
<1>4. \A q \in Node : q # p => next'[q] = next[q] /\ wait'[q] = wait[q]
  BY <1>1, <1>2 DEF IInv, TypeOK
<1>5. \A q \in Node : \A k \in DOMAIN PeerURLs[q] :
        PeerURLs[q][k] \in Node /\ q \in Peers(PeerURLs[q][k])
  BY Listed
<1>6. (* to whom nothing was sent *)
      ASSUME NEW k \in DOMAIN PeerURLs[p], k # next[p], OnTime(p, k), d <= MaxDelay,
             age'[PeerURLs[p][k]][p] = age[PeerURLs[p][k]][p]
      PROVE  OnTime(p, k)'
  <2> DEFINE X == Ahead(p, k)
             L == Len(PeerURLs[p])
             a == age[PeerURLs[p][k]][p]
  <2>1. /\ wait'[p] \in Nat /\ Slept(p, k)' \in Nat
        /\ Slept(p, k) \in Nat /\ X' \in Int /\ L \in Int
        /\ X = X' + 1 /\ wait'[p] - Slept(p, k)' = d - Slept(p, k)
    <3>1. L \in Int
      BY Listed
    <3> QED  BY <1>1, <1>2, <1>6, <3>1, MovesOn DEF IInv
  <2>2. a \in Int
    BY <1>5, <1>6, Times DEF IInv, TypeOK
  <2>3. a + 0 + X * MaxDelay <= Slept(p, k) + L * MaxDelay
    BY <1>3, <1>6 DEF OnTime
  <2> HIDE DEF X, L, a
  <2>4. /\ X' * MaxDelay \in Int /\ L * MaxDelay \in Int /\ X * MaxDelay \in Int
        /\ X * MaxDelay = X' * MaxDelay + MaxDelay
    BY <2>1, OneMore, Times
  <2>5. a + wait'[p] + X' * MaxDelay <= Slept(p, k)' + L * MaxDelay
    BY <1>6, <2>1, <2>2, <2>3, <2>4, Times, OnePostLater
  <2> QED  BY <1>6, <2>5 DEF OnTime, X, a, L
<1>7. CASE Serving(n)
  <2>1. age' = [age EXCEPT ![n][p] = 0] /\ status' = [status EXCEPT ![n][p] = "alive"]
        /\ excused' = excused \ {<<n, p>>} /\ d <= MaxDelay
    BY <1>2, <1>7 DEF SendToNext, RecordHeartbeat, Serving, Running, n
  <2>2. /\ age'[n][p] = 0
        /\ \A a, b \in Node : b \in Peers(a) /\ <<a, b>> # <<n, p>> => age'[a][b] = age[a][b]
    BY <1>1, <2>1 DEF IInv, TypeOK
  <2>3. /\ status'[n][p] = "alive"
        /\ \A a, b \in Node : b \in Peers(a) /\ <<a, b>> # <<n, p>> =>
             status'[a][b] = status[a][b]
    BY <1>1, <2>1 DEF IInv, TypeOK
  <2>4. ASSUME NEW q \in Node, NEW k \in DOMAIN PeerURLs[q],
               Running(q)', <<PeerURLs[q][k], q>> \notin excused'
        PROVE  OnTime(q, k)'
    <3>0. PeerURLs[q][k] \in Node /\ q \in Peers(PeerURLs[q][k])
      BY <1>5
    <3>1. CASE q # p
      <4>1. OnTime(q, k)
        BY <1>3, <2>1, <2>4, <3>1 DEF IInv, InTime
      <4>2. age'[PeerURLs[q][k]][q] = age[PeerURLs[q][k]][q]
        BY <2>2, <3>0, <3>1
      <4> QED  BY <1>4, <3>1, <4>1, <4>2 DEF OnTime, Ahead, Slept
    <3>2. CASE q = p /\ PeerURLs[q][k] # n
      <4>1. OnTime(p, k) /\ k # next[p]
        BY <1>3, <2>1, <2>4, <3>2 DEF IInv, InTime, n
      <4>2. age'[PeerURLs[p][k]][p] = age[PeerURLs[p][k]][p]
        BY <2>2, <3>0, <3>2
      <4> QED  BY <1>6, <2>1, <3>2, <4>1, <4>2
    <3>3. CASE q = p /\ PeerURLs[q][k] = n
      <4> DEFINE X == Ahead(p, k)
                 L == Len(PeerURLs[p])
      <4>1. /\ wait'[p] \in Nat /\ wait'[p] <= d + Slept(p, k)' /\ Slept(p, k)' \in Nat
            /\ X' \in Int /\ L \in Int /\ X' + 1 <= L
        <5>1. L \in Int
          BY Listed
        <5> QED  BY <1>1, <1>2, <3>3, <5>1, MovesOn DEF IInv
      <4> HIDE DEF X, L
      <4>2. /\ X' * MaxDelay \in Int /\ L * MaxDelay \in Int
            /\ (X' + 1) * MaxDelay = X' * MaxDelay + MaxDelay
            /\ (X' + 1) * MaxDelay <= L * MaxDelay
        <5>1. X' + 1 \in Int
          BY <4>1
        <5> QED  BY <4>1, <5>1, OneMore, ManyMore, Times
      <4>3. 0 + wait'[p] + X' * MaxDelay <= Slept(p, k)' + L * MaxDelay
        BY <2>1, <4>1, <4>2, Times
      <4> QED  BY <2>2, <3>3, <4>3 DEF OnTime, X, L
    <3> QED  BY <3>1, <3>2, <3>3
  <2>5. SuspectsForCause'
    BY <1>0, <1>3, <2>1, <2>3 DEF IInv, SuspectsForCause
  <2> QED  BY <1>1, <2>4, <2>5 DEF IInv, InTime
<1>8. CASE ~Serving(n)
  <2>1. /\ age' = age /\ status' = status /\ excused \subseteq excused'
        /\ <<n, p>> \in excused'
        /\ cond[n] = "silent" => \A a \in Node : <<a, p>> \in excused'
    BY <1>8 DEF SendToNext, detectorVars, n
  <2>2. ASSUME NEW q \in Node, NEW k \in DOMAIN PeerURLs[q],
               Running(q)', <<PeerURLs[q][k], q>> \notin excused'
        PROVE  OnTime(q, k)'
    <3>0. PeerURLs[q][k] \in Node /\ OnTime(q, k)
      BY <1>3, <1>5, <2>1, <2>2 DEF IInv, InTime
    <3>1. CASE q # p
      BY <1>4, <2>1, <3>0, <3>1 DEF OnTime, Ahead, Slept
    <3>2. CASE q = p
      <4>1. k # next[p] /\ d <= MaxDelay
        BY <1>2, <2>1, <2>2, <3>0, <3>2 DEF n
      <4> QED  BY <1>6, <2>1, <3>0, <3>2, <4>1
    <3> QED  BY <3>1, <3>2
  <2>3. SuspectsForCause'
    BY <1>0, <1>3, <2>1 DEF IInv, SuspectsForCause
  <2> QED  BY <1>1, <2>2, <2>3 DEF IInv, InTime
<1> QED  BY <1>7, <1>8

(* Whoever the monitor finds late has been heard of within a round, unless *)
(* there is an excuse.                                                     *)
LEMMA CheckKeeps ==
  ASSUME RoundsFit, IInv, NEW n \in Node, CheckAll(n)
  PROVE  IInv'
<1>0. \A q \in Node : Peers(q) \subseteq Node
  BY Listed
<1>1. /\ Running(n) /\ UNCHANGED <<cond, boot, next, wait, age, crashes, excused>>
      /\ \A q \in Node : Running(q)' <=> Running(q)
  BY DEF CheckAll, senderVars, Running
<1>2. /\ DOMAIN status' = Node
      /\ \A q \in Node : q # n => status'[q] = status[q]
      /\ status'[n] = [p \in Peers(n) |-> IF p \in Late(n) THEN "failed" ELSE status[n][p]]
  BY DEF CheckAll, IInv, TypeOK
<1>3. TypeOK'
  <2>1. \A q \in Node : status'[q] \in [Peers(q) -> {"alive", "failed"}]
    BY <1>2 DEF IInv, TypeOK
  <2> QED  BY <1>1, <1>2, <2>1 DEF IInv, TypeOK
<1>4. InTime'
  BY <1>1 DEF IInv, InTime, OnTime, Ahead, Slept, Running
<1>5. ASSUME NEW p \in Late(n), Running(p) PROVE <<n, p>> \in excused
  <2>1. p \in Node /\ p \in Peers(n) /\ age[n][p] > Timeout /\ n \in Peers(p)
    BY <1>0, PeersAreListed DEF Late
  <2>2. PICK k \in DOMAIN PeerURLs[p] : PeerURLs[p][k] = n
    BY <2>1, Listed
  <2> DEFINE L == Len(PeerURLs[p])
             X == Ahead(p, k)
  <2>3. L \in Int /\ Interval + L * MaxDelay <= Timeout /\ k \in 1 .. L /\ next[p] \in 1 .. L
    <3>1. DOMAIN PeerURLs[p] = 1 .. L /\ L \in Int
      BY <2>1, Listed
    <3> QED  BY <2>1, <3>1 DEF RoundsFit, IInv, TypeOK
  <2>4. X \in Nat /\ Slept(p, k) \in Nat /\ Slept(p, k) <= Interval
    BY <2>3, Times DEF Ahead, Slept
  <2>5. wait[p] \in Nat /\ age[n][p] \in Nat
    BY <2>1, Times DEF IInv, TypeOK
  <2>6. ASSUME OnTime(p, k) PROVE age[n][p] <= Timeout
    <3>1. age[n][p] + wait[p] + X * MaxDelay <= Slept(p, k) + L * MaxDelay
      BY <2>2, <2>6 DEF OnTime
    <3> HIDE DEF X, L
    <3>2. X * MaxDelay >= 0 /\ X * MaxDelay \in Int /\ L * MaxDelay \in Int
      BY <2>3, <2>4, Times
    <3> QED  BY <2>3, <2>4, <2>5, <3>1, <3>2, Times
  <2>7. ~OnTime(p, k)
    <3>1. Timeout \in Nat
      BY Times
    <3> QED  BY <2>1, <2>5, <2>6, <3>1
  <2> QED  BY <1>5, <2>1, <2>2, <2>7 DEF IInv, InTime
<1>6. SuspectsForCause'
  <2> SUFFICES ASSUME NEW q \in Node, NEW p \in Peers(q),
                      Running(q), Running(p), status'[q][p] = "failed"
               PROVE  <<q, p>> \in excused
    BY <1>0, <1>1 DEF SuspectsForCause
  <2>1. CASE q = n /\ p \in Late(n)
    BY <1>5, <2>1
  <2>2. CASE ~(q = n /\ p \in Late(n))
    BY <1>0, <1>2, <2>2 DEF IInv, SuspectsForCause
  <2> QED  BY <2>1, <2>2
<1> QED  BY <1>3, <1>4, <1>6 DEF IInv

LEMMA CrashKeeps ==
  ASSUME IInv, NEW n \in Node, Crash(n)
  PROVE  IInv'
<1>0. \A q \in Node : Peers(q) \subseteq Node
  BY Listed
<1>1. /\ UNCHANGED <<boot, next, wait, age, status, excused>>
      /\ cond' \in [Node -> {"up", "down", "silent"}]
      /\ \A q \in Node : Running(q)' => Running(q)
  <2>1. PICK f \in Faults : cond' = [cond EXCEPT ![n] = f]
    BY DEF Crash
  <2>2. f \in {"down", "silent"}
    BY FaultsAreKnown
  <2>3. \A q \in Node : Running(q)' => Running(q)
    BY <2>1, <2>2 DEF IInv, TypeOK, Running
  <2> QED  BY <2>1, <2>2, <2>3 DEF Crash, senderVars, detectorVars, IInv, TypeOK
<1>2. crashes' \in 0 .. MaxCrashes
  BY Times DEF Crash, IInv, TypeOK
<1>3. TypeOK'
  BY <1>1, <1>2 DEF IInv, TypeOK
<1>4. InTime'
  BY <1>1 DEF IInv, InTime, OnTime, Ahead, Slept
<1>5. SuspectsForCause'
  BY <1>0, <1>1 DEF IInv, SuspectsForCause
<1> QED  BY <1>3, <1>4, <1>5 DEF IInv

LEMMA StartKeeps ==
  ASSUME IInv, NEW n \in Node, StartNode(n)
  PROVE  IInv'
<1>0. \A q \in Node : Peers(q) \subseteq Node
  BY Listed
<1>1. /\ cond' = [cond EXCEPT ![n] = "up"] /\ next' = [next EXCEPT ![n] = 1]
      /\ wait' = [wait EXCEPT ![n] = Interval] /\ crashes' = crashes
      /\ age' = [age EXCEPT ![n] = [p \in Peers(n) |-> 0]]
      /\ status' = [status EXCEPT ![n] = [p \in Peers(n) |-> "alive"]]
      /\ excused' = excused \cup (Node \X {n})
  BY DEF StartNode
<1>2. boot' \in [Node -> Nat]
  BY Times DEF StartNode, IInv, TypeOK
<1>3. /\ DOMAIN age' = Node
      /\ \A q \in Node : q # n => age'[q] = age[q]
      /\ age'[n] = [p \in Peers(n) |-> 0]
  BY <1>1 DEF IInv, TypeOK
<1>4. /\ DOMAIN status' = Node
      /\ \A q \in Node : q # n => status'[q] = status[q]
      /\ status'[n] = [p \in Peers(n) |-> "alive"]
  BY <1>1 DEF IInv, TypeOK
<1>5. \A q \in Node : q # n => /\ next'[q] = next[q] /\ wait'[q] = wait[q]
                               /\ Running(q)' <=> Running(q)
  BY <1>1 DEF IInv, TypeOK, Running
<1>6. TypeOK'
  <2>1. age'[n] \in [Peers(n) -> 0 .. Timeout + 1]
    BY <1>3, Times
  <2>2. status'[n] \in [Peers(n) -> {"alive", "failed"}]
    BY <1>4
  <2>3. next'[n] = 1 /\ 1 \in DOMAIN PeerURLs[n]
    BY <1>1, Listed DEF IInv, TypeOK
  <2>4. next' \in [Node -> Nat \ {0}] /\ wait' \in [Node -> Nat]
    BY <1>1, Times DEF IInv, TypeOK
  <2>5. cond' \in [Node -> {"up", "down", "silent"}] /\ excused' \subseteq Node \X Node
    BY <1>1 DEF IInv, TypeOK
  <2> QED  BY <1>1, <1>2, <1>3, <1>4, <1>5, <2>1, <2>2, <2>3, <2>4, <2>5 DEF IInv, TypeOK
<1>7. InTime'
  <2> SUFFICES ASSUME NEW q \in Node, NEW k \in DOMAIN PeerURLs[q],
                      Running(q)', <<PeerURLs[q][k], q>> \notin excused'
               PROVE  OnTime(q, k)'
    BY DEF InTime
  <2>1. PeerURLs[q][k] \in Node /\ q \in Peers(PeerURLs[q][k])
    BY Listed
  <2>2. q # n /\ <<PeerURLs[q][k], q>> \notin excused
    BY <1>1, <2>1
  <2>3. OnTime(q, k) /\ wait[q] \in Int /\ next'[q] = next[q] /\ wait'[q] = wait[q]
    BY <1>5, <2>2 DEF IInv, InTime, TypeOK
  <2>4. /\ age[PeerURLs[q][k]][q] \in Nat /\ age'[PeerURLs[q][k]][q] \in Nat
        /\ age'[PeerURLs[q][k]][q] <= age[PeerURLs[q][k]][q]
    <3>1. age[PeerURLs[q][k]][q] \in Nat
      BY <2>1, Times DEF IInv, TypeOK
    <3>2. age'[PeerURLs[q][k]][q] \in {0, age[PeerURLs[q][k]][q]}
      BY <1>3, <2>1
    <3> QED  BY <3>1, <3>2
  <2> DEFINE L == Len(PeerURLs[q])
             X == Ahead(q, k)
             S == Slept(q, k)
  <2>5. X' = X /\ S' = S
    BY <2>3 DEF Ahead, Slept
  <2>6. X * MaxDelay \in Int /\ L * MaxDelay \in Int /\ S \in Int
    <3>1. L \in Int /\ k \in Int /\ next[q] \in Int
      BY Listed DEF IInv, TypeOK
    <3>2. X \in Int /\ S \in Int
      BY <3>1, Times DEF Ahead, Slept
    <3> HIDE DEF X, L
    <3> QED  BY <3>1, <3>2, Times
  <2>7. age[PeerURLs[q][k]][q] + wait[q] + X * MaxDelay <= S + L * MaxDelay
    BY <2>3 DEF OnTime
  <2> HIDE DEF X, L, S
  <2>8. age'[PeerURLs[q][k]][q] + wait[q] + X * MaxDelay <= S + L * MaxDelay
    BY <2>3, <2>4, <2>6, <2>7
  <2> QED  BY <2>3, <2>5, <2>8 DEF OnTime, X, L, S
<1>8. SuspectsForCause'
  <2> SUFFICES ASSUME NEW q \in Node, NEW p \in Peers(q),
                      Running(q)', Running(p)', status'[q][p] = "failed"
               PROVE  <<q, p>> \in excused'
    BY DEF SuspectsForCause
  <2>1. CASE p = n
    BY <1>1, <2>1
  <2>2. CASE p # n
    <3>1. q # n
      BY <1>4
    <3> QED  BY <1>0, <1>1, <1>4, <1>5, <2>2, <3>1 DEF IInv, SuspectsForCause
  <2> QED  BY <2>1, <2>2
<1> QED  BY <1>6, <1>7, <1>8 DEF IInv

(* A tick adds one to an age at most, and takes one from every wait.       *)
LEMMA TickKeeps ==
  ASSUME IInv, Tick
  PROVE  IInv'
<1>0. \A q \in Node : Peers(q) \subseteq Node
  BY Listed
<1>1. /\ UNCHANGED <<cond, next, status, crashes, excused>>
      /\ \A q \in Node : Running(q)' <=> Running(q)
      /\ \A q \in Node : Running(q) => wait[q] > 0
  BY DEF Tick, Running
<1>2. /\ DOMAIN age' = Node
      /\ \A q \in Node : age'[q] = [p \in Peers(q) |->
           IF Running(q) /\ age[q][p] <= Timeout THEN age[q][p] + 1 ELSE age[q][p]]
  BY DEF Tick
<1>3. wait' = [q \in Node |-> IF Running(q) THEN wait[q] - 1 ELSE wait[q]]
  BY DEF Tick
<1>4. TypeOK'
  <2>1. wait' \in [Node -> Nat]
    BY <1>1, <1>3 DEF IInv, TypeOK
  <2>2. boot' \in [Node -> Nat]
    <3>1. boot' = [q \in Node |-> IF Serving(q) \/ ~Running(q) THEN boot[q] ELSE boot[q] - 1]
      BY DEF Tick
    <3>2. ASSUME NEW q \in Node
          PROVE  boot[q] \in Nat /\ (Serving(q) \/ ~Running(q) \/ boot[q] > 0)
      BY DEF IInv, TypeOK, Serving
    <3> QED  BY <3>1, <3>2
  <2>3. ASSUME NEW q \in Node PROVE age'[q] \in [Peers(q) -> 0 .. Timeout + 1]
    <3>1. \A p \in Peers(q) : age[q][p] \in 0 .. Timeout + 1
      BY DEF IInv, TypeOK
    <3> QED  BY <1>2, <3>1, Times
  <2> QED  BY <1>1, <1>2, <2>1, <2>2, <2>3 DEF IInv, TypeOK
<1>5. InTime'
  <2> SUFFICES ASSUME NEW q \in Node, NEW k \in DOMAIN PeerURLs[q],
                      Running(q)', <<PeerURLs[q][k], q>> \notin excused'
               PROVE  OnTime(q, k)'
    BY DEF InTime
  <2>1. PeerURLs[q][k] \in Node /\ q \in Peers(PeerURLs[q][k])
    BY Listed
  <2>2. /\ OnTime(q, k) /\ wait[q] \in Int /\ next'[q] = next[q]
        /\ wait'[q] = wait[q] - 1
    BY <1>1, <1>3 DEF IInv, InTime, TypeOK
  <2>3. /\ age[PeerURLs[q][k]][q] \in Int /\ age'[PeerURLs[q][k]][q] \in Int
        /\ age'[PeerURLs[q][k]][q] <= age[PeerURLs[q][k]][q] + 1
    BY <1>2, <2>1, Times DEF IInv, TypeOK
  <2> DEFINE L == Len(PeerURLs[q])
             X == Ahead(q, k)
             S == Slept(q, k)
  <2>4. X' = X /\ S' = S
    BY <2>2 DEF Ahead, Slept
  <2>5. X * MaxDelay \in Int /\ L * MaxDelay \in Int /\ S \in Int
    <3>1. L \in Int /\ k \in Int /\ next[q] \in Int
      BY Listed DEF IInv, TypeOK
    <3>2. X \in Int /\ S \in Int
      BY <3>1, Times DEF Ahead, Slept
    <3> HIDE DEF X, L
    <3> QED  BY <3>1, <3>2, Times
  <2>6. age[PeerURLs[q][k]][q] + wait[q] + X * MaxDelay <= S + L * MaxDelay
    BY <2>2 DEF OnTime
  <2> HIDE DEF X, L, S
  <2>7. age'[PeerURLs[q][k]][q] + wait'[q] + X * MaxDelay <= S + L * MaxDelay
    BY <2>2, <2>3, <2>5, <2>6
  <2> QED  BY <2>2, <2>4, <2>7 DEF OnTime, X, L, S
<1>6. SuspectsForCause'
  BY <1>0, <1>1 DEF IInv, SuspectsForCause
<1> QED  BY <1>4, <1>5, <1>6 DEF IInv

-----------------------------------------------------------------------------
LEMMA StepKeeps == RoundsFit /\ IInv /\ [HbNext]_hbVars => IInv'
<1> SUFFICES ASSUME RoundsFit, IInv, [HbNext]_hbVars PROVE IInv'
  OBVIOUS
<1>1. CASE UNCHANGED hbVars
  BY <1>1 DEF hbVars, senderVars, detectorVars, IInv, TypeOK, InTime, OnTime, Ahead,
              Slept, SuspectsForCause, Running
<1> QED  BY <1>1, SendKeeps, CheckKeeps, CrashKeeps, StartKeeps, TickKeeps DEF HbNext

THEOREM HeartbeatInvariant ==
  ASSUME RoundsFit
  PROVE  HbSpec => []IInv
BY InitHolds, StepKeeps, PTL DEF HbSpec

(* Every variable of senders and detectors keeps its shape.                *)
THEOREM HeartbeatTypes ==
  ASSUME RoundsFit
  PROVE  HbSpec => []TypeOK
BY HeartbeatInvariant, PTL DEF IInv

(* In a cluster of any size, whatever crashes, hangs and starts: a peer    *)
(* that runs is held failed for a cause only, if a whole round of POSTs to *)
(* peers that listen fits the detector's timeout.                          *)
THEOREM SuspicionHasCause ==
  ASSUME RoundsFit
  PROVE  HbSpec => []SuspectsForCause
BY HeartbeatInvariant, PTL DEF IInv

(* When the client is about to choose and does not hold the primary alive, *)
(* it has been answered by a node with cause to say so, or by none.        *)
ChoiceOf == phase = "choosing" /\ statuses[Primary] # "alive"
              => blamed \/ \A m \in Node : statuses[m] = "failed"

CInv == IInv /\ DOMAIN statuses = Node /\ ChoiceOf

LEMMA AnswersHaveCause ==
  ASSUME \A n \in Node \ {Primary} : Primary \in Peers(n),
         CInv, NEW n \in Node, AskStatus(n)
  PROVE  ChoiceOf'
<1> SUFFICES ASSUME statuses'[Primary] # "alive" PROVE blamed'
  BY DEF ChoiceOf
<1>1. /\ statuses'[Primary] = StatusFrom(n, Primary) /\ Running(n)
      /\ blamed' = (n # Primary /\ (~Running(Primary) \/ <<n, Primary>> \in excused))
  BY NodesAreKnown DEF AskStatus, Serving
<1>2. n # Primary /\ Primary \in Peers(n) /\ Primary \in Node
  BY <1>1, NodesAreKnown DEF StatusFrom
<1>3. status[n][Primary] = "failed"
  BY <1>1, <1>2 DEF StatusFrom, CInv, IInv, TypeOK
<1> QED  BY <1>1, <1>2, <1>3 DEF CInv, IInv, SuspectsForCause

LEMMA ClientKeeps ==
  ASSUME RoundsFit, \A n \in Node \ {Primary} : Primary \in Peers(n),
         CInv, [Next]_vars
  PROVE  CInv'
<1> USE NodesAreKnown
<1>1. IInv'
  <2>1. [HbNext]_hbVars
    BY DEF Next, vars, ClientStep, AskHangs, AskFails, AskStatus, GetTargetNode,
           RequestFile, SendHeartbeats, RunAgain
  <2> QED  BY <2>1, StepKeeps DEF CInv
<1>2. DOMAIN statuses' = Node
  BY DEF CInv, Next, vars, clientVars, ClientStep, AskHangs, AskFails, AskStatus,
         GetTargetNode, RequestFile, SendHeartbeats, RunAgain, Return, Unasked
<1>3. ChoiceOf'
  <2>1. CASE UNCHANGED clientVars
    BY <2>1 DEF CInv, ChoiceOf, clientVars
  <2>2. ASSUME NEW n \in Node, AskHangs(n) PROVE ChoiceOf'
    BY <2>2 DEF AskHangs, ChoiceOf
  <2>3. ASSUME NEW n \in Node, AskFails(n) PROVE ChoiceOf'
    BY <2>3 DEF AskFails, ChoiceOf
  <2>4. ASSUME NEW n \in Node, AskStatus(n) PROVE ChoiceOf'
    BY <2>4, AnswersHaveCause
  <2>5. CASE GetTargetNode \/ RequestFile \/ SendHeartbeats \/ RunAgain
    BY <2>5 DEF GetTargetNode, RequestFile, SendHeartbeats, RunAgain, Return, ChoiceOf
  <2> QED  BY <2>1, <2>2, <2>3, <2>4, <2>5 DEF Next, vars, ClientStep
<1> QED  BY <1>1, <1>2, <1>3 DEF CInv

(* The primary comes first in the ranking, so it is chosen if it is held   *)
(* alive.                                                                  *)
LEMMA ChoiceIsFirst ==
  ASSUME CInv, GetTargetNode, target' \notin {None, Primary}
  PROVE  blamed
<1> USE NodesAreKnown
<1>1. /\ DOMAIN Ranked = 1 .. Len(BackupOrder) + 1 /\ Len(BackupOrder) \in Nat
      /\ Ranked[1] = Primary /\ \A k \in DOMAIN Ranked : Ranked[k] \in Node
  <2>1. <<Primary>> \in Seq(Node) /\ BackupOrder \in Seq(Node) /\ Len(<<Primary>>) = 1
    OBVIOUS
  <2>2. Ranked \in Seq(Node) /\ Len(Ranked) = Len(BackupOrder) + 1
    BY <2>1 DEF Ranked
  <2> QED  BY <2>1, <2>2 DEF Ranked
<1>2. Alive # {}
  BY DEF GetTargetNode, Return
<1>3. PICK k \in Alive : (\A j \in Alive : k <= j) /\ target' = Ranked[k]
  BY <1>2 DEF GetTargetNode
<1>4. k \in DOMAIN Ranked /\ statuses[Ranked[k]] = "alive"
  BY <1>3 DEF Alive
<1>5. statuses[Primary] # "alive"
  <2> SUFFICES ASSUME statuses[Primary] = "alive" PROVE k = 1
    BY <1>1, <1>3
  <2>1. 1 \in Alive
    BY <1>1 DEF Alive
  <2> QED  BY <1>1, <1>3, <1>4, <2>1
<1> QED  BY <1>1, <1>4, <1>5 DEF CInv, ChoiceOf, GetTargetNode

(* In a cluster of any size the client turns to a backup only on the word  *)
(* of a node that is not the primary and that had cause to hold the        *)
(* primary failed, if rounds fit the timeout and every node has the        *)
(* primary for a peer.                                                     *)
THEOREM PrimaryIsFirst ==
  ASSUME RoundsFit, \A n \in Node \ {Primary} : Primary \in Peers(n)
  PROVE  Spec => PrimaryFirst
<1> DEFINE Chosen == target = None /\ target' \notin {None, Primary} => blamed
<1>1. ClientInit => CInv
  BY InitHolds DEF ClientInit, CInv, ChoiceOf, Unasked
<1>2. CInv /\ [Next]_vars => CInv'
  BY ClientKeeps
<1>3. CInv /\ [Next]_vars => [Chosen]_vars
  <2> SUFFICES ASSUME CInv, Next, target = None, target' \notin {None, Primary}
               PROVE  blamed
    OBVIOUS
  <2>1. GetTargetNode
    BY DEF Next, clientVars, ClientStep, AskHangs, AskFails, AskStatus, RequestFile,
           SendHeartbeats, RunAgain, Return
  <2> QED  BY <2>1, ChoiceIsFirst
<1>4. Spec => [][Chosen]_vars
  BY <1>1, <1>2, <1>3, PTL DEF Spec
<1> QED  BY <1>4, PTL DEF PrimaryFirst
=============================================================================
