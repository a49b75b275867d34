----------------------------- MODULE ClockProofs -----------------------------
(* Proofs about ClockSync: whatever number of samples, round-trip limit and *)
(* settings of the clocks, an offset is off by half a round trip at most.   *)
EXTENDS ClockSync, TLAPS

-----------------------------------------------------------------------------
(* The arithmetic of sync.go *)

(* CalculateOffset: if the peer's clock is read at lo or more after T1,    *)
(* and not later than it shows at T3, T3 + hi, then the offset is within   *)
(* half a round trip of lo and hi.                                         *)
LEMMA OffsetWithin ==
  ASSUME NEW T2 \in Int, NEW T3 \in Int, NEW lo \in Int, NEW hi \in Int,
         lo <= T2, T2 <= T3 + hi, CalculateRTT(0, T3) <= MaxRTT
  PROVE  /\ CalculateOffset(0, T2, T3) \in Int
         /\ lo - Close <= CalculateOffset(0, T2, T3)
         /\ CalculateOffset(0, T2, T3) <= hi + Close
<1>1. MaxRTT \in Nat
  BY LimitsAreNatural
<1>2. T3 <= MaxRTT
  BY DEF CalculateRTT
<1>3. /\ T3 \div 2 \in Int /\ 2 * (T3 \div 2) <= T3 /\ T3 <= 2 * (T3 \div 2) + 1
      /\ (MaxRTT + 1) \div 2 \in Int /\ MaxRTT <= 2 * ((MaxRTT + 1) \div 2)
  BY <1>1
<1>4. CalculateOffset(0, T2, T3) = T2 - (T3 \div 2)
  BY DEF CalculateOffset
<1> QED  BY <1>1, <1>2, <1>3, <1>4 DEF Close

LEMMA OneMoreSample ==
  ASSUME NEW s \in Seq(Int), NEW e \in Int
  PROVE  \A i \in DOMAIN Append(s, e) :
           Append(s, e)[i] = e \/ (i \in DOMAIN s /\ Append(s, e)[i] = s[i])
<1>1. DOMAIN Append(s, e) = 1 .. Len(s) + 1 /\ DOMAIN s = 1 .. Len(s) /\ Len(s) \in Nat
  OBVIOUS
<1>2. Append(s, e)[Len(s) + 1] = e /\ \A i \in 1 .. Len(s) : Append(s, e)[i] = s[i]
  OBVIOUS
<1> QED  BY <1>1, <1>2

(* Go's halving of a sum stays between its terms.                          *)
LEMMA QuotBetween ==
  ASSUME NEW a \in Int, NEW b \in Int, NEW lo \in Int, NEW hi \in Int,
         lo <= a, a <= hi, lo <= b, b <= hi
  PROVE  Quot(a + b, 2) \in Int /\ lo <= Quot(a + b, 2) /\ Quot(a + b, 2) <= hi
<1>1. CASE a + b >= 0
  BY <1>1 DEF Quot
<1>2. CASE ~(a + b >= 0)
  BY <1>2 DEF Quot
<1> QED  BY <1>1, <1>2

(* medianInt64 lies between any bounds of the values.                      *)
LEMMA MedianWithin ==
  ASSUME NEW s \in Seq(Int), NEW lo \in Int, NEW hi \in Int,
         \A i \in DOMAIN s : lo <= s[i] /\ s[i] <= hi,
         NEW m \in Median(s)
  PROVE  m \in Int /\ lo <= m /\ m <= hi
<1>1. \A v \in Range(s) : v \in Int /\ lo <= v /\ v <= hi
  BY DEF Range
<1>2. CASE Len(s) % 2 = 1
  <2>1. m \in Range(s)
    BY <1>2 DEF Median, SortedAt
  <2> QED  BY <1>1, <2>1
<1>3. CASE Len(s) % 2 # 1
  <2> DEFINE mid == Len(s) \div 2
  <2>1. m \in {Quot(a + b, 2) : a \in SortedAt(s, mid - 1), b \in SortedAt(s, mid)}
    BY <1>3 DEF Median
  <2>2. PICK a \in SortedAt(s, mid - 1), b \in SortedAt(s, mid) : m = Quot(a + b, 2)
    BY <2>1
  <2>3. a \in Range(s) /\ b \in Range(s)
    BY DEF SortedAt
  <2> QED  BY <1>1, <2>2, <2>3, QuotBetween
<1> QED  BY <1>2, <1>3

-----------------------------------------------------------------------------
(* The peer's clock at the sample's answer lies between what it showed     *)
(* when the sample was sent and what it shows now, but for what it was set *)
(* back since.                                                             *)
Bracketed ==
  /\ seen.low <= diff /\ diff <= seen.high
  /\ lapse # None /\ answer = None => seen.low - seen.back <= lapse + diff
  /\ answer # None => /\ seen.low - seen.back <= answer
                      /\ answer <= lapse + diff + seen.back

SamplesClose == \A i \in DOMAIN accepted : Within(accepted[i], seen)

Synced == /\ reader = "synced" => hasSynced
          /\ offset = prevOffset /\ skewSum = offset

(* Between two synchronisations there are no samples. *)
IdleEmpty == ~Sampling => tried = 0

IInv == TypeOK /\ Bracketed /\ SamplesClose /\ Synced /\ IdleEmpty /\ OffsetIsClose

Seen == [low : Int, high : Int, back : Nat]

(* The sets and switches that Next draws from *)
LEMMA ConstantsTyped ==
  /\ DefaultSamples \in Nat /\ MinAcceptedSamples \in Nat /\ MaxRTT \in Nat
  /\ MaxTrip \in Nat /\ MaxSteps \in Nat /\ Diffs \subseteq Int /\ None \notin Int
  /\ Close \in Int
BY LimitsAreNatural, DiffsAreIntegers DEF Close

LEMMA InitHolds == Init => IInv
<1> SUFFICES ASSUME Init PROVE IInv
  OBVIOUS
<1>1. diff \in Int /\ seen = Present /\ synced = Present
  BY ConstantsTyped DEF Init
<1>2. accepted \in Seq(Int) /\ Len(accepted) = 0 /\ DOMAIN accepted = {}
  BY DEF Init
<1>3. seen \in Seen /\ synced \in Seen
  BY <1>1 DEF Present, Seen
<1>4. TypeOK
  <2>1. accepted \in Seq(Int) /\ Len(accepted) <= tried /\ tried \in 0 .. DefaultSamples
    BY <1>2, ConstantsTyped DEF Init
  <2>2. lapse = None /\ answer = None /\ steps \in 0 .. MaxSteps
    BY ConstantsTyped DEF Init
  <2>3. {seen, synced} \subseteq [low : Int, high : Int, back : Nat]
    BY <1>3 DEF Seen
  <2>4. /\ diff \in Diffs /\ link \in {"good", "bad"} /\ loop = "initial"
        /\ tick = FALSE /\ stopped = FALSE /\ hasSynced = FALSE /\ reader = "idle"
        /\ offset \in Int /\ prevOffset \in Int /\ skewSum \in Int
    BY DEF Init
  <2> QED  BY <2>1, <2>2, <2>3, <2>4 DEF TypeOK
<1>5. Bracketed /\ SamplesClose
  BY <1>1, <1>2 DEF Init, Bracketed, SamplesClose, Present
<1> QED  BY <1>4, <1>5 DEF Init, IInv, Synced, IdleEmpty, Sampling, OffsetIsClose

-----------------------------------------------------------------------------
(* Each action keeps the invariant. *)

LEMMA SampleKeeps ==
  ASSUME IInv, Sample
  PROVE  IInv'
<1> USE ConstantsTyped
<1> USE DEF peerVars, sampleVars, loopVars, syncerVars, IInv, TypeOK, Bracketed,
            SamplesClose, Synced, IdleEmpty, OffsetIsClose, Sampling
<1>0. seen.low \in Int /\ seen.high \in Int /\ seen.back \in Nat /\ diff \in Int
  OBVIOUS
<1>1. CASE SendRequest
  BY <1>0, <1>1 DEF SendRequest
<1>2. CASE TimeHandler
  BY <1>0, <1>2 DEF TimeHandler
<1>3. CASE ReceiveAnswer
  <2>1. lapse \in Int /\ answer \in Int /\ lapse # None /\ answer # None
    BY <1>3 DEF ReceiveAnswer
  <2>2. UNCHANGED <<seen, diff, steps, link, loop, tick, stopped, offset, hasSynced,
                    prevOffset, skewSum, synced, reader>>
        /\ tried' = tried + 1 /\ lapse' = None /\ answer' = None
    BY <1>3 DEF ReceiveAnswer, EndSample
  <2>3. accepted' \in Seq(Int) /\ Len(accepted') <= tried' /\ SamplesClose'
    <3>1. CASE CalculateRTT(0, lapse) > MaxRTT
      BY <1>3, <2>2, <3>1 DEF ReceiveAnswer, Within
    <3>2. CASE ~(CalculateRTT(0, lapse) > MaxRTT)
      <4> DEFINE o == CalculateOffset(0, answer, lapse)
      <4>1. accepted' = Append(accepted, o)
        BY <1>3, <3>2 DEF ReceiveAnswer
      <4>2. answer <= lapse + (seen.high + seen.back)
        BY <1>0, <2>1
      <4>3. CalculateRTT(0, lapse) <= MaxRTT
        BY <2>1, <3>2 DEF CalculateRTT
      <4>4. /\ o \in Int /\ seen.low - seen.back - Close <= o
            /\ o <= seen.high + seen.back + Close
        <5>1. /\ seen.low - seen.back \in Int /\ seen.high + seen.back \in Int
              /\ seen.low - seen.back <= answer
          BY <1>0, <2>1
        <5> QED  BY <2>1, <4>2, <4>3, <5>1, OffsetWithin
      <4>5. Within(o, seen)
        BY <4>4 DEF Within
      <4>7. o \in Int
        BY <4>4
      <4>10. accepted \in Seq(Int)
        OBVIOUS
      <4> HIDE DEF o
      <4>6. \A i \in DOMAIN accepted' :
              accepted'[i] = o \/ (i \in DOMAIN accepted /\ accepted'[i] = accepted[i])
        <5>1. \A i \in DOMAIN Append(accepted, o) :
                \/ Append(accepted, o)[i] = o
                \/ i \in DOMAIN accepted /\ Append(accepted, o)[i] = accepted[i]
          BY <4>7, <4>10, OneMoreSample, Zenon
        <5> QED  BY <4>1, <5>1, Zenon
      <4>8. \A i \in DOMAIN accepted' : Within(accepted'[i], seen)
        BY <4>5, <4>6
      <4>9. accepted' \in Seq(Int) /\ Len(accepted') = Len(accepted) + 1
        BY <4>1, <4>4
      <4> QED  BY <2>2, <4>8, <4>9 DEF Within
    <3> QED  BY <3>1, <3>2
  <2>4. tried + 1 <= DefaultSamples
    BY <2>1
  <2> QED  BY <2>2, <2>3, <2>4 DEF Within
<1>4. CASE LoseSample
  BY <1>0, <1>4 DEF LoseSample, EndSample, Within
<1> QED  BY <1>1, <1>2, <1>3, <1>4 DEF Sample

LEMMA SynchroniseKeeps ==
  ASSUME IInv, Synchronise
  PROVE  IInv'
<1> USE ConstantsTyped DEF loopVars, peerVars, Sampling
<1>0. /\ seen \in Seen /\ diff \in Int /\ seen' = Present
      /\ Sampled /\ accepted' = << >> /\ tried' = 0 /\ loop' = "idle"
      /\ UNCHANGED <<peerVars, tick, stopped, reader, lapse, answer>>
  BY DEF Synchronise, SyncFails, SyncSucceeds, Return, IInv, TypeOK, Seen
<1>1. lapse = None /\ answer = None
  BY <1>0 DEF IInv, TypeOK, Sampled
<1>2. Bracketed' /\ SamplesClose'
  BY <1>0, <1>1 DEF IInv, TypeOK, Bracketed, SamplesClose, Present
<1>3. /\ offset' \in Int /\ prevOffset' \in Int /\ skewSum' \in Int
      /\ hasSynced' \in BOOLEAN /\ synced' \in Seen
      /\ Synced' /\ OffsetIsClose'
  <2>1. CASE SyncFails
    BY <1>0, <2>1 DEF SyncFails, syncerVars, IInv, TypeOK, Synced, OffsetIsClose, Within, Seen
  <2>2. CASE SyncSucceeds
    <3>1. PICK best \in Median(accepted) : RecordSkew(best) /\ offset' = best
      BY <2>2 DEF SyncSucceeds
    <3>2. /\ accepted \in Seq(Int)
          /\ seen.low - seen.back - Close \in Int /\ seen.high + seen.back + Close \in Int
          /\ \A i \in DOMAIN accepted : /\ seen.low - seen.back - Close <= accepted[i]
                                        /\ accepted[i] <= seen.high + seen.back + Close
      BY <1>0 DEF IInv, TypeOK, SamplesClose, Within, Seen
    <3>3. best \in Int /\ Within(best, seen)
      <4> DEFINE lo == seen.low - seen.back - Close
                 hi == seen.high + seen.back + Close
      <4>1. /\ lo \in Int /\ hi \in Int
            /\ \A i \in DOMAIN accepted : lo <= accepted[i] /\ accepted[i] <= hi
        BY <3>2
      <4> HIDE DEF lo, hi
      <4>2. best \in Int /\ lo <= best /\ best <= hi
        BY <3>1, <3>2, <4>1, MedianWithin
      <4> QED  BY <4>2 DEF Within, lo, hi
    <3>4. hasSynced' = TRUE /\ synced' = seen
      BY <2>2 DEF SyncSucceeds
    <3>5. skewSum \in Int /\ prevOffset = skewSum
      BY DEF IInv, TypeOK, Synced
    <3>6. skewSum' = best /\ prevOffset' = best
      BY <3>1, <3>3, <3>5 DEF RecordSkew
    <3> QED  BY <1>0, <3>1, <3>3, <3>4, <3>6 DEF Synced, OffsetIsClose, Within
  <2> QED  BY <2>1, <2>2 DEF Synchronise
<1>4. accepted' \in Seq(Int) /\ Len(accepted') = 0
  BY <1>0
<1>5. TypeOK'
  <2>1. Present \in Seen
    BY <1>0 DEF Present, Seen
  <2> QED  BY <1>0, <1>1, <1>3, <1>4, <2>1 DEF IInv, TypeOK, Seen
<1> QED  BY <1>0, <1>2, <1>3, <1>5 DEF IInv, IdleEmpty

(* RunLoop's select, and the reader, touch nothing of the samples.         *)
LEMMA LoopKeeps ==
  ASSUME IInv, \/ TickerFires \/ TakeTick \/ TakeStop \/ CloseStopCh
               \/ BeginFallback \/ FinishFallback
  PROVE  IInv'
<1> USE ConstantsTyped DEF peerVars, sampleVars, syncerVars, loopVars, Sampling
<1>0. UNCHANGED <<peerVars, sampleVars, syncerVars>>
  BY DEF TickerFires, TakeTick, TakeStop, CloseStopCh, BeginFallback, FinishFallback
<1>1. seen' \in Seen /\ Bracketed' /\ SamplesClose'
  <2>1. CASE UNCHANGED seen
    BY <1>0, <2>1 DEF IInv, TypeOK, Bracketed, SamplesClose, Within, Seen
  <2>2. CASE TakeTick
    <3>1. lapse = None /\ answer = None /\ seen' = Present /\ diff \in Int
      BY <2>2 DEF TakeTick, IInv, TypeOK
    <3>2. accepted \in Seq(Int) /\ Len(accepted) = 0
      BY <2>2 DEF TakeTick, IInv, TypeOK, IdleEmpty
    <3> QED  BY <1>0, <3>1, <3>2 DEF Bracketed, SamplesClose, Present, Seen
  <2> QED  BY <2>1, <2>2
           DEF TickerFires, TakeStop, CloseStopCh, BeginFallback, FinishFallback
<1>2. Synced' /\ OffsetIsClose'
  BY <1>0 DEF IInv, Synced, OffsetIsClose, Within, TickerFires, TakeTick, TakeStop,
              CloseStopCh, BeginFallback, FinishFallback, SyncState
<1>3. TypeOK'
  BY <1>0, <1>1 DEF IInv, TypeOK, Seen, TickerFires, TakeTick, TakeStop,
              CloseStopCh, BeginFallback, FinishFallback, SyncState
<1>4. IdleEmpty'
  BY <1>0 DEF IInv, IdleEmpty, TickerFires, TakeTick, TakeStop,
              CloseStopCh, BeginFallback, FinishFallback
<1> QED  BY <1>1, <1>2, <1>3, <1>4 DEF IInv

(* Setting a clock keeps what the sample under way says: the peer's clock, *)
(* seen from T1, goes back by what is recorded at most.                    *)
LEMMA EnvironmentKeeps ==
  ASSUME IInv, Environment
  PROVE  IInv'
<1> USE ConstantsTyped DEF peerVars, sampleVars, syncerVars, loopVars, Sampling
<1>1. CASE Pass
  BY <1>1 DEF Pass, IInv, TypeOK, Bracketed, SamplesClose, Synced, IdleEmpty,
              OffsetIsClose, Within
<1>2. CASE ChangeLink
  BY <1>2 DEF ChangeLink, IInv, TypeOK, Bracketed, SamplesClose, Synced, IdleEmpty,
              OffsetIsClose, Within
<1>3. ASSUME NEW d \in Diffs, SetLocal(d) \/ SetPeer(d) PROVE IInv'
  <2> DEFINE b == seen'.back - seen.back
  <2>0. /\ d \in Int /\ diff \in Int /\ seen \in Seen /\ diff' = d /\ SetTo(d)
        /\ UNCHANGED <<link, tried, answer, accepted, loopVars, syncerVars, reader>>
    BY <1>3 DEF SetLocal, SetPeer, SetTo, IInv, TypeOK, Seen
  <2>1. /\ seen' \in Seen /\ b \in Nat
        /\ seen'.low <= seen.low /\ seen.high <= seen'.high
        /\ seen'.low <= d /\ d <= seen'.high
        /\ lapse = None => lapse' = None
        /\ lapse # None => lapse' \in Int /\ lapse' + d + b >= lapse + diff
    <3>1. CASE SetLocal(d)
      BY <2>0, <3>1 DEF SetLocal, SeeAlso, Seen, IInv, TypeOK
    <3>2. CASE SetPeer(d)
      <4>1. /\ lapse' = lapse /\ lapse \in Int \cup {None}
            /\ b = IF lapse # None /\ d < diff THEN diff - d ELSE 0
            /\ b \in Nat
        BY <2>0, <3>2 DEF SetPeer, SeeAlso, Seen, IInv, TypeOK
      <4>2. /\ seen' \in Seen /\ seen'.low <= seen.low /\ seen.high <= seen'.high
            /\ seen'.low <= d /\ d <= seen'.high
        BY <2>0, <3>2 DEF SetPeer, SeeAlso, Seen
      <4> HIDE DEF b
      <4> QED  BY <2>0, <4>1, <4>2
    <3> QED  BY <1>3, <3>1, <3>2
  <2>2. /\ seen.back' = seen.back + b /\ seen.back \in Nat
        /\ seen.low \in Int /\ seen'.low \in Int
        /\ seen.high \in Int /\ seen'.high \in Int
    BY <2>0, <2>1 DEF Seen
  <2> HIDE DEF b
  <2>3. TypeOK'
    BY <2>0, <2>1 DEF SetTo, IInv, TypeOK, Seen
  <2>4. Bracketed'
    <3>1. lapse # None => lapse \in Int
      BY DEF IInv, TypeOK
    <3>2. answer # None => answer \in Int /\ lapse # None
      BY DEF IInv, TypeOK
    <3>3. ASSUME lapse' # None, answer = None
          PROVE  seen'.low - seen'.back <= lapse' + d
      BY <2>0, <2>1, <2>2, <3>1, <3>3 DEF IInv, Bracketed
    <3>4. ASSUME answer # None
          PROVE  seen'.low - seen'.back <= answer /\ answer <= lapse' + d + seen'.back
      BY <2>0, <2>1, <2>2, <3>1, <3>2, <3>4 DEF IInv, Bracketed
    <3> QED  BY <2>0, <2>1, <3>3, <3>4 DEF Bracketed
  <2>5. SamplesClose'
    <3>1. \A i \in DOMAIN accepted : accepted[i] \in Int
      BY DEF IInv, TypeOK
    <3> QED  BY <2>0, <2>1, <2>2, <3>1 DEF IInv, SamplesClose, Within
  <2>6. Synced' /\ IdleEmpty' /\ OffsetIsClose'
    BY <2>0 DEF IInv, Synced, IdleEmpty, OffsetIsClose, Within
  <2> QED  BY <2>3, <2>4, <2>5, <2>6 DEF IInv
<1> QED  BY <1>1, <1>2, <1>3 DEF Environment

THEOREM ClockInvariant == Spec => []IInv
<1>1. IInv /\ [Next]_vars => IInv'
  <2> SUFFICES ASSUME IInv, [Next]_vars PROVE IInv'
    OBVIOUS
  <2>1. CASE UNCHANGED vars
    BY <2>1 DEF vars, peerVars, sampleVars, loopVars, syncerVars, IInv, TypeOK,
                Bracketed, SamplesClose, Synced, IdleEmpty, OffsetIsClose, Within, Sampling
  <2> QED  BY <2>1, SampleKeeps, SynchroniseKeeps, LoopKeeps, EnvironmentKeeps DEF Next
<1> QED  BY <1>1, InitHolds, PTL DEF Spec

(* Every variable keeps its shape, for any limits and any clocks.          *)
THEOREM ClockTypes == Spec => []TypeOK
BY ClockInvariant, PTL DEF IInv

(* Synchronise leaves an offset that the peer's clock had while it took    *)
(* its samples, up to half the round-trip limit and to what the peer's     *)
(* clock was set back amid them, whatever happens to the samples and       *)
(* however either clock is set meanwhile.                                  *)
THEOREM OffsetsAreClose == Spec => []OffsetIsClose
BY ClockInvariant, PTL DEF IInv

(* SkewHistory adds up to Offset.                                          *)
THEOREM SkewsLeadToOffset == Spec => []SkewsAddUp
<1>1. IInv => SkewsAddUp
  BY DEF IInv, Synced, SkewsAddUp
<1> QED  BY <1>1, ClockInvariant, PTL

(* HandleSyncFailure, once it has found a synchronisation, applies one.    *)
THEOREM FallbacksAreSynced == Spec => []FallbackIsSynced
<1>1. IInv => FallbackIsSynced
  BY DEF IInv, Synced, OffsetIsClose, FallbackIsSynced, NowOffset
<1> QED  BY <1>1, ClockInvariant, PTL
=============================================================================
