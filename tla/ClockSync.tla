------------------------------ MODULE ClockSync ------------------------------
(***************************************************************************)
(* One node's clock synchronisation (internal/clock) against the wall      *)
(* clock of its peer: the initial Synchronise and RunLoop on one side,     *)
(* HandleSyncFailure and Now on the other.                                 *)
(*                                                                         *)
(* Of the two clocks only the difference is state.  A sample's times are   *)
(* counted from its T1.                                                    *)
(***************************************************************************)
EXTENDS Integers, Sequences, FiniteSets, Functions

CONSTANTS
  DefaultSamples, MinAcceptedSamples, MaxRTT,
  MaxTrip,    \* bound: ticks a sample is under way
  Diffs,      \* bound: what the peer's clock may be ahead of the local one
  MaxSteps,   \* bound: how often a clock is set
  None        \* no answer, no sample

ASSUME LimitsAreNatural ==
  /\ {DefaultSamples, MinAcceptedSamples, MaxRTT, MaxTrip, MaxSteps} \subseteq Nat
  /\ MinAcceptedSamples > 0
ASSUME DiffsAreIntegers == Diffs \subseteq Int /\ None \notin Int

VARIABLES
  diff,       \* peer's clock - local clock
  steps,
  link,       \* "good": samples are answered in time; "bad": nothing is known
  loop,       \* "initial" in main's Synchronise; then RunLoop's: "sampling",
              \* "idle" or "ended"
  tick,       \* the ticker's channel holds a tick
  stopped,    \* stopCh is closed
  tried,      \* samples of CollectSamples that are over
  lapse,      \* of the sample under way, local clock - T1; None without one
  answer,     \* ... T2 - T1, None until the peer has read its clock
  accepted,   \* offsets of the samples accepted so far
  offset, hasSynced, prevOffset,
  skewSum,    \* the sum of skewHistory
  reader,     \* HandleSyncFailure: "idle" or, between its locks, hasSynced
  seen,       \* history, since CollectSamples began: the lowest and highest
              \* diff, and by how much the peer's clock was set back amid samples
  synced      \* history: seen of the last Synchronise that succeeded

peerVars   == <<diff, steps, link>>
sampleVars == <<tried, lapse, answer, accepted>>
loopVars   == <<loop, tick, stopped>>
syncerVars == <<offset, hasSynced, prevOffset, skewSum, synced>>
vars == <<peerVars, sampleVars, loopVars, syncerVars, reader, seen>>

(* What is seen when nothing but the present difference has been *)
Present == [low |-> diff, high |-> diff, back |-> 0]

Init ==
  /\ diff \in Diffs /\ steps = 0 /\ link \in {"good", "bad"}
  /\ loop = "initial" /\ tick = FALSE /\ stopped = FALSE
  /\ tried = 0 /\ lapse = None /\ answer = None /\ accepted = << >>
  /\ offset = 0 /\ hasSynced = FALSE /\ prevOffset = 0 /\ skewSum = 0
  /\ reader = "idle"
  /\ seen = Present /\ synced = Present

-----------------------------------------------------------------------------
(* sync.go *)

(* Mutant: the time of the answer, not the middle, is compared *)
OffsetAtEnd(T1, T2, T3) == T2 - T3

(* T1 + T3 is positive in the program, where the division truncates; here  *)
(* T1 is the origin, and \div rounds down.                                 *)
CalculateOffset(T1, T2, T3) == T2 - (T1 + T3) \div 2
CalculateRTT(T1, T3) == T3 - T1

(* Go's division *)
Quot(a, n) == IF a >= 0 THEN a \div n ELSE -((-a) \div n)

(* What stands at index k, from 0, of s once it is sorted, as a set *)
SortedAt(s, k) ==
  {v \in Range(s) : /\ Cardinality({i \in DOMAIN s : s[i] < v}) <= k
                    /\ Cardinality({i \in DOMAIN s : s[i] <= v}) > k}

(* {medianInt64(s)} *)
Median(s) ==
  LET mid == Len(s) \div 2 IN
  IF Len(s) % 2 = 1 THEN SortedAt(s, mid)
  ELSE {Quot(a + b, 2) : a \in SortedAt(s, mid - 1), b \in SortedAt(s, mid)}

-----------------------------------------------------------------------------
(* clock.go: the sampling of CollectSamples *)

Sampling == loop \in {"initial", "sampling"}

(* collectOneSample takes T1. *)
SendRequest ==
  /\ Sampling /\ tried < DefaultSamples /\ lapse = None
  /\ lapse' = 0
  /\ UNCHANGED <<peerVars, tried, answer, accepted, loopVars, syncerVars,
                 reader, seen>>

(* TimeHandler of the peer *)
TimeHandler ==
  /\ lapse # None /\ answer = None
  /\ answer' = lapse + diff
  /\ UNCHANGED <<peerVars, tried, lapse, accepted, loopVars, syncerVars,
                 reader, seen>>

EndSample == tried' = tried + 1 /\ lapse' = None /\ answer' = None

(* The answer arrives, and collectOneSample takes T3. *)
ReceiveAnswer ==
  /\ lapse # None /\ answer # None
  /\ EndSample
  /\ IF CalculateRTT(0, lapse) > MaxRTT THEN UNCHANGED accepted
     ELSE accepted' = Append(accepted, CalculateOffset(0, answer, lapse))
  /\ UNCHANGED <<peerVars, loopVars, syncerVars, reader, seen>>

(* GetJSON fails. *)
LoseSample ==
  /\ lapse # None /\ link = "bad"
  /\ EndSample
  /\ UNCHANGED <<peerVars, accepted, loopVars, syncerVars, reader, seen>>

-----------------------------------------------------------------------------
(* clock.go: Synchronise, called by main and by RunLoop *)
Sampled == Sampling /\ tried = DefaultSamples

(* Mutants: the samples are kept for the next time, and RunLoop returns on *)
(* an error                                                                *)
ReturnOnly == /\ loop' = "idle" /\ tried' = 0 /\ seen' = Present
              /\ UNCHANGED <<lapse, answer, accepted>>
ReturnOrEnd ==
  /\ loop' = IF Len(accepted) < MinAcceptedSamples THEN "ended" ELSE "idle"
  /\ tried' = 0 /\ accepted' = << >> /\ seen' = Present
  /\ UNCHANGED <<lapse, answer>>

(* The samples are Synchronise's own. *)
Return == /\ loop' = "idle" /\ tried' = 0 /\ accepted' = << >>
          /\ seen' = Present
          /\ UNCHANGED <<lapse, answer>>

SyncFails ==
  /\ Sampled /\ Len(accepted) < MinAcceptedSamples
  /\ Return
  /\ UNCHANGED <<peerVars, tick, stopped, syncerVars, reader>>

(* Mutant: the skew is taken after prevOffset has been set *)
RecordSkewLate(best) ==
  prevOffset' = best /\ skewSum' = skewSum + (best - prevOffset')

RecordSkew(best) ==
  skewSum' = skewSum + (best - prevOffset) /\ prevOffset' = best

SyncSucceeds ==
  /\ Sampled /\ Len(accepted) >= MinAcceptedSamples
  /\ \E best \in Median(accepted) : RecordSkew(best) /\ offset' = best
  /\ hasSynced' = TRUE /\ synced' = seen
  /\ Return
  /\ UNCHANGED <<peerVars, tick, stopped, reader>>

(* RunLoop: the ticker drops a tick that nobody has taken. *)
TickerFires ==
  /\ loop \in {"sampling", "idle"} /\ ~tick /\ tick' = TRUE
  /\ UNCHANGED <<peerVars, sampleVars, loop, stopped, syncerVars, reader, seen>>

(* select: with both cases ready, either is taken. *)
TakeTick ==
  /\ loop = "idle" /\ tick
  /\ loop' = "sampling" /\ tick' = FALSE
  /\ seen' = Present
  /\ UNCHANGED <<peerVars, sampleVars, stopped, syncerVars, reader>>

TakeStop ==
  /\ loop = "idle" /\ stopped /\ loop' = "ended" /\ tick' = FALSE
  /\ UNCHANGED <<peerVars, sampleVars, stopped, syncerVars, reader, seen>>

CloseStopCh ==
  /\ loop # "initial" /\ ~stopped /\ stopped' = TRUE
  /\ UNCHANGED <<peerVars, sampleVars, loop, tick, syncerVars, reader, seen>>

-----------------------------------------------------------------------------
(* Mutant: whether there was a synchronisation is not asked *)
AlwaysSynced == "synced"

(* clock.go: HandleSyncFailure takes the lock, and Now takes it again.     *)
(* Without a synchronisation it is the local clock, with an error.         *)
SyncState == IF hasSynced THEN "synced" ELSE "never"

BeginFallback ==
  /\ reader = "idle" /\ reader' = SyncState
  /\ UNCHANGED <<peerVars, sampleVars, loopVars, syncerVars, seen>>

(* Now adds this to the local clock. *)
NowOffset == IF hasSynced THEN offset ELSE 0

FinishFallback ==
  /\ reader # "idle" /\ reader' = "idle"
  /\ UNCHANGED <<peerVars, sampleVars, loopVars, syncerVars, seen>>

-----------------------------------------------------------------------------
(* The environment *)

(* A tick passes on both clocks; over a good link an answer is in time. *)
Pass ==
  /\ lapse # None /\ lapse < (IF link = "good" THEN MaxRTT ELSE MaxTrip)
  /\ lapse' = lapse + 1
  /\ UNCHANGED <<peerVars, tried, answer, accepted, loopVars, syncerVars,
                 reader, seen>>

(* A clock is set: there is a new difference. *)
SetTo(d) == /\ steps < MaxSteps /\ d # diff
            /\ steps' = steps + 1 /\ diff' = d
            /\ UNCHANGED <<link, tried, answer, accepted, loopVars, syncerVars, reader>>

SeeAlso(d, b) == seen' = [low  |-> IF d < seen.low THEN d ELSE seen.low,
                          high |-> IF d > seen.high THEN d ELSE seen.high,
                          back |-> seen.back + b]

(* The local clock is set, on or back, and T3 - T1 with it. *)
SetLocal(d) ==
  /\ SetTo(d) /\ SeeAlso(d, 0)
  /\ lapse' = IF lapse = None THEN None ELSE lapse - (d - diff)

(* The peer's clock is set, on or back. *)
SetPeer(d) ==
  /\ SetTo(d) /\ SeeAlso(d, IF lapse # None /\ d < diff THEN diff - d ELSE 0)
  /\ UNCHANGED lapse

ChangeLink ==
  /\ link' = IF link = "good" THEN "bad" ELSE "good"
  /\ UNCHANGED <<diff, steps, sampleVars, loopVars, syncerVars, reader, seen>>

Sample == SendRequest \/ TimeHandler \/ ReceiveAnswer \/ LoseSample
Synchronise == SyncFails \/ SyncSucceeds
Environment == Pass \/ ChangeLink \/ \E d \in Diffs : SetLocal(d) \/ SetPeer(d)

Next == \/ Sample \/ Synchronise \/ TickerFires \/ TakeTick \/ TakeStop
        \/ CloseStopCh \/ BeginFallback \/ FinishFallback \/ Environment

(* A sample ends, whether answered or not, and RunLoop goes on. *)
Fairness == /\ WF_vars(Sample) /\ WF_vars(Synchronise)
            /\ WF_vars(TickerFires) /\ WF_vars(TakeTick)

Spec == Init /\ [][Next]_vars
FairSpec == Spec /\ Fairness

-----------------------------------------------------------------------------
(* Every variable keeps its shape. *)
TypeOK ==
  /\ diff \in Diffs /\ steps \in 0 .. MaxSteps /\ link \in {"good", "bad"}
  /\ loop \in {"initial", "sampling", "idle", "ended"}
  /\ tick \in BOOLEAN /\ stopped \in BOOLEAN
  /\ tried \in 0 .. DefaultSamples /\ accepted \in Seq(Int)
  /\ Len(accepted) <= tried
  /\ lapse \in Int \cup {None} /\ answer \in Int \cup {None}
  /\ lapse # None => Sampling /\ tried < DefaultSamples
  /\ answer # None => lapse # None
  /\ offset \in Int /\ prevOffset \in Int /\ skewSum \in Int /\ hasSynced \in BOOLEAN
  /\ reader \in {"idle", "synced", "never"}
  /\ {seen, synced} \subseteq [low : Int, high : Int, back : Nat]

(* Half of the longest round trip that is accepted, rounded up *)
Close == (MaxRTT + 1) \div 2

Within(o, s) == /\ s.low - s.back - Close <= o
                /\ o <= s.high + s.back + Close

(* The offset a synchronisation arrives at is one that the peer's clock    *)
(* really had while the samples were taken, up to half a round trip and to *)
(* what the peer's clock was set back amid a sample: no discarded, lost or *)
(* late sample, no asymmetry of the way there and back, and no setting of  *)
(* either clock leads it further astray.                                   *)
OffsetIsClose == hasSynced => Within(offset, synced)

(* The recorded skews lead from the first offset, 0, to the present one.   *)
SkewsAddUp == skewSum = offset

(* clock.go:166: "Gracefully degrading to ... Last Known Offset".  Once    *)
(* HandleSyncFailure has seen a synchronisation, what it gets from Now is  *)
(* the time of one, though it takes the lock twice and another may come    *)
(* between.                                                                *)
FallbackIsSynced == reader = "synced" => Within(NowOffset, synced)

(* With a peer that answers in time and clocks that are no longer set, the *)
(* loop ends up with the offset that the peer's clock has now.             *)
SyncConverges ==
  <>[](link = "good" /\ ~stopped) =>
    <>[](hasSynced /\ Within(offset, Present))
=============================================================================
