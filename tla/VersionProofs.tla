---------------------------- MODULE VersionProofs ----------------------------
(***************************************************************************)
(* What the versions of Replication are worth while clients wait for one   *)
(* write before the next: an acknowledged write stays where it was         *)
(* delivered, and if one node that never fails takes all the writes, two   *)
(* nodes with the same version of a file store the same file, and a read   *)
(* returns what the stores know.                                           *)
(***************************************************************************)
EXTENDS ReplicationProofs

USE TargetsAreNodes, NoneIsNothing, CallersDiffer, BoundsAreNatural, PartsAreNodes
USE DEF storeVars, countVars

-----------------------------------------------------------------------------
(* When clients wait for a write to end before the next: what a write has  *)
(* brought to its targets is not lost again.  Stores only go back where a  *)
(* write is saved, and only one write can be about to be.                  *)

(* The node stores version v of f or a newer one, or has lost its memory.  *)
AtLeast(n, f, v) == fileStore[n][f] # None /\ fileStore[n][f].Version >= v
Newer(n, f, v)   == n \in restarted \/ AtLeast(n, f, v)

HasNewer(n, c) == Newer(n, writes[c].name, writes[c].file.Version)

OneAtATime == \A c, d \in Content : ~Ended(c) /\ ~Ended(d) => c = d

(* The targets that are no longer ahead of a write have its version.       *)
Delivered(c) ==
  LET w == writes[c] IN
  /\ w.stage \in {"sending", "waiting"} =>
       \A n \in WrittenTo : \/ \E m \in DOMAIN w.todo : w.todo[m] = n
                            \/ HasNewer(n, c)
  /\ w.stage \in {"saved", "read", "acknowledged"} =>
       \A n \in WrittenTo : HasNewer(n, c)

(* Once its handler has replied, a write's request has brought its version. *)
Brings(p, c) == LET e == <<writes[c].name, writes[c].file>>
                IN  e \in p.todo \/ p.half = e \/ HasNewer(p.to, c)

(* A write that is going on follows, at a target, those acknowledged.      *)
Follows(d, c) ==
  writes[c].stage = "acknowledged" /\ ~Ended(d) /\ writes[d].name = writes[c].name
    /\ writes[d].at \in WrittenTo \ restarted
    => writes[d].file.Version > writes[c].file.Version

AllDelivered == \A c \in Content : Delivered(c)
AllBring     == \A p \in posts : p.by \in Content => Brings(p, p.by)
AllFollow    == \A c, d \in Content : Follows(d, c)

AckInv == OneAtATime /\ AllDelivered /\ AllBring /\ AllFollow

StoresGrow == \A n \in Node, f \in Name, v \in Nat : Newer(n, f, v) => Newer(n, f, v)'

(* A write stays as it is or fails. *)
Idles(c) == \/ writes'[c] = writes[c]
            \/ writes'[c] = [writes[c] EXCEPT !.stage = "failed"]

LEMMA WrittenToNodes == WrittenTo \subseteq Node /\ WrittenTo' = WrittenTo
BY DEF WrittenTo

LEMMA WritesTyped ==
  ASSUME IInv, NEW c \in Content
  PROVE  /\ WriteOK(writes[c]) /\ writes[c] \in WriteType
         /\ writes[c].stage # "unborn" =>
              /\ writes[c].at \in Node /\ writes[c].name \in Name
              /\ writes[c].file \in File /\ writes[c].file.Version \in Nat
BY DEF IInv, JobsInv, WriteOK, File

LEMMA NewerStays ==
  ASSUME IInv, StoresGrow, NEW n \in Node, NEW c \in Content,
         writes[c].stage # "unborn", HasNewer(n, c),
         writes'[c].name = writes[c].name, writes'[c].file = writes[c].file
  PROVE  HasNewer(n, c)'
<1>1. writes[c].name \in Name /\ writes[c].file.Version \in Nat
  BY WritesTyped
<1>2. Newer(n, writes[c].name, writes[c].file.Version)'
  BY <1>1 DEF HasNewer, StoresGrow
<1> QED
  BY <1>2 DEF HasNewer, Newer, AtLeast

LEMMA DeliveredStays ==
  ASSUME IInv, StoresGrow, NEW c \in Content, Delivered(c), Idles(c)
  PROVE  Delivered(c)'
<1>0. WriteOK(writes[c]) /\ writes[c] \in WriteType
  BY WritesTyped
<1>1. CASE writes'[c] = writes[c]
  <2>1. \A n \in WrittenTo :
          writes[c].stage # "unborn" /\ HasNewer(n, c) => HasNewer(n, c)'
    BY <1>1, NewerStays, WrittenToNodes
  <2> QED
    BY <1>0, <1>1, <2>1, WrittenToNodes DEF Delivered
<1>2. CASE writes'[c] = [writes[c] EXCEPT !.stage = "failed"]
  BY <1>0, <1>2 DEF Delivered, WriteType
<1> QED
  BY <1>1, <1>2 DEF Idles

LEMMA IdlingEndsAtMost ==
  ASSUME IInv, NEW c \in Content, Idles(c)
  PROVE  /\ Ended(c) => Ended(c)'
         /\ writes'[c].stage = "acknowledged" => writes[c].stage = "acknowledged"
         /\ writes'[c].at = writes[c].at /\ writes'[c].name = writes[c].name
         /\ writes'[c].file = writes[c].file
<1>1. writes[c] \in WriteType
  BY WritesTyped
<1>2. CASE writes'[c] = writes[c]
  BY <1>2 DEF Ended
<1>3. CASE writes'[c] = [writes[c] EXCEPT !.stage = "failed"]
  BY <1>1, <1>3 DEF Ended, WriteType
<1> QED
  BY <1>2, <1>3 DEF Idles

(* When writes idle, only requests are to be looked at. *)
LEMMA WritesIdle ==
  ASSUME IInv, AckInv, StoresGrow, restarted \subseteq restarted',
         \A c \in Content : Idles(c)
  PROVE  OneAtATime' /\ AllDelivered' /\ AllFollow'
<1>1. \A c \in Content :
        /\ Ended(c) => Ended(c)'
        /\ writes'[c].stage = "acknowledged" => writes[c].stage = "acknowledged"
        /\ writes'[c].at = writes[c].at
        /\ writes'[c].name = writes[c].name
        /\ writes'[c].file = writes[c].file
  BY IdlingEndsAtMost
<1>2. OneAtATime'
  BY <1>1 DEF AckInv, OneAtATime
<1>3. AllDelivered'
  BY DeliveredStays DEF AckInv, AllDelivered
<1>4. AllFollow'
  BY <1>1, WrittenToNodes DEF AckInv, AllFollow, Follows
<1> QED
  BY <1>2, <1>3, <1>4

(* Whoever is waited for still brings what it brought. *)
LEMMA BringingStays ==
  ASSUME IInv, ListInv, AckInv, StoresGrow, NEW p \in posts, p.by \in Content,
         writes'[p.by] = writes[p.by]
  PROVE  Brings(p, p.by)'
<1>1. p.to \in Node /\ writes[p.by].stage = "waiting" /\ Brings(p, p.by)
  BY DEF IInv, JobsInv, PostType, ListInv, AllAwaited, Awaited, RequestOfWrite,
         AckInv, AllBring
<1> QED
  BY <1>1, NewerStays DEF Brings

LEMMA RequestsStillBring ==
  ASSUME IInv, ListInv, AckInv, StoresGrow,
         \A p \in posts' : p.by \in Content => p \in posts /\ writes'[p.by] = writes[p.by]
  PROVE  AllBring'
BY BringingStays DEF AllBring

(* What no write has a part in *)
LEMMA OthersKeepAcknowledged ==
  ASSUME IInv, ListInv, AckInv, UNCHANGED <<writes, fileStore, restarted>>,
         \A p \in posts' : p.by \in Content => p \in posts
  PROVE  AckInv'
<1>1. StoresGrow /\ \A c \in Content : Idles(c)
  BY DEF StoresGrow, Newer, AtLeast, Idles
<1> QED
  BY <1>1, WritesIdle, RequestsStillBring DEF AckInv

LEMMA TodoHasTargets ==
  LET todo == IF Len(Targets) > ReplicationFactor
                THEN SubSeq(Targets, 1, ReplicationFactor) ELSE Targets
  IN  \A n \in WrittenTo : \E m \in DOMAIN todo : todo[m] = n
<1> DEFINE todo == IF Len(Targets) > ReplicationFactor
                     THEN SubSeq(Targets, 1, ReplicationFactor) ELSE Targets
<1>1. ASSUME NEW n \in WrittenTo PROVE \E m \in DOMAIN todo : todo[m] = n
  <2>1. PICK m \in DOMAIN Targets : m <= ReplicationFactor /\ Targets[m] = n
    BY DEF WrittenTo
  <2>2. CASE Len(Targets) > ReplicationFactor
    <3>1. m \in 1 .. ReplicationFactor
      BY <2>1
    <3> QED
      BY <2>1, <2>2, <3>1
  <2>3. CASE ~(Len(Targets) > ReplicationFactor)
    BY <2>1, <2>3
  <2> QED
    BY <2>2, <2>3
<1> QED
  BY <1>1

LEMMA BeginWriteKeepsAcknowledged ==
  ASSUME IInv, ListInv, AckInv, OneByOne,
         NEW i \in Node, NEW f \in Name, NEW c \in Content, BeginWrite(i, f, c)
  PROVE  AckInv'
<1> DEFINE todo == IF Len(Targets) > ReplicationFactor
                     THEN SubSeq(Targets, 1, ReplicationFactor) ELSE Targets
<1>0. /\ writes \in [Content -> WriteType] /\ writes[c].stage = "unborn"
      /\ \A d \in Content : Ended(d)
  BY DEF IInv, JobsInv, BeginWrite, NoWrite
<1>1. /\ writes'[c].stage = "sending" /\ writes'[c].at = i /\ writes'[c].name = f
      /\ writes'[c].file.Version = NextVersion(i, f) /\ writes'[c].todo = todo
  BY <1>0 DEF BeginWrite
<1>2. \A d \in Content : d # c => writes'[d] = writes[d]
  BY DEF BeginWrite
<1>3. StoresGrow /\ restarted' = restarted
  BY DEF BeginWrite, StoresGrow, Newer, AtLeast
<1>4. OneAtATime'
  BY <1>0, <1>2 DEF OneAtATime, Ended
<1>5. AllDelivered'
  <2>1. Delivered(c)'
    BY <1>1, TodoHasTargets, WrittenToNodes DEF Delivered
  <2>2. ASSUME NEW d \in Content, d # c PROVE Delivered(d)'
    BY <1>2, <1>3, <2>2, DeliveredStays DEF AckInv, AllDelivered, Idles
  <2> QED
    BY <2>1, <2>2 DEF AllDelivered
<1>6. AllBring'
  <2>1. \A p \in posts' : p \in posts /\ p.by # c
    BY <1>0, WhoSendsHasNoRequest DEF BeginWrite
  <2> QED
    BY <1>2, <1>3, <2>1, RequestsStillBring
<1>7. AllFollow'
  <2> SUFFICES ASSUME NEW d \in Content, NEW b \in Content,
                      (writes[b].stage = "acknowledged" /\ ~Ended(d)
                        /\ writes[d].name = writes[b].name
                        /\ writes[d].at \in WrittenTo \ restarted)'
               PROVE  (writes[d].file.Version > writes[b].file.Version)'
    BY DEF AllFollow, Follows
  <2>1. d = c /\ b # c
    BY <1>0, <1>1, <1>2 DEF Ended
  <2>2. i \in WrittenTo /\ i \notin restarted /\ writes[b].name = f
        /\ writes[b].stage = "acknowledged" /\ writes'[b] = writes[b]
    BY <1>1, <1>2, <1>3, <2>1, WrittenToNodes
  <2>3. fileStore[i][f] # None /\ fileStore[i][f].Version >= writes[b].file.Version
    BY <2>2 DEF AckInv, AllDelivered, Delivered, HasNewer, Newer, AtLeast
  <2>4. fileStore[i][f].Version \in Nat /\ writes[b].file.Version \in Nat
    BY <2>2, <2>3, WritesTyped DEF IInv, StoreInv, StoresTyped, File
  <2> QED
    BY <1>1, <2>1, <2>2, <2>3, <2>4 DEF NextVersion
<1> QED
  BY <1>4, <1>5, <1>6, <1>7 DEF AckInv

(* One write goes on, no store goes back. *)
LEMMA OneWriteGoesOn ==
  ASSUME IInv, AckInv, StoresGrow, restarted \subseteq restarted',
         NEW c \in Content, ~Ended(c), Delivered(c)',
         writes'[c].name = writes[c].name, writes'[c].file = writes[c].file,
         writes'[c].at = writes[c].at,
         \A d \in Content : d # c => writes'[d] = writes[d]
  PROVE  OneAtATime' /\ AllDelivered' /\ AllFollow'
<1>1. \A d \in Content : ~Ended(d)' => d = c
  BY DEF AckInv, OneAtATime, Ended
<1>2. AllDelivered'
  <2>1. ASSUME NEW d \in Content, d # c PROVE Delivered(d)'
    BY <2>1, DeliveredStays DEF AckInv, AllDelivered, Idles
  <2> QED
    BY <2>1 DEF AllDelivered
<1>3. AllFollow'
  <2> SUFFICES ASSUME NEW d \in Content, NEW b \in Content, Follows(d, b)' = FALSE
               PROVE  FALSE
    BY DEF AllFollow, Follows
  <2>1. d = c
    BY <1>1 DEF Follows
  <2>2. b # c
    BY <2>1 DEF Follows, Ended
  <2>3. Follows(d, b)
    BY DEF AckInv, AllFollow
  <2> QED
    BY <2>1, <2>2, <2>3, WrittenToNodes DEF Follows
<1> QED
  BY <1>1, <1>2, <1>3 DEF OneAtATime

LEMMA WritingKeepsAcknowledged ==
  ASSUME IInv, ListInv, AckInv, NEW c \in Content, Writing(c)
  PROVE  AckInv'
<1> DEFINE w == writes[c]
<1>0. /\ posts \subseteq PostType /\ WriteOK(w) /\ w \in WriteType
      /\ writes \in [Content -> WriteType] /\ Delivered(c)
      /\ restarted' = restarted /\ ~Ended(c) /\ w.stage # "unborn"
      /\ \A d \in Content : d # c => writes'[d] = writes[d]
  BY DEF IInv, JobsInv, AckInv, AllDelivered, Writing, SendWrite, WriteReceived,
         WriteFails, SaveWrite, ReadLatest, Acknowledge, Ended, GiveUp, countVars
<1>1. ~SaveWrite(c) => StoresGrow
  BY DEF Writing, SendWrite, WriteReceived, WriteFails, ReadLatest, Acknowledge,
         StoresGrow, Newer, AtLeast, GiveUp
<1>2. CASE SendWrite(c)
  <2>1. writes'[c] = [w EXCEPT !.stage = "waiting"]
    BY <1>0, <1>2 DEF SendWrite
  <2>2. /\ writes'[c].stage = "waiting" /\ writes'[c].todo = w.todo
        /\ writes'[c].at = w.at /\ writes'[c].name = w.name /\ writes'[c].file = w.file
    BY <1>0, <2>1 DEF WriteType
  <2>3. PICK q : /\ q = Post(c, Head(w.todo), {<<w.name, w.file>>})
                 /\ posts' = posts \cup {q}
    BY <1>2 DEF SendWrite
  <2>4. StoresGrow /\ Delivered(c)'
    <3>1. StoresGrow
      BY <1>1, <1>2 DEF SendWrite, SaveWrite
    <3>2. \A n \in WrittenTo : HasNewer(n, c) => HasNewer(n, c)'
      BY <1>0, <2>2, <3>1, NewerStays, WrittenToNodes
    <3> QED
      BY <1>0, <1>2, <2>2, <3>1, <3>2, WrittenToNodes DEF Delivered, SendWrite
  <2>5. AllBring'
    <3>1. ASSUME NEW p \in posts, p.by \in Content PROVE Brings(p, p.by)'
      <4>1. p.by # c
        BY <1>2, WhoSendsHasNoRequest DEF SendWrite
      <4> QED
        BY <1>0, <2>4, <3>1, <4>1, BringingStays
    <3>2. Brings(q, q.by)'
      BY <2>2, <2>3 DEF Post, Brings
    <3> QED
      BY <2>3, <3>1, <3>2 DEF AllBring
  <2> QED
    BY <1>0, <2>2, <2>4, <2>5, OneWriteGoesOn DEF AckInv
<1>3. CASE WriteReceived(c)
  <2>1. PICK p \in posts : Answers(p, c) /\ posts' = posts \ {p}
    BY <1>3 DEF WriteReceived
  <2>2. /\ writes'[c].stage = "sending" /\ writes'[c].todo = Tail(w.todo)
        /\ writes'[c].at = w.at /\ writes'[c].name = w.name /\ writes'[c].file = w.file
    <3>1. writes'[c] = [w EXCEPT !.stage = "sending", !.todo = Tail(w.todo)]
      BY <1>0, <1>3 DEF WriteReceived
    <3> QED
      BY <1>0, <3>1 DEF WriteType
  <2>3. StoresGrow
    BY <1>1, <1>3 DEF WriteReceived, SaveWrite
  <2>4. w.todo # << >> /\ w.todo \in Seq(Node) /\ HasNewer(Head(w.todo), c)
    <3>1. Brings(p, c) /\ p.half = None /\ p.todo = {} /\ p.to = Head(w.todo)
      BY <2>1 DEF AckInv, AllBring, Answers, ListInv, AllAwaited, Awaited, RequestOfWrite
    <3>2. <<w.name, w.file>> # None
      BY <1>0 DEF WriteOK, File
    <3> QED
      BY <1>0, <1>3, <3>1, <3>2 DEF Brings, WriteReceived, WriteOK, WriteType
  <2>5. Delivered(c)'
    <3>1. ASSUME NEW n \in WrittenTo
          PROVE  \/ \E m \in DOMAIN Tail(w.todo) : Tail(w.todo)[m] = n
                 \/ HasNewer(n, c)'
      <4>1. HasNewer(n, c) => HasNewer(n, c)'
        BY <1>0, <2>2, <2>3, NewerStays, WrittenToNodes
      <4>2. CASE HasNewer(n, c)
        BY <4>1, <4>2
      <4>3. CASE \E m \in DOMAIN w.todo : w.todo[m] = n
        <5>1. PICK m \in DOMAIN w.todo : w.todo[m] = n
          BY <4>3
        <5>2. CASE m = 1
          BY <2>4, <4>1, <5>1, <5>2
        <5>3. CASE m # 1
          <6>1. m - 1 \in DOMAIN Tail(w.todo) /\ Tail(w.todo)[m - 1] = n
            BY <2>4, <5>1, <5>3, LaterIsInTail
          <6> QED
            BY <6>1
        <5> QED
          BY <5>2, <5>3
      <4> QED
        BY <1>0, <1>3, <4>2, <4>3 DEF Delivered, WriteReceived
    <3> QED
      BY <2>2, <3>1, WrittenToNodes DEF Delivered
  <2>6. AllBring'
    <3>1. \A q \in posts' : q \in posts /\ (q.by \in Content => q.by # c)
      BY <2>1 DEF Answers, ListInv, OneRequest
    <3> QED
      BY <1>0, <2>3, <3>1, RequestsStillBring
  <2> QED
    BY <1>0, <2>2, <2>3, <2>5, <2>6, OneWriteGoesOn DEF AckInv
<1>4. CASE WriteFails(c)
  <2>1. StoresGrow /\ \A d \in Content : Idles(d)
    BY <1>0, <1>1, <1>4 DEF WriteFails, SaveWrite, Idles
  <2>2. Settles(c)
    <3>1. LocalStays /\ c # None
      BY <1>4 DEF WriteFails, LocalStays
    <3> QED
      BY <1>0, <1>4, <3>1, GivingUpSettles DEF WriteFails
  <2>3. AllBring'
    <3>1. \A p \in posts' : p.by \in Content => p \in posts /\ p.by # c
      BY <2>2 DEF Settles
    <3> QED
      BY <1>0, <2>1, <3>1, RequestsStillBring
  <2> QED
    BY <1>0, <2>1, <2>3, WritesIdle DEF AckInv
<1>5. CASE ReadLatest(c) \/ Acknowledge(c)
  <2>1. /\ w.stage \in {"saved", "read"} /\ writes'[c].stage \in {"read", "acknowledged"}
        /\ writes'[c].at = w.at /\ writes'[c].name = w.name /\ writes'[c].file = w.file
    BY <1>0, <1>5 DEF ReadLatest, Acknowledge, WriteType
  <2>2. StoresGrow
    BY <1>1, <1>5 DEF ReadLatest, Acknowledge, SaveWrite
  <2>3. Delivered(c)'
    <3>1. \A n \in WrittenTo : HasNewer(n, c)'
      BY <1>0, <2>1, <2>2, NewerStays, WrittenToNodes DEF Delivered
    <3> QED
      BY <2>1, <3>1, WrittenToNodes DEF Delivered
  <2>4. AllBring'
    <3>1. \A p \in posts' : p \in posts /\ p.by # c
      BY <1>5, WhoSendsHasNoRequest DEF ReadLatest, Acknowledge
    <3> QED
      BY <1>0, <2>2, <3>1, RequestsStillBring
  <2> QED
    BY <1>0, <2>1, <2>2, <2>3, <2>4, OneWriteGoesOn DEF AckInv
<1>6. CASE SaveWrite(c)
  <2>1. /\ w.at \in Node /\ w.name \in Name /\ w.file \in File /\ w.stage = "sending"
        /\ w.todo = << >> /\ UNCHANGED posts
        /\ fileStore' = [fileStore EXCEPT ![w.at][w.name] = w.file]
    BY <1>0, <1>6 DEF SaveWrite, SaveFile, WriteOK
  <2>2. /\ writes'[c].stage = "saved"
        /\ writes'[c].at = w.at /\ writes'[c].name = w.name /\ writes'[c].file = w.file
    BY <1>0, <1>6 DEF SaveWrite, WriteType
  <2>3. /\ fileStore'[w.at][w.name] = w.file /\ w.file # None /\ w.file.Version \in Nat
        /\ \A n \in Node, f \in Name :
             n # w.at \/ f # w.name => fileStore'[n][f] = fileStore[n][f]
    BY <2>1, FilesAreSomething DEF IInv, StoreInv, StoresTyped, File
  <2>4. \A d \in Content : d # c => Ended(d)
    BY <1>0 DEF AckInv, OneAtATime
  <2>5. AllDelivered'
    <3>1. ASSUME NEW d \in Content, NEW n \in WrittenTo, HasNewer(n, d),
                 d = c \/ writes[d].stage = "acknowledged"
          PROVE  HasNewer(n, d)'
      <4>1. /\ n \in Node /\ writes[d].name \in Name /\ writes[d].file.Version \in Nat
            /\ writes'[d].name = writes[d].name /\ writes'[d].file = writes[d].file
        BY <1>0, <2>2, <3>1, WritesTyped, WrittenToNodes
      <4>2. CASE n # w.at \/ writes[d].name # w.name
        BY <1>0, <2>3, <3>1, <4>1, <4>2 DEF HasNewer, Newer, AtLeast
      <4>3. CASE n = w.at /\ writes[d].name = w.name
        <5>1. n \in restarted \/ w.file.Version >= writes[d].file.Version
          <6>1. CASE d = c
            BY <2>3, <6>1
          <6>2. CASE writes[d].stage = "acknowledged"
            BY <1>0, <2>3, <4>1, <4>3, <6>2 DEF AckInv, AllFollow, Follows
          <6> QED
            BY <3>1, <6>1, <6>2
        <5> QED
          BY <1>0, <2>3, <4>1, <4>3, <5>1 DEF HasNewer, Newer, AtLeast
      <4> QED
        BY <4>2, <4>3
    <3>2. \A n \in WrittenTo : HasNewer(n, c)
      BY <1>0, <2>1 DEF Delivered
    <3>3. Delivered(c)'
      BY <2>2, <3>1, <3>2, WrittenToNodes DEF Delivered
    <3>4. ASSUME NEW d \in Content, d # c PROVE Delivered(d)'
      <4>1. Ended(d) /\ Delivered(d) /\ writes'[d] = writes[d]
        BY <1>0, <2>4, <3>4 DEF AckInv, AllDelivered
      <4>2. CASE writes[d].stage = "acknowledged"
        <5>1. \A n \in WrittenTo : HasNewer(n, d)
          BY <4>1, <4>2 DEF Delivered
        <5>2. \A n \in WrittenTo : HasNewer(n, d)'
          BY <3>1, <4>2, <5>1
        <5> QED
          BY <4>1, <4>2, <5>2, WrittenToNodes DEF Delivered
      <4> QED
        BY <4>1, <4>2 DEF Delivered, Ended
    <3> QED
      BY <3>3, <3>4 DEF AllDelivered
  <2>6. AllBring'
    <3>1. \A p \in posts : p.by \in Content => ~Ended(p.by) /\ p.by # c
      BY <2>1, WhoSendsHasNoRequest
      DEF ListInv, AllAwaited, Awaited, RequestOfWrite, Ended
    <3> QED
      BY <2>1, <2>4, <3>1 DEF AllBring
  <2>7. OneAtATime'
    BY <1>0, <2>4 DEF OneAtATime, Ended
  <2>8. AllFollow'
    <3> SUFFICES ASSUME NEW d \in Content, NEW b \in Content, Follows(d, b)' = FALSE
                 PROVE  FALSE
      BY DEF AllFollow, Follows
    <3>1. d = c /\ b # c
      BY <1>0, <2>2, <2>4 DEF Follows, Ended
    <3>2. Follows(c, b)
      BY DEF AckInv, AllFollow
    <3> QED
      BY <1>0, <2>2, <3>1, <3>2, WrittenToNodes DEF Follows
  <2> QED
    BY <2>5, <2>6, <2>7, <2>8 DEF AckInv
<1> QED
  BY <1>2, <1>3, <1>4, <1>5, <1>6 DEF Writing

(* Storing a file never takes a store back. *)
StoresRise == \A n \in Node, f \in Name, v \in Nat : AtLeast(n, f, v) => AtLeast(n, f, v)'

LEMMA RisingGrows ==
  ASSUME StoresRise, restarted \subseteq restarted'
  PROVE  StoresGrow
BY DEF StoresRise, StoresGrow, Newer

LEMMA StoringRises ==
  ASSUME IInv, NEW p \in PostType, SaveReplica(p)
  PROVE  StoresRise /\ AtLeast(p.to, p.half[1], p.half[2].Version)'
<1> DEFINE i == p.to
           f == p.half[1]
           file == p.half[2]
<1>1. i \in Node /\ f \in Name /\ file \in File /\ file.Version \in Nat /\ file # None
  BY FilesAreSomething DEF SaveReplica, PostType, Entry, File
<1>2. fileStore' = IF Accepts(file, fileStore[i][f])
                     THEN [fileStore EXCEPT ![i][f] = file] ELSE fileStore
  BY DEF SaveReplica, SaveReplicaOnNode
<1>3. fileStore \in [Node -> [Name -> File \cup {None}]] /\ restarted' = restarted
  BY DEF IInv, StoreInv, StoresTyped, SaveReplica
<1>4. \A n \in Node, g \in Name :
        fileStore[n][g] # None => fileStore[n][g].Version \in Nat
  BY <1>3 DEF File
<1>5. CASE Accepts(file, fileStore[i][f])
  <2>1. fileStore'[i][f] = file
    BY <1>1, <1>2, <1>3, <1>5
  <2>2. \A n \in Node, g \in Name : n # i \/ g # f => fileStore'[n][g] = fileStore[n][g]
    BY <1>1, <1>2, <1>3, <1>5
  <2>3. ASSUME NEW v \in Nat, AtLeast(i, f, v) PROVE AtLeast(i, f, v)'
    BY <1>1, <1>3, <1>4, <1>5, <2>1, <2>3 DEF Accepts, AtLeast
  <2>4. ASSUME NEW n \in Node, NEW g \in Name, NEW v \in Nat, AtLeast(n, g, v)
        PROVE  AtLeast(n, g, v)'
    <3>1. CASE n # i \/ g # f
      BY <1>3, <2>2, <2>4, <3>1 DEF AtLeast
    <3>2. CASE n = i /\ g = f
      <4>1. AtLeast(i, f, v)'
        BY <2>3, <2>4, <3>2
      <4> QED
        BY <3>2, <4>1 DEF AtLeast
    <3> QED
      BY <3>1, <3>2
  <2> QED
    BY <1>1, <2>1, <2>4 DEF StoresRise, AtLeast
<1>6. CASE ~Accepts(file, fileStore[i][f])
  <2>1. fileStore' = fileStore /\ fileStore[i][f] # None
        /\ fileStore[i][f].Version >= file.Version
    BY <1>1, <1>2, <1>4, <1>6 DEF Accepts
  <2> QED
    BY <1>3, <2>1 DEF StoresRise, AtLeast
<1> QED
  BY <1>5, <1>6

LEMMA StoringGrows ==
  ASSUME IInv, NEW p \in PostType, SaveReplica(p)
  PROVE  StoresGrow /\ Newer(p.to, p.half[1], p.half[2].Version)'
BY StoringRises, RisingGrows DEF SaveReplica, countVars, Newer

LEMMA HandlersKeepAcknowledged ==
  ASSUME IInv, ListInv, AckInv, NEW p \in posts,
         SaveReplica(p) \/ \E e \in p.todo : StoreLocally(p, e)
  PROVE  AckInv'
<1>0. p \in PostType /\ UNCHANGED <<writes, restarted>>
      /\ \A c \in Content : Idles(c)
  BY DEF IInv, JobsInv, SaveReplica, StoreLocally, countVars, Idles
<1>1. CASE SaveReplica(p)
  <2> DEFINE q == [p EXCEPT !.half = None]
  <2>1. /\ q.by = p.by /\ q.to = p.to /\ q.todo = p.todo
        /\ posts' \subseteq (posts \ {p}) \cup {q}
    BY <1>0, <1>1 DEF PostType, SaveReplica
  <2>2. StoresGrow
    BY <1>0, <1>1, StoringGrows
  <2>3. ASSUME NEW r \in posts', r.by \in Content PROVE Brings(r, r.by)'
    <3>1. CASE r \in posts
      BY <1>0, <2>2, <2>3, <3>1, BringingStays
    <3>2. CASE r = q
      <4>1. Brings(p, p.by) /\ writes[p.by].stage = "waiting" /\ p.by \in Content
        BY <2>1, <2>3, <3>2
        DEF AckInv, AllBring, ListInv, AllAwaited, Awaited, RequestOfWrite
      <4>2. CASE p.half = <<writes[p.by].name, writes[p.by].file>>
        <5>1. HasNewer(p.to, p.by)'
          <6>1. p.half[1] = writes[p.by].name /\ p.half[2] = writes[p.by].file
            BY <4>2
          <6> QED
            BY <1>0, <1>1, <6>1, StoringGrows DEF HasNewer, Newer, AtLeast
        <5> QED
          BY <2>1, <3>2, <5>1 DEF Brings
      <4>3. CASE HasNewer(p.to, p.by)
        <5>1. HasNewer(p.to, p.by)'
          BY <1>0, <2>2, <4>1, <4>3, NewerStays DEF PostType
        <5> QED
          BY <2>1, <3>2, <5>1 DEF Brings
      <4>4. CASE <<writes[p.by].name, writes[p.by].file>> \in p.todo
        BY <1>0, <2>1, <3>2, <4>4 DEF Brings
      <4> QED
        BY <4>1, <4>2, <4>3, <4>4 DEF Brings
    <3> QED
      BY <2>1, <3>1, <3>2
  <2> QED
    BY <1>0, <2>2, <2>3, WritesIdle DEF AckInv, AllBring
<1>2. ASSUME NEW e \in p.todo, StoreLocally(p, e) PROVE AckInv'
  <2> DEFINE q == [p EXCEPT !.todo = @ \ {e}, !.half = e]
  <2>1. /\ q.by = p.by /\ q.to = p.to /\ q.todo = p.todo \ {e} /\ q.half = e
        /\ p.half = None /\ posts' = (posts \ {p}) \cup {q}
    BY <1>0, <1>2 DEF PostType, StoreLocally
  <2>2. StoresGrow /\ fileStore' = fileStore
    BY <1>2 DEF StoreLocally, StoresGrow, Newer, AtLeast
  <2>3. ASSUME NEW r \in posts', r.by \in Content PROVE Brings(r, r.by)'
    <3>1. CASE r \in posts
      BY <1>0, <2>2, <2>3, <3>1, BringingStays
    <3>2. CASE r = q
      <4>1. Brings(p, p.by) /\ p.by \in Content
        BY <2>1, <2>3, <3>2 DEF AckInv, AllBring
      <4>2. <<writes[p.by].name, writes[p.by].file>> # None
        <5>1. WriteOK(writes[p.by]) /\ writes[p.by].stage = "waiting"
          BY <4>1, WritesTyped DEF ListInv, AllAwaited, Awaited, RequestOfWrite
        <5> QED
          BY <5>1 DEF WriteOK, File
      <4>3. HasNewer(p.to, p.by) => HasNewer(p.to, p.by)'
        BY <1>0, <2>2 DEF HasNewer, Newer, AtLeast
      <4> QED
        BY <1>0, <2>1, <3>2, <4>1, <4>2, <4>3 DEF Brings
    <3> QED
      BY <2>1, <3>1, <3>2
  <2> QED
    BY <1>0, <2>2, <2>3, WritesIdle DEF AckInv, AllBring
<1> QED
  BY <1>1, <1>2

(* Steps of a repair or a synchronisation *)
LEMMA ChoresKeepAcknowledged ==
  ASSUME IInv, ListInv, AckInv,
         \/ \E i, n \in Node : BeginRepair(i, n) \/ BeginSync(i, n)
         \/ RemoveFailed \/ Restored \/ RestoreFails
         \/ \E k \in Chore : Upkeep(k)
  PROVE  AckInv'
<1> USE DEF Chore, RemoveNodeFromAllReplicaMaps, UpdateReplicaNodes
<1>0. posts \subseteq PostType
  BY DEF IInv, JobsInv
<1>1. UNCHANGED <<writes, fileStore, restarted>>
  BY DEF BeginRepair, BeginSync, RemoveFailed, Restored, RestoreFails, Upkeep, ChooseFile,
         ListReplicas, SendCopy, CopyReceived, CopyFails, RecordReplicas, FinishChore
<1>2. ASSUME NEW by, NEW at, NEW sent, GiveUp(by, at, sent)
      PROVE  \A p \in posts' : p.by \in Content => p \in posts
  BY <1>0, <1>2 DEF GiveUp, PostType
<1>3. ASSUME NEW k \in Chore, NEW n, NEW files,
             posts' = posts \cup {Post(k, n, files)}
      PROVE  \A p \in posts' : p.by \in Content => p \in posts
  BY <1>3 DEF Post
<1>4. \A p \in posts' : p.by \in Content => p \in posts
  <2>1. CASE posts' \subseteq posts
    BY <2>1
  <2>2. CASE \E i, n \in Node : BeginSync(i, n)
    BY <1>3, <2>2 DEF BeginSync
  <2>3. CASE \E k \in Chore : SendCopy(k)
    BY <1>3, <2>3 DEF SendCopy
  <2>4. CASE RestoreFails \/ \E k \in Chore : CopyFails(k)
    BY <1>2, <2>4 DEF RestoreFails, CopyFails
  <2>5. CASE \E i, n \in Node : BeginRepair(i, n)
    BY <2>5 DEF BeginRepair
  <2>6. CASE RemoveFailed \/ Restored
    BY <2>6 DEF RemoveFailed, Restored
  <2>7. ASSUME NEW k \in Chore,
               \/ ChooseFile(k) \/ ListReplicas(k) \/ CopyReceived(k)
               \/ RecordReplicas(k) \/ FinishChore(k)
        PROVE  posts' \subseteq posts
    BY <2>7 DEF ChooseFile, ListReplicas, CopyReceived, RecordReplicas, FinishChore
  <2> QED
    BY <2>1, <2>2, <2>3, <2>4, <2>5, <2>6, <2>7 DEF Upkeep
<1> QED
  BY <1>1, <1>4, OthersKeepAcknowledged

LEMMA RestartKeepsAcknowledged ==
  ASSUME IInv, ListInv, AckInv, NEW i \in Node, Restart(i)
  PROVE  AckInv'
<1> DEFINE mine == {c \in Content : writes[c].at = i /\ ~Ended(c)} \cup
                   {k \in Chore : chores[k].at = i}
<1>0. posts \subseteq PostType /\ restarted' = restarted \cup {i}
  BY DEF Restart, IInv, JobsInv
<1>1. \A c \in Content :
        writes'[c] = IF c \in mine THEN [writes[c] EXCEPT !.stage = "failed"] ELSE writes[c]
  BY DEF Restart
<1>2. StoresGrow
  BY <1>0 DEF Restart, StoresGrow, Newer, AtLeast, IInv, StoreInv, StoresTyped
<1>3. ASSUME NEW p \in posts', p.by \in Content
      PROVE  p \in posts /\ writes'[p.by] = writes[p.by]
  <2>1. PICK q \in posts : p = IF q.by \in mine THEN [q EXCEPT !.by = None] ELSE q
    BY DEF Restart
  <2>2. [q EXCEPT !.by = None].by = None
    BY <1>0 DEF PostType
  <2>3. q.by \notin mine
    BY <1>3, <2>1, <2>2
  <2> QED
    BY <1>1, <1>3, <2>1, <2>3
<1>4. AllBring'
  BY <1>2, <1>3, RequestsStillBring
<1> QED
  BY <1>0, <1>1, <1>2, <1>4, WritesIdle DEF AckInv, Idles

LEMMA StepsKeepAcknowledged ==
  ASSUME OneByOne
  PROVE  IInv /\ ListInv /\ AckInv /\ [Next]_vars => AckInv'
<1> SUFFICES ASSUME IInv, ListInv, AckInv, [Next]_vars PROVE AckInv'
  OBVIOUS
<1>1. CASE UNCHANGED vars
  BY <1>1, OthersKeepAcknowledged DEF vars, countVars
<1>2. CASE Next
  BY <1>2, BeginWriteKeepsAcknowledged, WritingKeepsAcknowledged, HandlersKeepAcknowledged,
     ChoresKeepAcknowledged, RestartKeepsAcknowledged
  DEF Next
<1> QED
  BY <1>1, <1>2

(* What a client was told is written is not lost from a target's store and *)
(* not replaced by an older version, however late requests, repairs and    *)
(* synchronisations arrive: if clients wait for each other.                *)
THEOREM AcknowledgedIsKept ==
  ASSUME OneByOne
  PROVE  Spec => []AcknowledgedStays
<1>1. Init => AckInv
  BY DEF Init, NoWrite, AckInv, OneAtATime, AllDelivered, Delivered, AllBring, AllFollow,
         Follows, Ended
<1>2. AckInv => AcknowledgedStays
  BY DEF AckInv, AllDelivered, Delivered, HasNewer, Newer, AtLeast, AcknowledgedStays
<1> QED
  BY <1>1, <1>2, InitEstablishes, StepsKeep, InitListsNobody, StepsKeepLists,
     StepsKeepAcknowledged, PTL DEF Spec

-----------------------------------------------------------------------------
(* Versions.  One node writes, keeps its memory and is the first of the    *)
(* targets: its store then knows of every write that has ended, the failed *)
(* ones too, and counts on from the newest.                                *)
WritesAlone(h) ==
  /\ OneByOne /\ Coordinators \subseteq {h} /\ h \in Node \ Fallible
  /\ Targets # << >> /\ Head(Targets) = h /\ ReplicationFactor > 0

Born(c) == writes[c].stage # "unborn"

(* An entry is what some write has written. *)
Known(e) == /\ e[2].Content \in Content /\ Born(e[2].Content)
            /\ writes[e[2].Content].name = e[1] /\ writes[e[2].Content].file = e[2]

KnownPost(p) == (\A e \in p.todo : Known(e)) /\ (p.half # None => Known(p.half))

StoresKnown == \A i \in Node, f \in Name :
                 fileStore[i][f] # None => Known(<<f, fileStore[i][f]>>)
PostsKnown  == \A p \in posts : KnownPost(p)
ChoresKnown == \A k \in Chore : \A e \in chores[k].files : Known(e)
WritesKnown == \A c \in Content : Born(c) => Known(<<writes[c].name, writes[c].file>>)

EntriesKnown == StoresKnown /\ PostsKnown /\ ChoresKnown /\ WritesKnown

(* Either h has the version of c, or c has yet to bring it there. *)
HasOrGets(h, c) ==
  \/ HasNewer(h, c)
  \/ /\ writes[c].stage \in {"sending", "waiting"}
     /\ writes[c].todo # << >> /\ Head(writes[c].todo) = h
     /\ writes[c].stage = "waiting" => \E p \in posts : p.by = c /\ p.to = h

(* Who is written has the highest version of its name. *)
Above(d, c) == ~Ended(d) /\ Born(c) /\ c # d /\ writes[c].name = writes[d].name
                 => writes[d].file.Version > writes[c].file.Version

Differ(c, d) ==
  Born(c) /\ Born(d) /\ writes[c].name = writes[d].name
    /\ writes[c].file.Version = writes[d].file.Version => c = d

HomeInv(h) == /\ h \notin restarted
              /\ \A c \in Content : Born(c) => writes[c].at = h /\ HasOrGets(h, c)
CountInv   == \A c, d \in Content : Above(c, d) /\ Differ(c, d)

(* What has been written does not change. *)
WritesLast == \A c \in Content :
  Born(c) => /\ Born(c)' /\ writes'[c].name = writes[c].name
             /\ writes'[c].file = writes[c].file

LEMMA KnownStays ==
  ASSUME WritesLast, NEW e, Known(e)
  PROVE  Known(e)'
BY DEF WritesLast, Known

LEMMA WritesUntouchedLast ==
  ASSUME \A c \in Content : Idles(c), IInv
  PROVE  WritesLast
<1> SUFFICES ASSUME NEW c \in Content, Born(c)
             PROVE  /\ Born(c)' /\ writes'[c].name = writes[c].name
                    /\ writes'[c].file = writes[c].file
  BY DEF WritesLast
<1>1. writes[c] \in WriteType
  BY WritesTyped
<1>2. CASE writes'[c] = writes[c]
  BY <1>2 DEF Born
<1>3. CASE writes'[c] = [writes[c] EXCEPT !.stage = "failed"]
  BY <1>1, <1>3 DEF Born, WriteType
<1> QED
  BY <1>2, <1>3 DEF Idles

LEMMA WritingLasts ==
  ASSUME IInv, NEW c \in Content, Writing(c)
  PROVE  WritesLast /\ ~Ended(c) /\ \A d \in Content : Born(d)' => Born(d)
<1>1. writes[c] \in WriteType /\ writes \in [Content -> WriteType] /\ ~Ended(c)
  BY WritesTyped DEF IInv, JobsInv, Writing, SendWrite, WriteReceived, WriteFails,
                     SaveWrite, ReadLatest, Acknowledge, Ended
<1>2. \A d \in Content : d # c => writes'[d] = writes[d]
  BY <1>1
  DEF Writing, SendWrite, WriteReceived, WriteFails, SaveWrite, ReadLatest, Acknowledge
<1>3. /\ writes'[c].name = writes[c].name /\ writes'[c].file = writes[c].file
      /\ writes'[c].stage # "unborn"
  <2>1. CASE SendWrite(c)
    BY <1>1, <2>1 DEF SendWrite, WriteType
  <2>2. CASE WriteReceived(c)
    <3>1. writes'[c] = [writes[c] EXCEPT !.stage = "sending", !.todo = Tail(@)]
      BY <1>1, <2>2 DEF WriteReceived
    <3> QED
      BY <1>1, <3>1 DEF WriteType
  <2>3. CASE WriteFails(c)
    BY <1>1, <2>3 DEF WriteFails, WriteType
  <2>4. CASE SaveWrite(c)
    BY <1>1, <2>4 DEF SaveWrite, WriteType
  <2>5. CASE ReadLatest(c)
    <3>1. writes'[c] = [writes[c] EXCEPT !.stage = "read",
                          !.latest = fileStore[writes[c].at][writes[c].name]]
      BY <1>1, <2>5 DEF ReadLatest
    <3> QED
      BY <1>1, <3>1 DEF WriteType
  <2>6. CASE Acknowledge(c)
    BY <1>1, <2>6 DEF Acknowledge, WriteType
  <2> QED
    BY <2>1, <2>2, <2>3, <2>4, <2>5, <2>6 DEF Writing
<1> QED
  BY <1>1, <1>2, <1>3 DEF WritesLast, Born, Ended

-----------------------------------------------------------------------------
(* Where entries come from *)

LEMMA GivingUpKnown ==
  ASSUME IInv, PostsKnown, WritesLast, NEW by, NEW at, NEW sent, GiveUp(by, at, sent)
  PROVE  PostsKnown'
<1>1. \A q \in posts : LET p == [q EXCEPT !.by = None]
                       IN  p.todo = q.todo /\ p.half = q.half
  BY DEF IInv, JobsInv, PostType
<1>2. \A p \in posts' : \E q \in posts : p.todo = q.todo /\ p.half = q.half
  BY <1>1 DEF GiveUp
<1> QED
  BY <1>2, KnownStays DEF PostsKnown, KnownPost

LEMMA FewerPostsKnown ==
  ASSUME PostsKnown, WritesLast, posts' \subseteq posts
  PROVE  PostsKnown'
BY KnownStays DEF PostsKnown, KnownPost

LEMMA StoresStillKnown ==
  ASSUME StoresKnown, WritesLast, UNCHANGED fileStore
  PROVE  StoresKnown'
BY KnownStays DEF StoresKnown

LEMMA ChoresStillKnown ==
  ASSUME ChoresKnown, WritesLast, UNCHANGED chores
  PROVE  ChoresKnown'
BY KnownStays DEF ChoresKnown

LEMMA OneChoreKnown ==
  ASSUME IInv, ChoresKnown, WritesLast, NEW k \in Chore, NEW j, Set(k, j),
         \A e \in j.files : Known(e)
  PROVE  ChoresKnown'
<1>1. chores \in [Chore -> ChoreType] /\ chores' = [chores EXCEPT ![k] = j]
  BY DEF IInv, JobsInv, Set
<1>2. ASSUME NEW q \in Chore, NEW e \in chores'[q].files PROVE Known(e)
  BY <1>1, <1>2 DEF ChoresKnown
<1> QED
  BY <1>2, KnownStays DEF ChoresKnown

(* The entry with which a write begins *)
LEMMA BeginWriteKnown ==
  ASSUME IInv, EntriesKnown, NEW i \in Node, NEW f \in Name, NEW c \in Content,
         BeginWrite(i, f, c)
  PROVE  EntriesKnown' /\ WritesLast
<1>1. /\ writes \in [Content -> WriteType] /\ ~Born(c)
      /\ \A d \in Content : d # c => writes'[d] = writes[d]
  BY DEF IInv, JobsInv, BeginWrite, NoWrite, Born
<1>2. WritesLast
  BY <1>1 DEF WritesLast, Born
<1>3. WritesKnown'
  <2>1. writes'[c].stage = "sending" /\ writes'[c].name = f /\ writes'[c].file.Content = c
    BY <1>1 DEF BeginWrite
  <2>2. Known(<<writes[c].name, writes[c].file>>)'
    BY <2>1 DEF Known, Born
  <2>3. ASSUME NEW d \in Content, d # c, Born(d)'
        PROVE  Known(<<writes[d].name, writes[d].file>>)'
    BY <1>1, <2>3 DEF WritesKnown, EntriesKnown, Known, Born
  <2> QED
    BY <2>2, <2>3 DEF WritesKnown
<1>4. StoresKnown' /\ PostsKnown' /\ ChoresKnown'
  BY <1>2, StoresStillKnown, FewerPostsKnown, ChoresStillKnown DEF BeginWrite, EntriesKnown
<1> QED
  BY <1>2, <1>3, <1>4 DEF EntriesKnown

LEMMA WritesStillKnown ==
  ASSUME WritesKnown, WritesLast, \A d \in Content : Born(d)' => Born(d)
  PROVE  WritesKnown'
BY DEF WritesKnown, WritesLast, Known

LEMMA WritingKnown ==
  ASSUME IInv, EntriesKnown, NEW c \in Content, Writing(c)
  PROVE  EntriesKnown'
<1> DEFINE w == writes[c]
<1>0. /\ WritesLast /\ WritesKnown' /\ WriteOK(w) /\ w \in WriteType
      /\ Known(<<w.name, w.file>>)
  BY WritingLasts, WritesTyped, WritesStillKnown DEF EntriesKnown, WritesKnown, Ended, Born
<1>1. ChoresKnown'
  BY <1>0, ChoresStillKnown
  DEF EntriesKnown, Writing, SendWrite, WriteReceived, WriteFails, SaveWrite, ReadLatest,
      Acknowledge
<1>2. StoresKnown'
  <2>1. CASE SaveWrite(c)
    <3>1. w.at \in Node /\ w.name \in Name
          /\ fileStore' = [fileStore EXCEPT ![w.at][w.name] = w.file]
      BY <1>0, <2>1 DEF SaveWrite, SaveFile, WriteOK
    <3>2. ASSUME NEW i \in Node, NEW f \in Name, fileStore'[i][f] # None
          PROVE  Known(<<f, fileStore'[i][f]>>)
      <4>1. CASE i = w.at /\ f = w.name
        BY <1>0, <3>1, <4>1 DEF IInv, StoreInv, StoresTyped
      <4>2. CASE i # w.at \/ f # w.name
        BY <3>1, <3>2, <4>2 DEF IInv, StoreInv, StoresTyped, EntriesKnown, StoresKnown
      <4> QED
        BY <4>1, <4>2
    <3>3. ASSUME NEW i \in Node, NEW f \in Name, fileStore'[i][f] # None
          PROVE  Known(<<f, fileStore[i][f]>>)'
      <4>1. Known(<<f, fileStore'[i][f]>>)
        BY <3>2, <3>3
      <4> QED
        BY <1>0, <4>1 DEF WritesLast, Known
    <3> QED
      BY <3>3 DEF StoresKnown
  <2>2. CASE ~SaveWrite(c)
    BY <1>0, <2>2, StoresStillKnown
    DEF EntriesKnown, Writing, SendWrite, WriteReceived, WriteFails, ReadLatest, Acknowledge
  <2> QED
    BY <2>1, <2>2
<1>3. PostsKnown'
  <2>1. CASE SendWrite(c)
    <3>1. PICK q : /\ q = Post(c, Head(w.todo), {<<w.name, w.file>>})
                   /\ posts' = posts \cup {q}
      BY <2>1 DEF SendWrite
    <3>2. KnownPost(q)'
      BY <1>0, <3>1, KnownStays DEF Post, KnownPost
    <3>3. \A p \in posts : KnownPost(p)'
      BY <1>0, KnownStays DEF EntriesKnown, PostsKnown, KnownPost
    <3> QED
      BY <3>1, <3>2, <3>3 DEF PostsKnown
  <2>2. CASE WriteFails(c)
    BY <1>0, <2>2, GivingUpKnown DEF WriteFails, EntriesKnown
  <2>3. CASE ~SendWrite(c) /\ ~WriteFails(c)
    <3>1. posts' \subseteq posts
      BY <2>3 DEF Writing, WriteReceived, SaveWrite, ReadLatest, Acknowledge
    <3> QED
      BY <1>0, <3>1, FewerPostsKnown DEF EntriesKnown
  <2> QED
    BY <2>1, <2>2, <2>3
<1> QED
  BY <1>0, <1>1, <1>2, <1>3 DEF EntriesKnown

LEMMA HandlersKnown ==
  ASSUME IInv, EntriesKnown, NEW p \in posts,
         SaveReplica(p) \/ \E e \in p.todo : StoreLocally(p, e)
  PROVE  EntriesKnown'
<1>0. p \in PostType /\ UNCHANGED <<writes, chores>>
  BY DEF IInv, JobsInv, SaveReplica, StoreLocally
<1>1. WritesLast /\ WritesKnown' /\ ChoresKnown'
  <2>1. WritesLast /\ \A d \in Content : Born(d)' => Born(d)
    BY <1>0 DEF WritesLast, Born
  <2> QED
    BY <1>0, <2>1, WritesStillKnown, ChoresStillKnown DEF EntriesKnown
<1>2. CASE SaveReplica(p)
  <2> DEFINE i == p.to
             e == p.half
  <2>1. i \in Node /\ e \in Entry /\ e[1] \in Name /\ Known(e) /\ e = <<e[1], e[2]>>
    BY <1>0, <1>2 DEF SaveReplica, PostType, EntriesKnown, PostsKnown, KnownPost, Entry
  <2>2. StoresKnown'
    <3>1. fileStore' = IF Accepts(e[2], fileStore[i][e[1]])
                         THEN [fileStore EXCEPT ![i][e[1]] = e[2]] ELSE fileStore
      BY <1>2 DEF SaveReplica, SaveReplicaOnNode
    <3>2. ASSUME NEW n \in Node, NEW f \in Name, fileStore'[n][f] # None
          PROVE  Known(<<f, fileStore'[n][f]>>)
      <4>1. \/ fileStore'[n][f] = fileStore[n][f]
            \/ f = e[1] /\ fileStore'[n][f] = e[2]
        BY <2>1, <3>1 DEF IInv, StoreInv, StoresTyped
      <4>2. CASE fileStore'[n][f] = fileStore[n][f]
        BY <3>2, <4>2 DEF EntriesKnown, StoresKnown
      <4>3. CASE f = e[1] /\ fileStore'[n][f] = e[2]
        BY <2>1, <4>3
      <4> QED
        BY <4>1, <4>2, <4>3
    <3>3. ASSUME NEW n \in Node, NEW f \in Name, fileStore'[n][f] # None
          PROVE  Known(<<f, fileStore[n][f]>>)'
      <4>1. Known(<<f, fileStore'[n][f]>>)
        BY <3>2, <3>3
      <4> QED
        BY <1>1, <4>1 DEF WritesLast, Known
    <3> QED
      BY <3>3 DEF StoresKnown
  <2>3. PostsKnown'
    <3>1. /\ [p EXCEPT !.half = None].half = None /\ [p EXCEPT !.half = None].todo = p.todo
          /\ posts' \subseteq posts \cup {[p EXCEPT !.half = None]}
      BY <1>0, <1>2 DEF PostType, SaveReplica
    <3> QED
      BY <1>1, <3>1, KnownStays DEF EntriesKnown, PostsKnown, KnownPost
  <2> QED
    BY <1>1, <2>2, <2>3 DEF EntriesKnown
<1>3. ASSUME NEW e \in p.todo, StoreLocally(p, e) PROVE EntriesKnown'
  <2>1. PICK q : /\ q.half = e /\ q.todo \subseteq p.todo
                 /\ posts' \subseteq posts \cup {q}
    <3> DEFINE q == [p EXCEPT !.todo = @ \ {e}, !.half = e]
    <3>1. q.half = e /\ q.todo \subseteq p.todo /\ posts' \subseteq posts \cup {q}
      BY <1>0, <1>3 DEF PostType, StoreLocally
    <3> QED
      BY <3>1
  <2>2. Known(e) /\ \A d \in p.todo : Known(d)
    BY DEF EntriesKnown, PostsKnown, KnownPost
  <2>3. PostsKnown'
    BY <1>1, <2>1, <2>2, KnownStays DEF EntriesKnown, PostsKnown, KnownPost
  <2> QED
    BY <1>1, <1>3, <2>3, StoresStillKnown DEF EntriesKnown, StoreLocally
<1> QED
  BY <1>2, <1>3

LEMMA FilesKnown ==
  ASSUME IInv, StoresKnown, NEW i \in Node
  PROVE  \A e \in Files(i) : Known(e)
BY DEF Files, StoresKnown

LEMMA ChoresStepKnown ==
  ASSUME IInv, EntriesKnown,
         \/ \E i, n \in Node : BeginRepair(i, n) \/ BeginSync(i, n)
         \/ RemoveFailed \/ Restored \/ RestoreFails
         \/ \E k \in Chore : Upkeep(k)
  PROVE  EntriesKnown'
<1> USE DEF EntriesKnown
<1>0. /\ UNCHANGED <<writes, fileStore>> /\ chores \in [Chore -> ChoreType]
      /\ \A k \in Chore : ChoreOK(chores[k])
      /\ "repair" \in Chore /\ "sync" \in Chore
  BY DEF BeginRepair, BeginSync, RemoveFailed, Restored, RestoreFails, Upkeep, ChooseFile,
         ListReplicas, SendCopy, CopyReceived, CopyFails, RecordReplicas, FinishChore,
         RemoveNodeFromAllReplicaMaps, UpdateReplicaNodes, Chore, IInv, JobsInv
<1>1. WritesLast /\ WritesKnown' /\ StoresKnown'
  <2>1. WritesLast /\ \A d \in Content : Born(d)' => Born(d)
    BY <1>0 DEF WritesLast, Born
  <2> QED
    BY <1>0, <2>1, WritesStillKnown, StoresStillKnown
<1>2. \A e \in NoChore.files : Known(e)
  BY DEF NoChore
<1>3. ASSUME NEW k \in Chore, NEW n, NEW files, \A e \in files : Known(e),
             posts' = posts \cup {Post(k, n, files)}
      PROVE  PostsKnown'
  <2>1. PICK q : q = Post(k, n, files) /\ posts' = posts \cup {q}
    BY <1>3
  <2>2. KnownPost(q)'
    BY <1>1, <1>3, <2>1, KnownStays DEF Post, KnownPost
  <2>3. \A p \in posts : KnownPost(p)'
    BY <1>1, KnownStays DEF PostsKnown, KnownPost
  <2> QED
    BY <2>1, <2>2, <2>3 DEF PostsKnown
<1>4. CASE \E i, n \in Node : BeginRepair(i, n)
  <2>1. PICK i \in Node, n \in Node : BeginRepair(i, n)
    BY <1>4
  <2>2. PICK j : /\ Set("repair", j)
                 /\ j = [NoChore EXCEPT !.stage = "removing", !.at = i, !.node = n,
                                        !.names = nodeFileMap[i][n]]
    BY <2>1 DEF BeginRepair
  <2>3. j.files = NoChore.files
    BY <2>2 DEF NoChore
  <2> QED
    BY <1>0, <1>1, <1>2, <2>1, <2>2, <2>3, OneChoreKnown, FewerPostsKnown DEF BeginRepair
<1>5. CASE \E i, n \in Node : BeginSync(i, n)
  <2>1. PICK i \in Node, n \in Node : BeginSync(i, n)
    BY <1>5
  <2>2. PICK j : /\ Set("sync", j)
                 /\ j = [NoChore EXCEPT !.stage = "restoring", !.at = i, !.node = n,
                           !.files = Files(i), !.names = {e[1] : e \in Files(i)}]
    BY <2>1 DEF BeginSync
  <2>3. j.files = Files(i)
    BY <2>2 DEF NoChore
  <2>4. ChoresKnown' /\ PostsKnown'
    BY <1>0, <1>1, <1>3, <2>1, <2>2, <2>3, FilesKnown, OneChoreKnown DEF BeginSync
  <2> QED
    BY <1>1, <2>4
<1>6. CASE RemoveFailed
  <2>1. PICK j : Set("repair", j) /\ j = [chores["repair"] EXCEPT !.stage = "choosing"]
    BY <1>6 DEF RemoveFailed
  <2>2. j.files = chores["repair"].files
    BY <1>0, <2>1 DEF ChoreType
  <2> QED
    BY <1>0, <1>1, <1>6, <2>1, <2>2, OneChoreKnown, FewerPostsKnown
    DEF RemoveFailed, ChoresKnown
<1>7. CASE Restored
  <2>1. PICK j : Set("sync", j) /\ j = [chores["sync"] EXCEPT !.stage = "choosing"]
    BY <1>7 DEF Restored
  <2>2. j.files = chores["sync"].files /\ posts' \subseteq posts
    BY <1>0, <1>7, <2>1 DEF ChoreType, Restored
  <2> QED
    BY <1>0, <1>1, <2>1, <2>2, OneChoreKnown, FewerPostsKnown DEF ChoresKnown
<1>8. CASE RestoreFails
  BY <1>0, <1>1, <1>2, <1>8, OneChoreKnown, GivingUpKnown DEF RestoreFails
<1>9. ASSUME NEW k \in Chore, Upkeep(k) PROVE EntriesKnown'
  <2> DEFINE j == chores[k]
  <2>0. j \in ChoreType /\ ChoreOK(j) /\ \A e \in j.files : Known(e)
    BY <1>0 DEF ChoresKnown
  <2>1. CASE ChooseFile(k)
    <3>1. PICK f \in j.names :
            Set(k, [j EXCEPT !.stage = "listing", !.name = f, !.names = @ \ {f},
                             !.files = IF k = "repair"
                                         THEN {<<f, fileStore[j.at][f]>>} ELSE @])
      BY <2>1 DEF ChooseFile
    <3>2. PICK q : /\ Set(k, q) /\ q = [j EXCEPT !.stage = "listing", !.name = f,
                             !.names = @ \ {f},
                             !.files = IF k = "repair"
                                         THEN {<<f, fileStore[j.at][f]>>} ELSE @]
      BY <3>1
    <3>3. q.files = IF k = "repair" THEN {<<f, fileStore[j.at][f]>>} ELSE j.files
      BY <2>0, <3>2 DEF ChoreType
    <3>4. Known(<<f, fileStore[j.at][f]>>)
      <4>1. j.at \in Node /\ f \in Name /\ fileStore[j.at][f] # None
        BY <2>0, <2>1 DEF ChoreOK, ChoreType, ChooseFile
      <4> QED
        BY <4>1 DEF StoresKnown
    <3>5. \A e \in q.files : Known(e)
      BY <2>0, <3>3, <3>4
    <3> QED
      BY <1>1, <2>1, <3>2, <3>5, OneChoreKnown, FewerPostsKnown DEF ChooseFile
  <2>2. CASE SendCopy(k)
    <3>1. PICK n \in Wanted(j) : /\ posts' = posts \cup {Post(k, n, Copy(j))}
            /\ Set(k, [j EXCEPT !.stage = "waiting", !.to = n, !.todo = @ \ {n}])
      BY <2>2 DEF SendCopy
    <3>2. PICK q : Set(k, q) /\ q = [j EXCEPT !.stage = "waiting", !.to = n, !.todo = @ \ {n}]
      BY <3>1
    <3>3. q.files = j.files
      BY <2>0, <3>2 DEF ChoreType
    <3>4. \A e \in Copy(j) : Known(e)
      BY <2>0 DEF Copy
    <3> QED
      BY <1>1, <1>3, <2>0, <3>1, <3>2, <3>3, <3>4, OneChoreKnown
  <2>3. CASE CopyFails(k)
    <3>1. PICK q : Set(k, q) /\ q = [j EXCEPT !.stage = "copying"]
      BY <2>3 DEF CopyFails
    <3>2. q.files = j.files
      BY <2>0, <3>1 DEF ChoreType
    <3> QED
      BY <1>1, <2>0, <2>3, <3>1, <3>2, OneChoreKnown, GivingUpKnown DEF CopyFails
  <2>4. ASSUME NEW q, Set(k, q), q.files \subseteq j.files, posts' \subseteq posts
        PROVE  EntriesKnown'
    BY <1>1, <2>0, <2>4, OneChoreKnown, FewerPostsKnown
  <2>5. CASE ListReplicas(k)
    <3>1. PICK q : /\ Set(k, q)
                   /\ q = [j EXCEPT !.stage = "copying",
                              !.replicas = replicaMap[j.at][j.name],
                              !.todo = IF k = "repair" THEN Node \ {j.node} ELSE {j.node}]
      BY <2>5 DEF ListReplicas
    <3>2. q.files = j.files
      BY <2>0, <3>1 DEF ChoreType
    <3> QED
      BY <2>4, <2>5, <3>1, <3>2 DEF ListReplicas
  <2>6. CASE CopyReceived(k)
    <3>1. PICK q : Set(k, q) /\ q = [j EXCEPT !.stage = "copying", !.replicas = @ \cup {j.to}]
      BY <2>6 DEF CopyReceived
    <3>2. q.files = j.files
      BY <2>0, <3>1 DEF ChoreType
    <3> QED
      BY <2>4, <2>6, <3>1, <3>2 DEF CopyReceived
  <2>7. CASE RecordReplicas(k)
    <3>1. PICK q : /\ Set(k, q)
                   /\ q = [j EXCEPT !.stage = "choosing", !.name = None, !.todo = {},
                                    !.replicas = {}, !.to = None]
      BY <2>7 DEF RecordReplicas
    <3>2. q.files = j.files
      BY <2>0, <3>1 DEF ChoreType
    <3> QED
      BY <2>4, <2>7, <3>1, <3>2 DEF RecordReplicas
  <2>8. CASE FinishChore(k)
    BY <2>4, <2>8 DEF FinishChore, NoChore
  <2> QED
    BY <1>9, <2>1, <2>2, <2>3, <2>5, <2>6, <2>7, <2>8 DEF Upkeep
<1> QED
  BY <1>4, <1>5, <1>6, <1>7, <1>8, <1>9

LEMMA RestartKnown ==
  ASSUME IInv, EntriesKnown, NEW i \in Node, Restart(i)
  PROVE  EntriesKnown'
<1> USE DEF EntriesKnown
<1> DEFINE mine == {c \in Content : writes[c].at = i /\ ~Ended(c)} \cup
                   {k \in Chore : chores[k].at = i}
<1>0. posts \subseteq PostType /\ \A c \in Content : Idles(c)
  BY DEF IInv, JobsInv, Restart, Idles
<1>1. WritesLast
  BY <1>0, WritesUntouchedLast
<1>2. WritesKnown'
  <2>1. ASSUME NEW d \in Content, Born(d)' PROVE Born(d)
    <3>1. writes'[d] = IF d \in mine THEN [writes[d] EXCEPT !.stage = "failed"]
                                    ELSE writes[d]
      BY DEF Restart
    <3>2. CASE d \in mine
      <4>1. ~Ended(d)
        BY <3>2, CallersDiffer DEF Chore
      <4> QED
        BY <4>1 DEF Ended, Born
    <3>3. CASE d \notin mine
      BY <2>1, <3>1, <3>3 DEF Born
    <3> QED
      BY <3>2, <3>3
  <2> QED
    BY <1>1, <2>1, WritesStillKnown
<1>3. StoresKnown'
  <2>1. ASSUME NEW n \in Node, NEW f \in Name, fileStore'[n][f] # None
        PROVE  fileStore'[n][f] = fileStore[n][f]
    BY <2>1 DEF Restart, IInv, StoreInv, StoresTyped
  <2> QED
    BY <1>1, <2>1, KnownStays DEF StoresKnown
<1>4. PostsKnown'
  <2>1. \A q \in posts : LET p == [q EXCEPT !.by = None]
                         IN  p.todo = q.todo /\ p.half = q.half
    BY <1>0 DEF PostType
  <2>2. \A p \in posts' : \E q \in posts :
           p = IF q.by \in mine THEN [q EXCEPT !.by = None] ELSE q
    BY DEF Restart
  <2>3. \A p \in posts' : \E q \in posts : p.todo = q.todo /\ p.half = q.half
    BY <2>1, <2>2
  <2> QED
    BY <1>1, <2>3, KnownStays DEF PostsKnown, KnownPost
<1>5. ChoresKnown'
  <2>1. ASSUME NEW k \in Chore PROVE chores'[k] = chores[k] \/ chores'[k].files = {}
    BY DEF Restart, NoChore
  <2> QED
    BY <1>1, <2>1, KnownStays DEF ChoresKnown
<1> QED
  BY <1>2, <1>3, <1>4, <1>5

LEMMA EntriesStayKnown == IInv /\ EntriesKnown /\ [Next]_vars => EntriesKnown'
<1> SUFFICES ASSUME IInv, EntriesKnown, [Next]_vars PROVE EntriesKnown'
  OBVIOUS
<1>1. CASE UNCHANGED vars
  <2>1. WritesLast /\ \A d \in Content : Born(d)' => Born(d)
    BY <1>1 DEF vars, WritesLast, Born
  <2> QED
    BY <1>1, <2>1, WritesStillKnown, StoresStillKnown, ChoresStillKnown, FewerPostsKnown
    DEF vars, EntriesKnown
<1>2. CASE Next
  BY <1>2, BeginWriteKnown, WritingKnown, HandlersKnown, ChoresStepKnown, RestartKnown
  DEF Next
<1> QED
  BY <1>1, <1>2

-----------------------------------------------------------------------------
(* The store of the node that writes *)

LEMMA HasOrGetsStays ==
  ASSUME IInv, StoresGrow, NEW h \in Node, NEW c \in Content, Born(c), HasOrGets(h, c),
         writes'[c] = writes[c],
         \A p \in posts : p.by = c /\ p.to = h => \E q \in posts' : q.by = c /\ q.to = h
  PROVE  HasOrGets(h, c)'
<1>1. HasNewer(h, c) => HasNewer(h, c)'
  BY NewerStays DEF Born
<1> QED
  BY <1>1 DEF HasOrGets

(* No write goes on; the requests to h are still there. *)
LEMMA OthersKeepHome ==
  ASSUME IInv, NEW h \in Node, HomeInv(h), CountInv, StoresGrow, h \notin restarted',
         \A c \in Content : writes'[c] = writes[c],
         \A p \in posts : p.by \in Content /\ p.to = h =>
           \E q \in posts' : q.by = p.by /\ q.to = h
  PROVE  HomeInv(h)' /\ CountInv'
<1>1. HomeInv(h)'
  BY HasOrGetsStays DEF HomeInv, Born
<1>2. CountInv'
  BY DEF CountInv, Above, Differ, Born, Ended
<1> QED
  BY <1>1, <1>2

LEMMA BeginWriteKeepsHome ==
  ASSUME IInv, ListInv, NEW h \in Node, WritesAlone(h), HomeInv(h), CountInv,
         NEW i \in Node, NEW f \in Name, NEW c \in Content, BeginWrite(i, f, c)
  PROVE  HomeInv(h)' /\ CountInv'
<1> DEFINE todo == IF Len(Targets) > ReplicationFactor
                     THEN SubSeq(Targets, 1, ReplicationFactor) ELSE Targets
<1>0. /\ writes \in [Content -> WriteType] /\ ~Born(c) /\ i = h
      /\ \A d \in Content : Ended(d)
      /\ \A d \in Content : d # c => writes'[d] = writes[d]
  BY DEF IInv, JobsInv, BeginWrite, NoWrite, WritesAlone, Born
<1>1. /\ writes'[c].stage = "sending" /\ writes'[c].at = h /\ writes'[c].name = f
      /\ writes'[c].file.Version = NextVersion(h, f) /\ writes'[c].todo = todo
  BY <1>0 DEF BeginWrite
<1>2. StoresGrow /\ UNCHANGED <<restarted, posts, fileStore>>
  BY DEF BeginWrite, StoresGrow, Newer, AtLeast, countVars
<1>3. HasOrGets(h, c)'
  <2>1. todo # << >> /\ Head(todo) = h
    <3>1. CASE Len(Targets) > ReplicationFactor
      BY <3>1 DEF WritesAlone
    <3>2. CASE ~(Len(Targets) > ReplicationFactor)
      BY <3>2 DEF WritesAlone
    <3> QED
      BY <3>1, <3>2
  <2> QED
    BY <1>1, <2>1 DEF HasOrGets
<1>4. ASSUME NEW d \in Content, d # c, Born(d)
      PROVE  writes[d].at = h /\ HasOrGets(h, d)' /\ HasNewer(h, d)
  BY <1>0, <1>2, <1>4, HasOrGetsStays DEF HomeInv, HasOrGets, Ended
<1>5. HomeInv(h)'
  BY <1>0, <1>1, <1>2, <1>3, <1>4 DEF HomeInv, Born
<1>6. ASSUME NEW d \in Content, d # c, Born(d), writes[d].name = f
      PROVE  NextVersion(h, f) > writes[d].file.Version
  <2>1. fileStore[h][f] # None /\ fileStore[h][f].Version >= writes[d].file.Version
    BY <1>4, <1>6 DEF HasNewer, Newer, AtLeast, HomeInv
  <2>2. fileStore[h][f].Version \in Nat /\ writes[d].file.Version \in Nat
    BY <1>6, <2>1, WritesTyped DEF IInv, StoreInv, StoresTyped, File, Born
  <2> QED
    BY <2>1, <2>2 DEF NextVersion
<1>7. CountInv'
  <2> SUFFICES ASSUME NEW b \in Content, NEW d \in Content
               PROVE  Above(b, d)' /\ Differ(b, d)'
    BY DEF CountInv
  <2>1. CASE b # c /\ d # c
    BY <1>0, <2>1 DEF CountInv, Above, Differ, Born, Ended
  <2>2. CASE b = c /\ d # c
    <3>1. writes[d].name = f /\ Born(d) => NextVersion(h, f) > writes[d].file.Version
      BY <1>6, <2>2
    <3>2. Born(d) => writes[d].file.Version \in Nat
      BY WritesTyped DEF Born
    <3>3. NextVersion(h, f) \in Nat
      BY DEF NextVersion, IInv, StoreInv, StoresTyped, File
    <3> QED
      BY <1>0, <1>1, <2>2, <3>1, <3>2, <3>3 DEF Above, Differ, Born
  <2>3. CASE d = c /\ b # c
    <3>1. writes[b].name = f /\ Born(b) => NextVersion(h, f) > writes[b].file.Version
      BY <1>6, <2>3
    <3>2. Born(b) => writes[b].file.Version \in Nat
      BY WritesTyped DEF Born
    <3>3. NextVersion(h, f) \in Nat
      BY DEF NextVersion, IInv, StoreInv, StoresTyped, File
    <3>4. Ended(b)' /\ writes'[b] = writes[b]
      BY <1>0, <2>3 DEF Ended
    <3> QED
      BY <1>0, <1>1, <2>3, <3>1, <3>2, <3>3, <3>4 DEF Above, Differ, Born
  <2>4. CASE b = c /\ d = c
    BY <2>4 DEF Above, Differ
  <2> QED
    BY <2>1, <2>2, <2>3, <2>4
<1> QED
  BY <1>5, <1>7

LEMMA WritingKeepsHome ==
  ASSUME IInv, ListInv, AckInv, NEW h \in Node, HomeInv(h), CountInv,
         NEW c \in Content, Writing(c)
  PROVE  HomeInv(h)' /\ CountInv'
<1> DEFINE w == writes[c]
<1>0. /\ posts \subseteq PostType /\ WriteOK(w) /\ w \in WriteType
      /\ writes \in [Content -> WriteType]
      /\ restarted' = restarted /\ WritesLast /\ ~Ended(c) /\ Born(c)
      /\ \A d \in Content : Born(d)' => Born(d)
  BY WritingLasts
  DEF IInv, JobsInv, Writing, SendWrite, WriteReceived, WriteFails, SaveWrite, ReadLatest,
      Acknowledge, Ended, GiveUp, countVars, Born
<1>1. /\ \A d \in Content : d # c => writes'[d] = writes[d] /\ Ended(d)
      /\ HasOrGets(h, c) /\ w.at = h
  BY <1>0 DEF Writing, SendWrite, WriteReceived, WriteFails, SaveWrite, ReadLatest,
              Acknowledge, AckInv, OneAtATime, HomeInv
<1>2. CountInv'
  <2>1. \A d \in Content : ~Ended(d)' => ~Ended(d)
    BY <1>0, <1>1 DEF Ended
  <2>2. \A d \in Content : /\ ~Ended(d) => Born(d)
                           /\ Born(d)' => /\ Born(d) /\ writes'[d].name = writes[d].name
                                          /\ writes'[d].file = writes[d].file
    BY <1>0 DEF Ended, Born, WritesLast
  <2>3. ASSUME NEW b \in Content, NEW d \in Content PROVE Above(b, d)' /\ Differ(b, d)'
    <3>1. Above(b, d) /\ Differ(b, d)
      BY DEF CountInv
    <3>2. Above(b, d)'
      <4>1. Ended(b) => Ended(b)'
        BY <2>1
      <4>2. ~Ended(b) => Born(b)
        BY <2>2
      <4> QED
        BY <1>0, <2>2, <3>1, <4>1, <4>2 DEF Above, WritesLast
    <3>3. Differ(b, d)'
      BY <2>2, <3>1 DEF Differ
    <3> QED
      BY <3>2, <3>3
  <2> QED
    BY <2>3 DEF CountInv
<1>3. writes'[c].at = h
  <2>1. CASE SendWrite(c) \/ WriteFails(c) \/ SaveWrite(c) \/ Acknowledge(c)
    BY <1>0, <1>1, <2>1 DEF SendWrite, WriteFails, SaveWrite, Acknowledge, WriteType
  <2>2. CASE WriteReceived(c)
    <3>1. writes'[c] = [w EXCEPT !.stage = "sending", !.todo = Tail(@)]
      BY <1>0, <2>2 DEF WriteReceived
    <3> QED
      BY <1>0, <1>1, <3>1 DEF WriteType
  <2>3. CASE ReadLatest(c)
    <3>1. writes'[c] = [w EXCEPT !.stage = "read", !.latest = fileStore[w.at][w.name]]
      BY <1>0, <2>3 DEF ReadLatest
    <3> QED
      BY <1>0, <1>1, <3>1 DEF WriteType
  <2> QED
    BY <2>1, <2>2, <2>3 DEF Writing
<1>4. ASSUME HasOrGets(h, c)', \A d \in Content : d # c /\ Born(d) => HasNewer(h, d)'
      PROVE  HomeInv(h)'
  <2>1. \A d \in Content : Born(d)' => writes'[d].at = h
    BY <1>0, <1>1, <1>3 DEF HomeInv
  <2>2. \A d \in Content : Born(d)' => HasOrGets(h, d)'
    BY <1>0, <1>4 DEF HasOrGets
  <2> QED
    BY <1>0, <2>1, <2>2 DEF HomeInv
<1>5. \A d \in Content : d # c /\ Born(d) => HasNewer(h, d)
  BY <1>1 DEF HomeInv, HasOrGets, Ended
<1>6. CASE ~SaveWrite(c)
  <2>1. StoresGrow
    BY <1>6 DEF Writing, SendWrite, WriteReceived, WriteFails, ReadLatest, Acknowledge,
                StoresGrow, Newer, AtLeast, GiveUp
  <2>2. /\ \A d \in Content : d # c /\ Born(d) => HasNewer(h, d)'
        /\ HasNewer(h, c) => HasNewer(h, c)'
    BY <1>0, <1>1, <1>5, <2>1, NewerStays DEF WritesLast, Born
  <2>3. HasOrGets(h, c)'
    <3>1. CASE HasNewer(h, c)
      BY <2>2, <3>1 DEF HasOrGets
    <3>2. CASE ~HasNewer(h, c)
      <4>1. /\ w.stage \in {"sending", "waiting"} /\ w.todo # << >> /\ Head(w.todo) = h
            /\ w.stage = "waiting" => \E p \in posts : p.by = c /\ p.to = h
        BY <1>1, <3>2 DEF HasOrGets
      <4>2. CASE SendWrite(c)
        <5>1. PICK q : /\ q = Post(c, Head(w.todo), {<<w.name, w.file>>})
                       /\ posts' = posts \cup {q}
          BY <4>2 DEF SendWrite
        <5>2. q.by = c /\ q.to = h /\ q \in posts'
          BY <4>1, <5>1 DEF Post
        <5>3. writes'[c].stage = "waiting" /\ writes'[c].todo = w.todo
          BY <1>0, <4>2 DEF SendWrite, WriteType
        <5> QED
          BY <4>1, <5>2, <5>3 DEF HasOrGets
      <4>3. ~WriteReceived(c)
        <5> SUFFICES ASSUME WriteReceived(c) PROVE FALSE
          OBVIOUS
        <5>1. PICK p \in posts : Answers(p, c)
          BY DEF WriteReceived
        <5>2. Brings(p, c) /\ p.half = None /\ p.todo = {} /\ p.to = h
          BY <4>1, <5>1
          DEF AckInv, AllBring, Answers, ListInv, AllAwaited, Awaited, RequestOfWrite
        <5>3. <<w.name, w.file>> # None
          BY <1>0 DEF WriteOK, File, Born
        <5> QED
          BY <3>2, <5>2, <5>3 DEF Brings
      <4>4. ~WriteFails(c)
        <5> SUFFICES ASSUME WriteFails(c) PROVE FALSE
          OBVIOUS
        <5>1. PICK p \in posts : p.by = c /\ p.to = h
          BY <4>1 DEF WriteFails
        <5>2. PICK q \in posts : q.by = c /\ q.to # h
          BY <1>1, <5>1 DEF WriteFails, GiveUp
        <5>3. p = q
          BY <5>1, <5>2 DEF ListInv, OneRequest
        <5> QED
          BY <5>1, <5>2, <5>3
      <4> QED
        BY <1>6, <4>1, <4>2, <4>3, <4>4 DEF Writing, ReadLatest, Acknowledge
    <3> QED
      BY <3>1, <3>2
  <2> QED
    BY <1>2, <1>4, <2>2, <2>3
<1>7. CASE SaveWrite(c)
  <2>1. /\ w.name \in Name /\ w.file \in File /\ w.todo = << >> /\ w.stage = "sending"
        /\ fileStore' = [fileStore EXCEPT ![h][w.name] = w.file]
    BY <1>0, <1>1, <1>7 DEF SaveWrite, SaveFile, WriteOK
  <2>2. /\ fileStore'[h][w.name] = w.file /\ w.file # None /\ w.file.Version \in Nat
        /\ \A f \in Name : f # w.name => fileStore'[h][f] = fileStore[h][f]
    BY <2>1, FilesAreSomething DEF IInv, StoreInv, StoresTyped, File
  <2>3. HasNewer(h, c)'
    BY <1>0, <2>2 DEF HasNewer, Newer, AtLeast, WritesLast
  <2>4. ASSUME NEW d \in Content, d # c, Born(d) PROVE HasNewer(h, d)'
    <3>1. /\ writes'[d] = writes[d] /\ HasNewer(h, d) /\ writes[d].name \in Name
          /\ writes[d].file.Version \in Nat
      BY <1>1, <1>5, <2>4, WritesTyped DEF Born
    <3>2. CASE writes[d].name # w.name
      BY <1>0, <2>2, <3>1, <3>2 DEF HasNewer, Newer, AtLeast
    <3>3. CASE writes[d].name = w.name
      <4>1. w.file.Version > writes[d].file.Version
        BY <1>0, <2>4, <3>3 DEF CountInv, Above
      <4> QED
        BY <2>2, <3>1, <3>3, <4>1 DEF HasNewer, Newer, AtLeast
    <3> QED
      BY <3>2, <3>3
  <2> QED
    BY <1>2, <1>4, <2>3, <2>4 DEF HasOrGets
<1> QED
  BY <1>6, <1>7

LEMMA StepsKeepHome ==
  ASSUME NEW h \in Node, WritesAlone(h)
  PROVE  IInv /\ ListInv /\ AckInv /\ HomeInv(h) /\ CountInv /\ [Next]_vars
           => HomeInv(h)' /\ CountInv'
<1> SUFFICES ASSUME IInv, ListInv, AckInv, HomeInv(h), CountInv, [Next]_vars
             PROVE  HomeInv(h)' /\ CountInv'
  OBVIOUS
<1>0. posts \subseteq PostType /\ h \notin restarted
  BY DEF IInv, JobsInv, HomeInv
<1>1. CASE UNCHANGED vars
  <2>1. StoresGrow
    BY <1>1 DEF vars, StoresGrow, Newer, AtLeast, countVars
  <2> QED
    BY <1>0, <1>1, <2>1, OthersKeepHome DEF vars, countVars
<1>2. ASSUME NEW p \in posts, SaveReplica(p) \/ \E e \in p.todo : StoreLocally(p, e)
      PROVE  HomeInv(h)' /\ CountInv'
  <2>1. StoresGrow
    <3>1. CASE SaveReplica(p)
      BY <1>0, <3>1, StoringGrows
    <3>2. CASE \E e \in p.todo : StoreLocally(p, e)
      BY <3>2 DEF StoreLocally, StoresGrow, Newer, AtLeast, countVars
    <3> QED
      BY <1>2, <3>1, <3>2
  <2>2. PICK q : q.by = p.by /\ q.to = p.to /\ posts \ {p} \subseteq posts'
                 /\ (p.by # None => q \in posts')
    <3>1. CASE SaveReplica(p)
      <4> DEFINE q == [p EXCEPT !.half = None]
      <4>1. q.by = p.by /\ q.to = p.to
        BY <1>0 DEF PostType
      <4>2. posts \ {p} \subseteq posts' /\ (p.by # None => q \in posts')
        BY <3>1 DEF SaveReplica
      <4> QED
        BY <4>1, <4>2
    <3>2. ASSUME NEW e \in p.todo, StoreLocally(p, e)
          PROVE  \E q : q.by = p.by /\ q.to = p.to /\ posts \ {p} \subseteq posts'
                       /\ (p.by # None => q \in posts')
      <4> DEFINE q == [p EXCEPT !.todo = @ \ {e}, !.half = e]
      <4>1. q.by = p.by /\ q.to = p.to
        BY <1>0 DEF PostType
      <4>2. posts \ {p} \subseteq posts' /\ (p.by # None => q \in posts')
        BY <3>2 DEF StoreLocally
      <4> QED
        BY <4>1, <4>2
    <3> QED
      BY <1>2, <3>1, <3>2
  <2>3. UNCHANGED <<writes, restarted>>
    BY <1>2 DEF SaveReplica, StoreLocally, countVars
  <2> QED
    BY <1>0, <2>1, <2>2, <2>3, OthersKeepHome
<1>3. ASSUME \/ \E i, n \in Node : BeginRepair(i, n) \/ BeginSync(i, n)
             \/ RemoveFailed \/ Restored \/ RestoreFails
             \/ \E k \in Chore : Upkeep(k)
      PROVE  HomeInv(h)' /\ CountInv'
  <2>1. UNCHANGED <<writes, fileStore, restarted>>
    BY <1>3
    DEF BeginRepair, BeginSync, RemoveFailed, Restored, RestoreFails, Upkeep, ChooseFile,
        ListReplicas, SendCopy, CopyReceived, CopyFails, RecordReplicas, FinishChore,
        RemoveNodeFromAllReplicaMaps, UpdateReplicaNodes
  <2>2. StoresGrow
    BY <2>1 DEF StoresGrow, Newer, AtLeast
  <2>3. ASSUME NEW k \in Chore, NEW at, NEW sent, GiveUp(k, at, sent)
        PROVE  \A p \in posts : p.by \in Content => p \in posts'
    BY <2>3, CallersDiffer DEF GiveUp, Chore
  <2>4. \A k \in Chore : \A p \in posts : Answers(p, k) => p.by \notin Content
    BY CallersDiffer DEF Answers, Chore
  <2>5. \A p \in posts : p.by \in Content => p \in posts'
    <3>1. CASE posts \subseteq posts'
      BY <3>1
    <3>2. CASE Restored \/ \E k \in Chore : CopyReceived(k)
      BY <2>4, <3>2 DEF Restored, CopyReceived, Chore
    <3>3. CASE RestoreFails \/ \E k \in Chore : CopyFails(k)
      BY <2>3, <3>3 DEF RestoreFails, CopyFails, Chore
    <3>4. CASE \E i, n \in Node : BeginRepair(i, n) \/ BeginSync(i, n)
      BY <3>4 DEF BeginRepair, BeginSync
    <3>5. CASE RemoveFailed
      BY <3>5 DEF RemoveFailed
    <3>6. ASSUME NEW k \in Chore,
                 \/ ChooseFile(k) \/ ListReplicas(k) \/ SendCopy(k)
                 \/ RecordReplicas(k) \/ FinishChore(k)
          PROVE  posts \subseteq posts'
      BY <3>6 DEF ChooseFile, ListReplicas, SendCopy, RecordReplicas, FinishChore
    <3> QED
      BY <1>3, <3>1, <3>2, <3>3, <3>4, <3>5, <3>6 DEF Upkeep
  <2> QED
    BY <1>0, <2>1, <2>2, <2>5, OthersKeepHome
<1>4. ASSUME NEW i \in Node, Restart(i) PROVE HomeInv(h)' /\ CountInv'
  <2> DEFINE mine == {c \in Content : writes[c].at = i /\ ~Ended(c)} \cup
                     {k \in Chore : chores[k].at = i}
  <2>1. i # h /\ restarted' = restarted \cup {i}
    BY <1>4 DEF Restart, WritesAlone
  <2>2. \A c \in Content : c \notin mine
    BY <2>1, CallersDiffer DEF HomeInv, Born, Ended, Chore
  <2>3. \A c \in Content : writes'[c] = writes[c]
    BY <1>4, <2>2 DEF Restart
  <2>4. StoresGrow
    BY <1>4, <2>1 DEF Restart, StoresGrow, Newer, AtLeast, IInv, StoreInv, StoresTyped
  <2>5. \A p \in posts : p.by \in Content /\ p.to = h => p \in posts'
    <3>1. posts' = {IF p.by \in mine THEN [p EXCEPT !.by = None] ELSE p :
                      p \in {q \in posts : q.to # i /\ ~(q.by \in mine /\ Answers(q, q.by))}}
      BY <1>4 DEF Restart
    <3> QED
      BY <2>1, <2>2, <3>1
  <2> QED
    BY <1>0, <2>1, <2>3, <2>4, <2>5, OthersKeepHome
<1>5. CASE Next
  BY <1>2, <1>3, <1>4, <1>5, BeginWriteKeepsHome, WritingKeepsHome DEF Next
<1> QED
  BY <1>1, <1>5

LEMMA InitIsAgreed ==
  ASSUME NEW h \in Node
  PROVE  Init => AckInv /\ EntriesKnown /\ HomeInv(h) /\ CountInv
BY DEF Init, NoWrite, NoChore, AckInv, OneAtATime, AllDelivered, Delivered, AllBring,
       AllFollow, Follows, Ended, EntriesKnown, StoresKnown, PostsKnown, ChoresKnown,
       WritesKnown, HomeInv, CountInv, Above, Differ, Born

(* The stores never disagree: two nodes that hold the same version of a    *)
(* file hold the same content - if all writes go, one after the other, to  *)
(* one node that is the first target and keeps its memory.                 *)
THEOREM StoresAgree ==
  ASSUME NEW h \in Node, WritesAlone(h)
  PROVE  Spec => []VersionsIdentifyContent
<1>1. Init => AckInv /\ EntriesKnown /\ HomeInv(h) /\ CountInv
  BY InitIsAgreed
<1>2. EntriesKnown /\ CountInv => VersionsIdentifyContent
  BY DEF EntriesKnown, StoresKnown, Known, CountInv, Differ, VersionsIdentifyContent
<1>3. OneByOne
  BY DEF WritesAlone
<1>4. IInv /\ ListInv /\ AckInv /\ EntriesKnown /\ HomeInv(h) /\ CountInv /\ [Next]_vars
        => AckInv' /\ EntriesKnown' /\ HomeInv(h)' /\ CountInv'
  BY <1>3, StepsKeepAcknowledged, EntriesStayKnown, StepsKeepHome
<1> QED
  BY <1>1, <1>2, <1>4, InitEstablishes, StepsKeep, InitListsNobody, StepsKeepLists,
     PTL DEF Spec

-----------------------------------------------------------------------------
(* Reads.  What localStorage holds is in the store too, or about to be:    *)
(* its handler is between its two steps.  Stores go back at h only, to a   *)
(* version above all that have been written.                               *)
LocalFrom(i, f) ==
  LET file == localStorage[i][f] IN
  file # None =>
    /\ Known(<<f, file>>)
    /\ \/ AtLeast(i, f, file.Version)
       \/ \E p \in posts : p.to = i /\ p.half = <<f, file>>

LatestFrom(c) ==
  LET w == writes[c] IN
  w.stage = "read" => /\ w.latest # None /\ Known(<<w.name, w.latest>>)
                      /\ AtLeast(w.at, w.name, w.latest.Version)

LocalInv == /\ \A i \in Node, f \in Name : LocalFrom(i, f)
            /\ \A c \in Content : LatestFrom(c)

HalvesStay == \A p \in posts :
  p.half # None => \E q \in posts' : q.to = p.to /\ q.half = p.half

LEMMA LocalTyped ==
  ASSUME IInv, NEW i \in Node, NEW f \in Name, localStorage[i][f] # None
  PROVE  /\ localStorage[i][f] \in File /\ localStorage[i][f].Version \in Nat
         /\ <<f, localStorage[i][f]>> # None
BY DEF IInv, JobsInv, File

LEMMA LocalsStay ==
  ASSUME IInv, NEW i \in Node, NEW f \in Name, LocalFrom(i, f), WritesLast, StoresRise,
         localStorage'[i][f] = localStorage[i][f], HalvesStay
  PROVE  LocalFrom(i, f)'
<1> SUFFICES ASSUME localStorage[i][f] # None PROVE LocalFrom(i, f)'
  BY DEF LocalFrom
<1> DEFINE e == <<f, localStorage[i][f]>>
<1>1. localStorage[i][f].Version \in Nat /\ e # None
  BY LocalTyped
<1>2. Known(e) /\ Known(e)'
  BY KnownStays DEF LocalFrom
<1>3. Known(<<f, localStorage[i][f]>>)'
  BY <1>2 DEF Known
<1>4. AtLeast(i, f, localStorage[i][f].Version) => AtLeast(i, f, localStorage[i][f].Version)'
  BY <1>1 DEF StoresRise, AtLeast
<1>5. ASSUME NEW p \in posts, p.to = i, p.half = e
      PROVE  \E q \in posts' : q.to = i /\ q.half = e
  BY <1>1, <1>5 DEF HalvesStay
<1> QED
  BY <1>3, <1>4, <1>5 DEF LocalFrom

LEMMA LatestStays ==
  ASSUME IInv, NEW c \in Content, LatestFrom(c), WritesLast, StoresRise,
         writes'[c] = writes[c] \/ writes'[c].stage # "read"
  PROVE  LatestFrom(c)'
<1> SUFFICES ASSUME writes[c].stage = "read", writes'[c] = writes[c] PROVE LatestFrom(c)'
  BY DEF LatestFrom
<1> DEFINE w == writes[c]
           e == <<w.name, w.latest>>
<1>1. w.at \in Node /\ w.name \in Name /\ w.latest # None /\ w.latest.Version \in Nat
  BY WritesTyped DEF LatestFrom, WriteType, File
<1>2. Known(e)'
  BY KnownStays DEF LatestFrom
<1>3. Known(<<w.name, w.latest>>)'
  BY <1>2 DEF Known
<1>4. AtLeast(w.at, w.name, w.latest.Version)'
  BY <1>1 DEF LatestFrom, StoresRise, AtLeast
<1> QED
  BY <1>1, <1>3, <1>4 DEF LatestFrom

(* Neither localStorage nor a write that has read changes. *)
LEMMA OthersKeepLocal ==
  ASSUME IInv, LocalInv, WritesLast, StoresRise, HalvesStay, UNCHANGED localStorage,
         \A c \in Content : writes'[c] = writes[c] \/ writes'[c].stage # "read"
  PROVE  LocalInv'
BY LocalsStay, LatestStays DEF LocalInv

LEMMA GivingUpKeepsHalves ==
  ASSUME IInv, NEW by, NEW at, NEW sent, GiveUp(by, at, sent)
  PROVE  HalvesStay
<1>1. \A q \in posts : LET p == [q EXCEPT !.by = None] IN p.to = q.to /\ p.half = q.half
  BY DEF IInv, JobsInv, PostType
<1>2. \A p \in posts : p.half # None => p \in posts' \/ [p EXCEPT !.by = None] \in posts'
  BY DEF GiveUp
<1> QED
  BY <1>1, <1>2 DEF HalvesStay

LEMMA AnsweredKeepsHalves ==
  ASSUME NEW by, NEW p, Answers(p, by), posts' = posts \ {p}
  PROVE  HalvesStay
BY DEF Answers, HalvesStay

LEMMA MorePostsKeepHalves ==
  ASSUME posts \subseteq posts'
  PROVE  HalvesStay
BY DEF HalvesStay

LEMMA WritingKeepsLocal ==
  ASSUME IInv, ListInv, AckInv, EntriesKnown, NEW h \in Node, HomeInv(h), CountInv,
         LocalInv, NEW c \in Content, Writing(c)
  PROVE  LocalInv'
<1> DEFINE w == writes[c]
<1>0. /\ WriteOK(w) /\ w \in WriteType /\ writes \in [Content -> WriteType]
      /\ localStorage \in [Node -> [Name -> File \cup {None}]]
      /\ WritesLast /\ ~Ended(c) /\ Born(c) /\ w.at = h /\ h \in Node /\ w.name \in Name
  BY WritingLasts, WritesTyped DEF Ended, Born, HomeInv, IInv, JobsInv
<1>1. \A d \in Content : d # c => writes'[d] = writes[d] /\ Ended(d)
  BY <1>0 DEF Writing, SendWrite, WriteReceived, WriteFails, SaveWrite, ReadLatest,
              Acknowledge, AckInv, OneAtATime
<1>2. ~SaveWrite(c) => StoresRise
  BY DEF Writing, SendWrite, WriteReceived, WriteFails, ReadLatest, Acknowledge,
         StoresRise, AtLeast
<1>3. CASE SendWrite(c) \/ WriteReceived(c) \/ WriteFails(c)
  <2>1. UNCHANGED localStorage /\ ~SaveWrite(c)
    BY <1>3 DEF SendWrite, WriteReceived, WriteFails, SaveWrite
  <2>2. HalvesStay
    <3>1. CASE SendWrite(c)
      BY <3>1, MorePostsKeepHalves DEF SendWrite
    <3>2. CASE WriteReceived(c)
      BY <3>2, AnsweredKeepsHalves DEF WriteReceived
    <3>3. CASE WriteFails(c)
      BY <3>3, GivingUpKeepsHalves DEF WriteFails
    <3> QED
      BY <1>3, <3>1, <3>2, <3>3
  <2>3. writes'[c].stage # "read"
    <3>1. CASE SendWrite(c)
      BY <1>0, <3>1 DEF SendWrite, WriteType
    <3>2. CASE WriteReceived(c)
      <4>1. writes'[c] = [w EXCEPT !.stage = "sending", !.todo = Tail(@)]
        BY <1>0, <3>2 DEF WriteReceived
      <4> QED
        BY <1>0, <4>1 DEF WriteType
    <3>3. CASE WriteFails(c)
      BY <1>0, <3>3 DEF WriteFails, WriteType
    <3> QED
      BY <1>3, <3>1, <3>2, <3>3
  <2> QED
    BY <1>0, <1>1, <1>2, <2>1, <2>2, <2>3, OthersKeepLocal
<1>4. CASE ReadLatest(c)
  <2>1. StoresRise /\ HalvesStay /\ UNCHANGED <<localStorage, fileStore>>
    BY <1>2, <1>4, MorePostsKeepHalves DEF ReadLatest, SaveWrite
  <2>2. \A i \in Node, f \in Name : LocalFrom(i, f)'
    BY <1>0, <2>1, LocalsStay DEF LocalInv
  <2>3. /\ writes'[c].stage = "read" /\ writes'[c].name = w.name /\ writes'[c].at = h
        /\ writes'[c].latest = fileStore[h][w.name]
    <3>1. writes'[c] = [w EXCEPT !.stage = "read", !.latest = fileStore[w.at][w.name]]
      BY <1>0, <1>4 DEF ReadLatest
    <3> QED
      BY <1>0, <3>1 DEF WriteType
  <2>4. fileStore[h][w.name] # None /\ fileStore[h][w.name].Version \in Nat
    <3>1. WriteReached(c)
      BY DEF ListInv, WritesReached
    <3> QED
      BY <1>0, <1>4, <3>1
      DEF ReadLatest, WriteReached, IInv, StoreInv, StoresTyped, File
  <2>5. LatestFrom(c)'
    <3>0. PICK f : f \in Name /\ f = w.name
      BY <1>0
    <3>1. PICK file : file = fileStore[h][f] /\ f = w.name
      BY <3>0
    <3>2. Known(<<f, file>>)'
      BY <1>0, <2>4, <3>0, <3>1, KnownStays DEF EntriesKnown, StoresKnown
    <3>3. AtLeast(h, f, file.Version)'
      BY <2>1, <2>4, <3>1 DEF AtLeast
    <3> QED
      BY <2>3, <2>4, <3>1, <3>2, <3>3 DEF LatestFrom, Known, AtLeast
  <2>6. \A d \in Content : d # c => LatestFrom(d)'
    BY <1>0, <1>1, <2>1, LatestStays DEF LocalInv
  <2> QED
    BY <2>2, <2>5, <2>6 DEF LocalInv
<1>5. CASE Acknowledge(c)
  <2>1. StoresRise /\ HalvesStay /\ fileStore' = fileStore
        /\ localStorage' = [localStorage EXCEPT ![h][w.name] = w.latest]
    BY <1>0, <1>2, <1>5, MorePostsKeepHalves DEF Acknowledge, SaveWrite
  <2>2. /\ w.latest # None /\ Known(<<w.name, w.latest>>) /\ w.stage = "read"
        /\ AtLeast(h, w.name, w.latest.Version)
    BY <1>0, <1>5 DEF LocalInv, LatestFrom, Acknowledge
  <2>3. ASSUME NEW i \in Node, NEW f \in Name PROVE LocalFrom(i, f)'
    <3>1. CASE i # h \/ f # w.name
      <4>1. localStorage'[i][f] = localStorage[i][f]
        BY <1>0, <2>1, <3>1
      <4> QED
        BY <1>0, <2>1, <4>1, LocalsStay DEF LocalInv
    <3>2. CASE i = h /\ f = w.name
      <4>1. PICK file : file = w.latest
        OBVIOUS
      <4>2. localStorage'[i][f] = file
        BY <1>0, <2>1, <3>2, <4>1
      <4>3. Known(<<f, file>>)'
        BY <1>0, <2>2, <3>2, <4>1, KnownStays
      <4>4. AtLeast(i, f, file.Version)'
        BY <2>1, <2>2, <3>2, <4>1 DEF AtLeast
      <4> QED
        BY <4>2, <4>3, <4>4 DEF LocalFrom, Known, AtLeast
    <3> QED
      BY <3>1, <3>2
  <2>4. writes'[c].stage # "read"
    BY <1>0, <1>5 DEF Acknowledge, WriteType
  <2>5. \A d \in Content : LatestFrom(d)'
    BY <1>0, <1>1, <2>1, <2>4, LatestStays DEF LocalInv
  <2> QED
    BY <2>3, <2>5 DEF LocalInv
<1>6. CASE SaveWrite(c)
  <2>1. /\ w.file \in File /\ UNCHANGED <<posts, localStorage>>
        /\ fileStore' = [fileStore EXCEPT ![h][w.name] = w.file]
    BY <1>0, <1>6 DEF SaveWrite, SaveFile, WriteOK
  <2>2. /\ fileStore'[h][w.name] = w.file /\ w.file # None /\ w.file.Version \in Nat
        /\ \A i \in Node, f \in Name :
             i # h \/ f # w.name => fileStore'[i][f] = fileStore[i][f]
    BY <1>0, <2>1, FilesAreSomething DEF IInv, StoreInv, StoresTyped, File
  <2>3. ASSUME NEW i \in Node, NEW f \in Name PROVE LocalFrom(i, f)'
    <3> SUFFICES ASSUME localStorage[i][f] # None PROVE LocalFrom(i, f)'
      BY <2>1 DEF LocalFrom
    <3>1. Known(<<f, localStorage[i][f]>>) /\ LocalFrom(i, f)
      BY DEF LocalInv, LocalFrom
    <3>2. Known(<<f, localStorage[i][f]>>)'
      BY <1>0, <2>1, <3>1 DEF Known, WritesLast
    <3>3. CASE i # h \/ f # w.name
      <4>1. fileStore'[i][f] = fileStore[i][f]
        BY <2>2, <3>3
      <4> QED
        BY <2>1, <3>1, <3>2, <4>1 DEF LocalFrom, AtLeast
    <3>4. CASE i = h /\ f = w.name
      <4>1. PICK d \in Content : /\ d = localStorage[i][f].Content /\ Born(d)
                                 /\ writes[d].name = f /\ writes[d].file = localStorage[i][f]
        BY <3>1 DEF Known
      <4>2. writes[d].file.Version \in Nat
        BY <4>1, WritesTyped DEF Born
      <4>3. w.file.Version >= writes[d].file.Version
        <5>1. CASE d = c
          BY <2>2, <5>1
        <5>2. CASE d # c
          BY <1>0, <2>2, <3>4, <4>1, <4>2, <5>2 DEF CountInv, Above
        <5> QED
          BY <5>1, <5>2
      <4>4. AtLeast(i, f, localStorage[i][f].Version)'
        BY <2>1, <2>2, <3>4, <4>1, <4>3 DEF AtLeast
      <4> QED
        BY <2>1, <3>2, <4>4 DEF LocalFrom
    <3> QED
      BY <3>3, <3>4
  <2>4. ASSUME NEW d \in Content PROVE LatestFrom(d)'
    <3>1. writes'[c].stage = "saved"
      BY <1>0, <1>6 DEF SaveWrite, WriteType
    <3>2. d # c => writes'[d].stage # "read"
      BY <1>1 DEF Ended
    <3> QED
      BY <3>1, <3>2 DEF LatestFrom
  <2> QED
    BY <2>3, <2>4 DEF LocalInv
<1> QED
  BY <1>3, <1>4, <1>5, <1>6 DEF Writing

LEMMA HandlersKeepLocal ==
  ASSUME IInv, EntriesKnown, LocalInv, NEW p \in posts,
         SaveReplica(p) \/ \E e \in p.todo : StoreLocally(p, e)
  PROVE  LocalInv'
<1>0. /\ p \in PostType /\ UNCHANGED writes /\ WritesLast
      /\ localStorage \in [Node -> [Name -> File \cup {None}]]
  BY DEF IInv, JobsInv, SaveReplica, StoreLocally, WritesLast, Born
<1>1. CASE SaveReplica(p)
  <2>1. /\ StoresRise /\ AtLeast(p.to, p.half[1], p.half[2].Version)'
        /\ UNCHANGED localStorage /\ posts \ {p} \subseteq posts'
    BY <1>0, <1>1, StoringRises DEF SaveReplica
  <2>2. ASSUME NEW i \in Node, NEW f \in Name PROVE LocalFrom(i, f)'
    <3> SUFFICES ASSUME localStorage[i][f] # None PROVE LocalFrom(i, f)'
      BY <2>1 DEF LocalFrom
    <3>1. PICK file : file = localStorage[i][f]
      OBVIOUS
    <3>2. /\ Known(<<f, file>>) /\ file.Version \in Nat
          /\ \/ AtLeast(i, f, file.Version)
             \/ \E q \in posts : q.to = i /\ q.half = <<f, file>>
      BY <3>1, LocalTyped DEF LocalInv, LocalFrom
    <3>3. Known(<<f, file>>)'
      BY <1>0, <3>2, KnownStays
    <3>4. AtLeast(i, f, file.Version)' \/ \E q \in posts' : q.to = i /\ q.half = <<f, file>>
      <4>1. CASE AtLeast(i, f, file.Version)
        BY <2>1, <3>2, <4>1 DEF StoresRise
      <4>2. ASSUME NEW q \in posts, q.to = i, q.half = <<f, file>>
            PROVE  AtLeast(i, f, file.Version)' \/ q \in posts'
        <5>1. CASE q = p
          <6>1. q.half[1] = f /\ q.half[2] = file
            BY <4>2
          <6> QED
            BY <2>1, <4>2, <5>1, <6>1 DEF AtLeast
        <5>2. CASE q # p
          BY <2>1, <5>2
        <5> QED
          BY <5>1, <5>2
      <4> QED
        BY <3>2, <4>1, <4>2
    <3> QED
      BY <2>1, <3>1, <3>3, <3>4 DEF LocalFrom, Known, AtLeast
  <2>3. \A d \in Content : LatestFrom(d)'
    BY <1>0, <2>1, LatestStays DEF LocalInv
  <2> QED
    BY <2>2, <2>3 DEF LocalInv
<1>2. ASSUME NEW e \in p.todo, StoreLocally(p, e) PROVE LocalInv'
  <2> DEFINE q == [p EXCEPT !.todo = @ \ {e}, !.half = e]
  <2>1. /\ p.half = None /\ posts' = (posts \ {p}) \cup {q} /\ q.to = p.to /\ q.half = e
        /\ e = <<e[1], e[2]>> /\ p.to \in Node /\ e[1] \in Name /\ e[2] \in File
        /\ localStorage' = [localStorage EXCEPT ![p.to][e[1]] = e[2]]
    <3>1. e \in Entry /\ p.to \in Node /\ q.to = p.to /\ q.half = e
      BY <1>0 DEF PostType
    <3>2. e = <<e[1], e[2]>> /\ e[1] \in Name /\ e[2] \in File
      BY <3>1 DEF Entry
    <3> QED
      BY <1>2, <3>1, <3>2 DEF StoreLocally
  <2>2. StoresRise /\ HalvesStay
    BY <1>2, <2>1 DEF StoreLocally, StoresRise, AtLeast, HalvesStay
  <2>3. ASSUME NEW i \in Node, NEW f \in Name PROVE LocalFrom(i, f)'
    <3>1. CASE i # p.to \/ f # e[1]
      <4>1. localStorage'[i][f] = localStorage[i][f]
        BY <1>0, <2>1, <3>1
      <4> QED
        BY <1>0, <2>2, <4>1, LocalsStay DEF LocalInv
    <3>2. CASE i = p.to /\ f = e[1]
      <4>1. localStorage'[i][f] = e[2]
        BY <1>0, <2>1, <3>2
      <4>2. Known(<<f, e[2]>>)'
        BY <1>0, <2>1, <3>2, KnownStays DEF EntriesKnown, PostsKnown, KnownPost
      <4>3. q \in posts' /\ q.to = i /\ q.half = <<f, e[2]>>
        BY <2>1, <3>2
      <4> QED
        BY <4>1, <4>2, <4>3 DEF LocalFrom, Known
    <3> QED
      BY <3>1, <3>2
  <2>4. \A d \in Content : LatestFrom(d)'
    BY <1>0, <2>2, LatestStays DEF LocalInv
  <2> QED
    BY <2>3, <2>4 DEF LocalInv
<1> QED
  BY <1>1, <1>2

LEMMA ChoresKeepLocal ==
  ASSUME IInv, LocalInv,
         \/ \E i, n \in Node : BeginRepair(i, n) \/ BeginSync(i, n)
         \/ RemoveFailed \/ Restored \/ RestoreFails
         \/ \E k \in Chore : Upkeep(k)
  PROVE  LocalInv'
<1>1. UNCHANGED <<writes, fileStore, localStorage>>
  BY DEF BeginRepair, BeginSync, RemoveFailed, Restored, RestoreFails, Upkeep, ChooseFile,
         ListReplicas, SendCopy, CopyReceived, CopyFails, RecordReplicas, FinishChore,
         RemoveNodeFromAllReplicaMaps, UpdateReplicaNodes
<1>2. WritesLast /\ StoresRise
  BY <1>1 DEF WritesLast, Born, StoresRise, AtLeast
<1>3. HalvesStay
  <2>1. CASE posts \subseteq posts'
    BY <2>1, MorePostsKeepHalves
  <2>2. CASE Restored \/ \E k \in Chore : CopyReceived(k)
    BY <2>2, AnsweredKeepsHalves DEF Restored, CopyReceived
  <2>3. CASE RestoreFails \/ \E k \in Chore : CopyFails(k)
    BY <2>3, GivingUpKeepsHalves DEF RestoreFails, CopyFails
  <2>4. CASE \E i, n \in Node : BeginRepair(i, n) \/ BeginSync(i, n)
    BY <2>1, <2>4 DEF BeginRepair, BeginSync
  <2>5. CASE RemoveFailed
    BY <2>1, <2>5 DEF RemoveFailed
  <2>6. ASSUME NEW k \in Chore,
               \/ ChooseFile(k) \/ ListReplicas(k) \/ SendCopy(k)
               \/ RecordReplicas(k) \/ FinishChore(k)
        PROVE  posts \subseteq posts'
    BY <2>6 DEF ChooseFile, ListReplicas, SendCopy, RecordReplicas, FinishChore
  <2> QED
    BY <2>1, <2>2, <2>3, <2>4, <2>5, <2>6 DEF Upkeep
<1> QED
  BY <1>1, <1>2, <1>3, OthersKeepLocal

LEMMA RestartKeepsLocal ==
  ASSUME IInv, NEW h \in Node, WritesAlone(h), HomeInv(h), LocalInv,
         NEW i \in Node, Restart(i)
  PROVE  LocalInv'
<1> DEFINE mine == {c \in Content : writes[c].at = i /\ ~Ended(c)} \cup
                   {k \in Chore : chores[k].at = i}
<1>0. posts \subseteq PostType /\ i # h
  BY DEF IInv, JobsInv, Restart, WritesAlone
<1>1. \A c \in Content : writes'[c] = writes[c]
  <2>1. \A c \in Content : c \notin mine
    BY <1>0, CallersDiffer DEF HomeInv, Born, Ended, Chore
  <2> QED
    BY <2>1 DEF Restart
<1>2. WritesLast
  BY <1>1 DEF WritesLast, Born
<1>3. /\ \A n \in Node \ {i}, f \in Name : /\ fileStore'[n][f] = fileStore[n][f]
                                           /\ localStorage'[n][f] = localStorage[n][f]
      /\ \A f \in Name : localStorage'[i][f] = None
  BY DEF Restart, IInv, JobsInv, StoreInv, StoresTyped
<1>4. ASSUME NEW p \in posts, p.to # i, p.half # None
      PROVE  \E q \in posts' : q.to = p.to /\ q.half = p.half
  <2>1. /\ [p EXCEPT !.by = None].to = p.to /\ [p EXCEPT !.by = None].half = p.half
    BY <1>0 DEF PostType
  <2>2. ~Answers(p, p.by)
    BY <1>4 DEF Answers
  <2>3. (IF p.by \in mine THEN [p EXCEPT !.by = None] ELSE p) \in posts'
    BY <1>4, <2>2 DEF Restart
  <2>4. CASE p.by \in mine
    BY <2>1, <2>3, <2>4
  <2>5. CASE p.by \notin mine
    BY <2>3, <2>5
  <2> QED
    BY <2>4, <2>5
<1>5. ASSUME NEW n \in Node, NEW f \in Name PROVE LocalFrom(n, f)'
  <2> SUFFICES ASSUME localStorage'[n][f] # None PROVE LocalFrom(n, f)'
    BY DEF LocalFrom
  <2>1. PICK file : file = localStorage[n][f]
    OBVIOUS
  <2>2. /\ n # i /\ localStorage'[n][f] = file /\ fileStore'[n][f] = fileStore[n][f]
        /\ file # None /\ <<f, file>> # None
    BY <1>3, <2>1, LocalTyped
  <2>3. /\ Known(<<f, file>>)
        /\ \/ AtLeast(n, f, file.Version)
           \/ \E p \in posts : p.to = n /\ p.half = <<f, file>>
    <3>1. LocalFrom(n, f)
      BY DEF LocalInv
    <3> QED
      BY <2>1, <2>2, <3>1 DEF LocalFrom
  <2>4. Known(<<f, file>>)'
    BY <1>2, <2>3, KnownStays
  <2>5. AtLeast(n, f, file.Version) => AtLeast(n, f, file.Version)'
    BY <2>2 DEF AtLeast
  <2>6. (\E p \in posts : p.to = n /\ p.half = <<f, file>>)
          => \E q \in posts' : q.to = n /\ q.half = <<f, file>>
    BY <1>4, <2>2
  <2> QED
    BY <2>2, <2>3, <2>4, <2>5, <2>6 DEF LocalFrom, Known, AtLeast
<1>6. ASSUME NEW c \in Content PROVE LatestFrom(c)'
  <2> SUFFICES ASSUME writes[c].stage = "read" PROVE LatestFrom(c)'
    BY <1>1 DEF LatestFrom
  <2>0. writes[c].name \in Name /\ writes[c].at = h
    BY WritesTyped DEF HomeInv, Born
  <2>1. PICK w : w = writes[c] /\ writes'[c] = w
    BY <1>1
  <2>2. PICK f \in Name : f = w.name /\ w.at = h
    BY <2>0, <2>1
  <2>3. w.latest # None /\ Known(<<f, w.latest>>) /\ AtLeast(h, f, w.latest.Version)
    BY <2>1, <2>2 DEF LocalInv, LatestFrom
  <2>4. Known(<<f, w.latest>>)'
    BY <1>2, <2>3, KnownStays
  <2>5. AtLeast(h, f, w.latest.Version)'
    BY <1>0, <1>3, <2>3 DEF AtLeast
  <2> QED
    BY <2>1, <2>2, <2>3, <2>4, <2>5 DEF LatestFrom, Known, AtLeast
<1> QED
  BY <1>5, <1>6 DEF LocalInv

LEMMA StepsKeepLocal ==
  ASSUME NEW h \in Node, WritesAlone(h)
  PROVE  IInv /\ ListInv /\ AckInv /\ EntriesKnown /\ HomeInv(h) /\ CountInv /\ LocalInv
           /\ [Next]_vars => LocalInv'
<1> SUFFICES ASSUME IInv, ListInv, AckInv, EntriesKnown, HomeInv(h), CountInv, LocalInv,
                    [Next]_vars
             PROVE  LocalInv'
  OBVIOUS
<1>1. CASE UNCHANGED vars
  <2>1. WritesLast /\ StoresRise /\ HalvesStay
    BY <1>1 DEF vars, WritesLast, Born, StoresRise, AtLeast, HalvesStay
  <2> QED
    BY <1>1, <2>1, OthersKeepLocal DEF vars
<1>2. ASSUME NEW i \in Node, NEW f \in Name, NEW c \in Content, BeginWrite(i, f, c)
      PROVE  LocalInv'
  <2>1. /\ writes \in [Content -> WriteType] /\ WritesLast
        /\ UNCHANGED <<localStorage, fileStore, posts>>
    BY <1>2, BeginWriteKnown DEF BeginWrite, IInv, JobsInv
  <2>2. StoresRise /\ HalvesStay
    BY <2>1 DEF StoresRise, AtLeast, HalvesStay
  <2>3. \A d \in Content : writes'[d] = writes[d] \/ writes'[d].stage # "read"
    <3>1. writes'[c].stage = "sending"
      BY <1>2, <2>1 DEF BeginWrite
    <3>2. \A d \in Content : d # c => writes'[d] = writes[d]
      BY <1>2 DEF BeginWrite
    <3> QED
      BY <3>1, <3>2
  <2> QED
    BY <2>1, <2>2, <2>3, OthersKeepLocal
<1>3. CASE Next
  BY <1>2, <1>3, WritingKeepsLocal, HandlersKeepLocal, ChoresKeepLocal, RestartKeepsLocal
  DEF Next
<1> QED
  BY <1>1, <1>3

(* What is read at a node is in its store as well, or something newer is,  *)
(* unless a handler there is between its two steps - if all writes go, one *)
(* after the other, to one node that keeps its memory.                     *)
THEOREM ReadsAreOfStores ==
  ASSUME NEW h \in Node, WritesAlone(h)
  PROVE  Spec => []ReadsAreStored
<1>1. Init => AckInv /\ EntriesKnown /\ HomeInv(h) /\ CountInv /\ LocalInv
  BY InitIsAgreed DEF Init, LocalInv, LocalFrom, LatestFrom, NoWrite
<1>2. IInv /\ LocalInv => ReadsAreStored
  <2> SUFFICES ASSUME IInv, LocalInv, NEW i \in Node, NEW f \in Name,
                      ReadHandler(i, f) # None,
                      \A p \in posts : p.to = i => p.half = None
               PROVE  AtLeast(i, f, ReadHandler(i, f).Version)
    BY DEF ReadsAreStored, AtLeast
  <2>1. CASE localStorage[i][f] # None
    <3>1. PICK file : file = localStorage[i][f]
      OBVIOUS
    <3>2. LocalFrom(i, f) /\ <<f, file>> # None /\ ReadHandler(i, f) = file
      BY <2>1, <3>1, LocalTyped DEF LocalInv, ReadHandler
    <3> QED
      BY <2>1, <3>1, <3>2 DEF LocalFrom
  <2>2. CASE localStorage[i][f] = None
    BY <2>2 DEF ReadHandler, AtLeast, IInv, StoreInv, StoresTyped, File
  <2> QED
    BY <2>1, <2>2
<1>3. OneByOne
  BY DEF WritesAlone
<1>4. IInv /\ ListInv /\ AckInv /\ EntriesKnown /\ HomeInv(h) /\ CountInv /\ LocalInv
        /\ [Next]_vars
        => AckInv' /\ EntriesKnown' /\ HomeInv(h)' /\ CountInv' /\ LocalInv'
  BY <1>3, StepsKeepAcknowledged, EntriesStayKnown, StepsKeepHome, StepsKeepLocal
<1> QED
  BY <1>1, <1>2, <1>4, InitEstablishes, StepsKeep, InitListsNobody, StepsKeepLists,
     PTL DEF Spec
=============================================================================
