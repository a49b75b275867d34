# A verification of the distributed file storage system

This directory holds TLA+ models of the Go program in `src/`, TLC
configurations that check them on small instances, and proofs that TLAPS checks
for every instance. Paths below are relative to `src/`; `raft.go:72` and the
like are lines of the file of that name.

## 1. The system

A node (`cmd/node`) is an HTTP server that stores files, replicates them,
watches its peers and is meant to agree on a leader. A client (`cmd/client`)
writes to and reads from any node. The repository claims "high availability,
fault tolerance, and strong consistency" for it.

| Component | Source | State | Operations | Talks to |
|---|---|---|---|---|
| Raft consensus | `internal/consensus` | term, vote, role, votes received, log, commit index, next/match index, two timers | `NewRaft`, `Start`, `Stop`, `startElection`, `HandleVoteRequest`, `HandleVoteReply`, `ProposeState`, `startHeartbeats`, `sendHeartbeats`, `HandleLeaderHeartbeat`, `HandleAppendReply` | other nodes, by four message types through `transport.Send` |
| Failure detector | `internal/fault/detector.go`, `fault.go` | status and last-seen time of each peer | `RegisterNode`, `RecordHeartbeat`, `checkAll` every 200 ms | callbacks `OnFailure`, `OnRejoin` |
| Gossip | `internal/fault/gossip.go` | rounds spread and peers told, per failed node | `SpreadFailure`, `ReceiveGossip`, `RegisterPeer` | the detector's table, other nodes |
| Recovery manager | `internal/fault/recovery.go` | a recovery record per peer | `OnNodeFailure`, `OnNodeRejoin` | replication (stubs) |
| Heartbeat sender | `internal/fault/heartbeat.go` | none but its goroutine | `sendToAll` every 2 s | the peers' message handler |
| Replication and storage | `internal/replication` | files, versions, replica maps, node URLs | `ReplicateFile`, `ReplicateFilesFromFailedNode`, `SyncNodeFromCheckpoint`, `SaveFile`, `SaveReplicaOnNode`, ... | other nodes' `/replicate`, `/checkpoint` |
| Node server | `cmd/node/main.go` | `localStorage` and the managers above | write, read, replicate, checkpoint handlers | client, replication |
| Client | `cmd/client/main.go` | none that outlives a run | status query, choice of the primary or a backup, request, pings | `/status` and `/message` of the nodes |
| Clock synchronisation | `internal/clock` | offset, previous offset, whether it ever synchronised, skew history | `CollectSamples`, `Synchronise`, `RunLoop`, `HandleSyncFailure`, `Now` | the first peer's `/time` |
| Message API | `internal/api/handler.go` | none | dispatch of a message to its handler, `/status` | detector, Raft |
| Transport, types, config, utilities | the rest of `internal` | none | HTTP POST with a 5 s timeout, JSON | |

What is hard about each, and what makes it correct:

* **Raft.** Timer callbacks, handlers and one goroutine per heartbeat round
  interleave wherever they give up `r.mu`; messages are goroutines of their own,
  so they are lost, delayed and reordered. Correct means: one leader a term, a
  leader has its votes, nobody ends without a timer, logs agree, what is
  committed is on a majority and stays, followers catch up, a deposed leader
  notices.
* **Detector, gossip, recovery.** The status is set under one mutex, the
  callbacks run after it is released, and gossip and recovery have mutexes of
  their own. Correct means: each failure is reported once, a silent peer ends up
  failed, the recovery record follows the status, each failure is spread, and in
  a bounded number of rounds.
* **Heartbeat sender.** One slow peer delays the heartbeats to all that follow
  it, against the detector's timeout of 6 s; a node that starts sends
  heartbeats before its server listens. Correct means: who is lost ends up failed,
  who serves ends up alive, and a peer that runs is suspected for a cause only.
* **Client.** It acts on the table of one node, which may be out of date. Correct
  means: the primary is passed over for a cause only, and while some node serves,
  clients are served in the end.
* **Replication, node server.** A write reads a version, sends to the
  three nodes (its own among them) and only then saves; handlers for one file interleave; a replica may
  fail half-way. Correct means: an acknowledged write is on its replicas and is
  what a later read returns, versions never go back, replica maps name nodes
  that hold the file.
* **Clock.** A sample's error is bounded by half its round trip; slow
  samples are dropped, the median of the rest is taken, and a failed attempt keeps
  the old offset. Samples run while clocks are set, and readers while a
  synchronisation ends. Correct means: the offset is within the bound, a node that
  has synchronised stays so, and a good link brings the offset up to date.

`internal/cluster`, `internal/storage`, the frontend and the test
directories are empty files.

## 2. The plan

1. `Raft`, with `Leadership` as its abstract specification: the core (done).
2. Proofs of types, timers, elections, refinement and append-only logs (done).
3. `FaultManager`: detector, gossip and recovery of one node, with proofs (done).
4. `Replication`: the replication manager, the stores of a few nodes and the
   handlers that change and read them, with proofs of its types and of what its
   lists mean (done).
5. `Heartbeats`: the senders and detectors of all nodes in discrete time (interval
   2, send timeout 5, detection timeout 6), with a proof of who is suspected for
   what (done).
6. `Client`, composed with `Heartbeats`: the status query and the failover (done).
7. `ClockSync`: samples, synchronisation and readers, with proofs of the error
   bound (done).
8. More proofs. `Replication`: `AcknowledgedStays`, `VersionsIdentifyContent` and
   `ReadsAreStored` for clients that wait (done). `Raft`:
   `TermsOrdered` and `LogMatching`, with an invariant about every heartbeat in
   flight (done).
9. `Raft`: what a success reply says, `AnswersAreTrue`, checked and proved; and what a
   commit is worth, `CommitsAreHeld`, checked where heartbeats come in order and no node
   leads twice (done). A leader that returns in a third term and believes
   a success reply of its first one (`log_agreement.go:234` does not compare the
   reply's term) is beyond the state space of a run.

## 3. Modules

| Module | What it is |
|---|---|
| `Raft` | the consensus module: state, actions, properties |
| `Leadership` | what an election promises, abstractly |
| `MCRaft` | instances of `Raft` for TLC |
| `RaftProofs` | types, timers, election safety, refinement of `Leadership`, and what a leader may do to its term and log |
| `LogProofs` | logs match, terms along them are in order, heartbeats bring what the leader's log holds, and what an answer to one says |
| `LeadershipProofs` | the abstract promise itself |
| `FaultManager` | detector, gossip and recovery of one node |
| `MCFaultManager` | instances of `FaultManager` for TLC |
| `FaultProofs` | types, one report a failure, first failures are gossiped, recovery records |
| `Replication` | files and replicas on all nodes, manager and handlers |
| `MCReplication` | instances of `Replication` for TLC |
| `ReplicationProofs` | types, that repairs find their files, and that the nodes on a file's list store it |
| `VersionProofs` | acknowledged writes stay, versions identify contents, reads are of stored files |
| `Heartbeats` | heartbeat senders against failure detectors, in time |
| `Client` | the client program, with the nodes of `Heartbeats` |
| `MCClient` | instances of `Client` for TLC |
| `HeartbeatProofs` | types, suspicion for a cause, the primary first |
| `ClockSync` | one node's clock synchronisation against its peer's clock |
| `MCClock` | instances of `ClockSync` for TLC |
| `ClockProofs` | types, the error bound, skews and fallback |

### Raft

Variables have the names of the fields of `Raft` (`raft.go:34`). The others
stand for what the Go runtime and the network hold: `electionTimer` and
`heartbeatTimer` say whether a timer is armed; `firing` counts `startElection`
calls that wait for the mutex, `rearming` those between their two locked regions
(`election.go:57-65`); `beating` counts `startHeartbeats` goroutines that have
not begun a round; `rounds` are the `sendHeartbeats` calls that are between two
peers; four sets hold the messages in flight.

One action is one locked region, because that is the granularity at which the
code interleaves. `FireElectionTimer` takes the timer away from
`electionTimer.Stop()`: from then on only the mutex decides when
`startElection` runs, and the node may meanwhile have become leader
(`SkipElection`), voted, or been deposed. `SendHeartbeat` is one peer of the
loop of `sendHeartbeats`; it reads `nextIndex` anew under the lock
(`log_agreement.go:74`), while term, commit index and log are the ones of
`BeginRound`. The last peer also re-arms the heartbeat timer, which is how
`startHeartbeats` goes on for ever.

The log that a round holds is a Go slice and not a copy. `HandleLeaderHeartbeat`
truncates and appends in place, so `LogWrite` writes through to the rounds that
still share the array. When `append` moves to a larger array is a matter of
capacity, which the language leaves open: `moved` is a free choice, bounded by
what capacity must at least be (`MayMove`). Every round's message is encoded
before the goroutine that sends it starts (`types.NewMessage`), so a message in
flight does not change.

A message is consumed when delivered; loss is never delivering it. Equal
messages in flight merge. Peers are visited in any order, more than the code
does (`PeerURLs` has a fixed one).

What the environment is: `Contests` are the candidacies that may be started, a
bound on the terms; `BeatTerms`, `MaxLog`, `MaxTimeouts`, `MaxOutages`,
`MaxPending` are bounds, each in one guard and named in the module's header.
`MaxOutages` counts calls of `Stop` and deaths of a process together, and
`MayRestart` says whether there are any of the latter.
`Interleaved = FALSE` lets a node's goroutines finish before it does anything
else; `Attentive` makes a round due only when what was sent to the node has been
handled, as with an interval that is long against the network. The theorems hold
for all their values but these: elections and what follows from them are proved
without `MayRestart`, those of `LogProofs` also without `Interleaved` (section 5).

Majorities are counted only on a reply, so a cluster of one never elects itself;
the model does the same. Nothing is persisted: `Restart` is `NewRaft` and
`Start`.

### FaultManager

One node's detector, gossip manager and recovery manager. Time is abstracted to
`overdue`: whether the timeout has passed since the last heartbeat.
`RecordHeartbeat`, `checkAll` and `ReceiveGossip` are each cut where they
release the detector's mutex; what they then have to do is in `rejoining`,
`justFailed` and `confirmed`, and `noting` and `due` are gossip work that waits
for the gossip mutex. `OnFailure` spawns `SpreadFailure` and calls
`OnNodeFailure`, which is one locked region. `SpreadFailure` picks its targets in
one region and marks them one by one (`SendGossip`).

`failures`, `calls` and `recovered` are history variables. `Gossips` are
the messages that may arrive, once each. In the present repository they come
from the tests only: `handler.go` has no case for `GOSSIP`, so no node ever hears
another's gossip. `Interleaved = FALSE` lets all callbacks finish before the next
event, and is the world in which the authors' comments were written.

### Replication

Every node has its own package state (`fileStore`, `replicaMap`, `nodeFileMap` of
`storage.go`) and its own `localStorage`. An operator of the model has the name
of the `storage.go` function it stands for and is one locked region. `writes` are
the calls of `writeHandler`, one for each content; `chores` are the running
`ReplicateFilesFromFailedNode` and `SyncNodeFromCheckpoint`. Both advance by one
locked region or one POST at a time: what they have read so far is in their
record, and may be stale when they use it. `replicaMap` and the lists of
`nodeFileMap` are sets, since the code keeps them free of duplicates. Order
matters only when a synchronisation trims a list that is too long; `Trimmed`
leaves it open which nodes go.

A POST is handled in two steps, as the handler does it: `localStorage` first,
without any mutex, then `SaveReplicaOnNode`. The caller waits for the reply or
gives up on an error, and an error leaves open whether the request was lost, will
be handled later or has been (`GiveUp`). `http.Post` has no timeout here, so it
is connections that break. A node's requests to itself do not fail, and requests
that nobody waits for merge when they are equal. `Restart` loses everything, for
nothing is written to disk. It also stands for the end of the process when two
handlers write the unsynchronised `localStorage` map at the same time, which the
Go runtime may turn into a fatal error.

`Coordinators` and `OneByOne` describe the clients. `cmd/client/main.go:25` calls
the scheme "Passive Replication": one primary, one client that waits for its
writes. `concurrent_writes` drops the waiting. `Keepers` are the nodes on which
repair and synchronisation are called. At this commit only the test scripts do
so, in one process that has a manager of its own, because the functions of
`recovery.go` that should are stubs. The
demonstration has as many nodes as replicas, where a repair never copies;
`primary` has three nodes and two replicas so that it does.

A read changes nothing, so `ReadHandler` is an operator: what the client would get
at this moment. It answers from `localStorage` if it can. A late request of an
earlier write puts an older file there while the store keeps the newer one; on a
replica this happens, and nothing in the repository forbids it short of
`README.md:4`, which `concurrent_writes` already refutes. `ReadsBack` is what does
hold as long as only the coordinator repairs and synchronises: where the write was
acknowledged, it or something newer is read. With more `Keepers` it does not: a
failed write leaves its file at a replica only, whose later synchronisation of the
coordinator arrives after the next write was acknowledged there and overwrites
`localStorage`. `ReadsAreStored`, `AcknowledgedStays` and `VersionsIdentifyContent`
hold for any `Keepers` (section 5).

### Heartbeats

Every node's heartbeat sender and failure detector, in ticks of a second. A sender
is the index `next` of the peer it contacts next and the time `wait` until it does,
what is left of a POST and of the sleep between two rounds. `SendToNext` is one
iteration of the loop of `sendToAll`, with the `MessageHandler` and
`RecordHeartbeat` of the receiver. A node that is `down` refuses a POST at once,
one that is `silent` (its host gone, its process hanging) costs the 5 s of
`transport`'s timeout. `CheckAll` is the monitor, which looks five times a tick:
`Tick` waits until it has found whoever is late. `Crash` and `StartNode` are the
environment; `StartNode` follows `main`, which starts the fault manager, runs the
first clock synchronisation (eight requests, each up to 5 s) and only then listens:
`boot` is how long that takes. What the callbacks do is `FaultManager`'s.

`excused` is a history variable: `<<n, p>>` is in it from the moment something
happens that explains why `n` does not hear of `p`: `p` found `n` not listening,
sat out a send timeout, or was started anew. The next heartbeat of `p` takes it
away.

### Client

One run of `cmd/client/main.go` after the other. `statuses` is the map the program
builds: first what it finds out by itself (`AskFails`: a refusal, or a connection that
breaks), then, from the first node
that answers, that node's table (`StatusFrom`), which overrides it. The nodes are
asked in any order, as ranging over a Go map does. `http.Get` has no timeout, so a node
that hangs keeps the client in `waiting` (`AskHangs`) until its process ends, for ever
if it does not (`Blocked`). `GetTargetNode` takes the first of `Ranked`, the primary
and then the backups, that is held `Alive`; `Return` ends a run and its variables.
`served` records whether the request reached a server, and `blamed` is history: whether
the node that answered had cause to hold the primary failed. The messages the client sends are heartbeats of "client",
which no detector has registered, so they change nothing. What follows the last
function of the file (a write and a read) is a merge that does not compile, and so
is the request to `127.0.0.1:9001` in `requestFile`.

### ClockSync

Of the two wall clocks the model keeps the difference `diff` (peer minus local),
and the times of the sample under way relative to its `T1`. `SetLocal` and
`SetPeer` are what NTP or an administrator does to either of them, at any moment and
in either direction; setting the local one changes the round trip that is being
measured with it. A tick that passes is the round trip growing.
`link` says whether samples are answered in time; over a bad link they may be late or lost.
`Median` is a set (of one element), defined by how many values are below,
and needs no sorting. `Quot` is Go's division, which truncates.

The `Syncer` is written under one lock by `SyncSucceeds` and read by
`HandleSyncFailure` under two, so a reader is `idle` or between the locks. `seen` and
`synced` are history: the lowest and highest difference of the clocks while the
samples of a synchronisation were taken, and by how much the peer's clock was set back
amid one. `OffsetIsClose` is wider by that much: with both clocks set back amid
a sample the round trip looks short and the peer's time is of before, and
`clock.go:61` accepts it.

## 4. Runs

Every configuration sets `CHECK_DEADLOCK FALSE`: the bounds stop the model where
the program would go on.

| Run | Instance | Question, and answer |
|---|---|---|
| `elections` | three nodes, two rivals, terms 1 and 2, one round of heartbeats, all interleavings | One leader a term, with a majority of votes counted for that term; no node without timer; a leader's loop never dies; a leader yields only to a newer term; elections refine `Leadership`. Yes. |
| `log_agreement` | n1 leads term 1, n2 takes over, logs of two | Do logs match, are terms along them ordered, does a leader only append, has who answers a heartbeat with success the leader's log up to the index it answers, and is what it newly commits in the logs of a majority, but for nodes in a newer term? Yes. |
| `catch_up` | two nodes, a takeover in term 2, one entry, one `Stop` or one restart at any moment, vote messages may all be lost, fair | Do indices keep their range, does every running node keep a timer or a loop, does an overtaken leader step down, and do followers get and commit the log of a leader that lasts? Yes. |
| `detection` | two peers, gossip about one, two failures each, fair | Is each failure reported exactly once, is the first of each peer gossiped to as many as the fanout, and does a silent peer end up failed? Yes. |
| `primary` | three nodes, two replicas, two writes one after the other through n1, one repair and one synchronisation by n1, one POST that fails, one restart of n2 | Do lists name only nodes that store the file, does a repair find all its files, is an acknowledged write never undone and read back where it was written, is nothing read that is not stored, and does a version mean one content? Yes. |
| `failover` | three nodes, one crash or hang, servers that listen at once or after 7 s, POSTs that take no time, a client that runs again and again and may itself wait for the node that hangs, fair | Is a running peer suspected for a cause only, and a backup chosen only on the word of a node with cause? Do lost nodes end up failed, serving ones alive (unless some peer hangs), and are clients served in the end, but for a run that waits for a hanging node? Yes. |
| `clock` | three samples of which two must be accepted, round trips up to 2 (limit) or 3, two clock differences, two settings of either clock, on or back, fair | Is the offset within half a round trip of a difference the clocks had (and what the peer's was set back amid a sample), do the skews add up to it, does a fallback use a synchronised one, and does it settle over a good link? Yes. |
| `crossed_replies` | one leader, one operation, logs of two, one heartbeat unanswered when the next is sent (`MaxPending = 1`) | Violated: a delayed older heartbeat truncates a follower, the leader still counts the undone match and commits alone. |
| `unchecked_log` | a takeover | Violated: votes do not compare logs, the new leader deletes a committed entry. |
| `shared_array` | two nodes, a takeover during a round | Violated: the deposed leader's round sends the new leader's entries. |
| `crossed_callbacks` | two peers, interleaved | Violated: a heartbeat between `checkAll`'s unlock and its callback leaves a pending record for a live peer. |
| `concurrent_writes` | two writes at once through n1, three replicas, nothing fails | Violated: both get version 1, and replicas end with different contents under it. |

**Why the bounds are enough.** Two rivals and two terms let every race of
elections happen: same-term rivalry, a late vote for an earlier candidacy, a
timer that fires on a node that has just won, deposition by a vote request and by an
answer to a vote or a heartbeat. Only the leader of term 1 beats there
(`BeatTerms`): a newer leader's heartbeat deposes in `log_agreement`, and that it too
leaves a timer is proved (`NobodyStranded`). Logs of two have an entry before and an entry at the
point of disagreement; two leaders and one change of term give the conflict that
truncation must resolve. `MaxPending = 1` gives two overlapping rounds, the
least that reorders heartbeats; with `MaxPending = 0`, where they come in order, the
instance of `crossed_replies` meets `CommitMeansMajority`. `log_agreement` does not,
for the newer leader may have cut what the older one replicated and now commits, and
checks `CommitsAreHeld` in its place. Two failures of a peer with heartbeats and gossip
between are the least in which a late callback meets a newer failure. Three
rounds of gossip and a fanout of two are the code's values; `detection` uses two
rounds and one target so that both limits are met. In `primary`, two writes are
the least that a late request of the first can disturb, with a repair or a
synchronisation carrying the older file between them; the one POST that may fail
may be any of them, and is lost, late or answered in vain. Symmetry is used in
`elections` only, which has no liveness property; the rivals and the operations
are interchangeable there. `catch_up` has two nodes, enough for a leader that is
overtaken and a log that must be brought up again; its rounds overlap
(`MaxPending = 1`) and it is `Attentive`. In `failover` three nodes are the least in which a hanging
peer delays the heartbeats to another, and a boot of 7 s is longer than the
detector's timeout, so a node that has started suspects everybody and is suspected.
With one crash each of the three ways to be excused occurs. In `clock`, three
samples give medians of two and of three values, and a setting of a clock may fall
before, amid and after a sample; with two settings both clocks may be set amid one.

**Fairness.** Only weak fairness, of what the Go runtime does: a goroutine that
wants a mutex gets it in the end, a heartbeat timer expires, a callback runs. An
election timer is not made to expire: each heartbeat resets it (`election.go:31-36`), and
under a leader that goes on beating it never does. For
`catch_up` also that between two nodes some heartbeat, and
some reply, is handled again and again; votes may all be lost. `failover` assumes that time
passes, and that sender and monitor of each node go on, and the client unless it waits
for a node that hangs; `clock`
that a sample ends, answered or not (the HTTP client's timeout sees to it), and that ticker and loop go on.
`SyncConverges` and `ClientsAreServed` say themselves what else they need: a link
that stays good, a node that serves for good. The world owes
nothing: silence, heartbeats and gossip of `FaultManager`, proposals, `Stop`,
`Restart`, crashes, starts and settings of clocks have no fairness.

**What the violated properties mean.** Each quotes a comment of the source in
the module, and `PROJECT.json` names the line that breaks it. More
disagreements have no run of their own.

* `fault.go:38` says "When a node fails"
the failure is gossiped, but `rumours` and `history` are never reset when a peer
comes back: its second failure finds everybody marked as told, and after three
rounds in the life of the process `SpreadFailure` returns at once.
`FirstFailureIsGossiped` is therefore about the first failure, and about what is
sent: peers are marked before the message goes out, and an error of the send is
ignored (`gossip.go:137`), so a mark does not mean that anybody knows.
* The comment on `Stop` (`raft.go:104`)
says that it "prevents timers and goroutines from leaking after shutdown", but
`startElection`, `startHeartbeats` and the handlers re-arm the timers of a
stopped node, and nothing reads `shutdownCh`.
* With `MayRestart` and `MaxOutages = 1` election safety fails, because a restarted
  node has forgotten its vote.
* `heartbeat.go:45` says of an error "peer might be down, detector will catch it".
  With one silent peer a round lasts 2 s + 5 s, beyond the 6 s of `fault.go:18`, so
  the detector catches peers that run as well, at every round; `ServingAreAlive`
  has to exclude it.
* `StaleLeaderStepsDown` has to except that the newer term is forgotten: a rival whose
  requests are lost and that dies comes back in term 0, follows the older leader, and
  that one leads for ever.
* The client's status query has no timeout (`client/main.go:63`), so one hanging node
  may hold up a client that two others could serve. `ClientsAreServed` excuses that
  run, and no other.
* `client/main.go:95` calls "Failover to backup" what happens when the table says the
  primary is dead. For up to 6 s after its death the table says it is alive, even if
  the client has just been refused by it (`client/main.go:74-76` overrides that), and
  the request that then fails is not tried elsewhere. `ClientsAreServed` is therefore
  about the end.
* `main.go:61-62` says that raw addresses are extracted so that nobody dials
  "node2=127.0.0.1:9002"; `main.go:75` builds the clock's URL from `cfg.Peers[0]`
  unsplit, so as configured every sample fails. `ClockSync` is of the synchroniser
  with a URL that works, as in its tests.
* `clock_test.go:105` expects a round trip that is not negative; with the wall clock set
  back amid a sample it is, and the sample is accepted. `OffsetIsClose` bounds what
  comes of it.
* `clock.go:122` speaks of "strict event ordering"; `Now` steps back whenever the new
  offset is smaller.

## 5. Proofs

All are checked by TLAPS from the `ASSUME`s of the modules: finite sets of nodes
and peers, natural bounds, Boolean switches, gossip that is not
about its own sender, and a `None` and callers that cannot be mistaken for anything
else.

**Types and timers** (`RaftProofs`; any bounds, with restarts and stops).
`TypeOK` is inductive. Its one arithmetical part is that `nextIndex` stays in
`Nat`, which keeps `sendHeartbeats` from slicing out of range. `NeverStranded` is
inductive with the types. `LeaderKeepsBeating` is not: a node deposed and
re-elected before its old round ends must still find a loop, so the proof needs
`RoundsOfLeaders` and `HeartbeatsOfLeaders`, which say how rounds and heartbeats
relate to the terms their node has led.

**Elections** (also `RaftProofs`; no `MayRestart`). The assumption is needed:
see the end of section 4. `ElectionSafety` follows from
`LeaderHasMajority` and that two majorities meet, but neither is inductive. The
invariant `IInv` adds:

* `BallotsSound`: votes are final, and a vote in the voter's current term is what
  `VotedFor` says. A newer term erases `VotedFor`, so the history variable
  `ballots` has to remember what the node has forgotten.
* `StandsForItself`: who is candidate or leader voted for itself.
* `RequestsOpen`: a request in flight has not been granted, so one grant is sent
  for each, and `GrantsCast`: a grant in flight was cast as a ballot.
* `CountsHeard`: a candidate has counted no more votes than ballots cast for it
  in its term whose grants are no longer in flight. This is what makes
  `VotesReceived`, a bare number, mean distinct voters.

The model consumes a message on delivery; if the transport delivered one twice,
`CountsHeard` would not hold, for `HandleVoteReply` does not look at who sent the
vote. `transport.Send` posts once and does not retry.

`ElectionsImplementLeadership` maps `leads[i]` to the current term of a leader
and to 0 otherwise; each action is then shown to be a `Cast`, an `Elect`, a
`Resign` or a stutter. `LeadersAreUnique` shows, for finite nodes and positive
terms, that this abstract promise is enough.

**Leaders** (also `RaftProofs`; no `MayRestart`). `HandleLeaderHeartbeat` makes its
receiver a follower and rewrites its log even in the receiver's own term. That a
leader is never on the receiving end of such a message needs election safety and
that a heartbeat of a term was sent by its leader; then a leader steps down only
for a newer term and only appends in its own.

**Logs** (`LogProofs`; any bounds, no `MayRestart`, no `Interleaved`). `LogMatching`
compares prefixes of two logs, and nothing in it says what a heartbeat may bring. The
proof takes logs and heartbeats apart into links: a position, the term of the entry
before it, and the entry. Accepting a heartbeat or proposing an entry then adds links
and removes others, and five facts about the set of all of them are inductive:

* `LinksUnique`: position and term determine the link, `LinksOrdered`: the term
  before is not larger, and `LinksInTime`: no link is newer than the log's node or the
  heartbeat that has it.
* `LinksOfLeaders`: the links of a term are of a node elected to it, so nobody else
  adds to them, and `LeadersHaveTheirs`: as long as that node leads, its own log has
  all of them, so what it proposes next is at a position nobody has an entry of that
  term for.

`RoundsCurrent` says what leaving out `Interleaved` gives: a round under way is of the
log and the term its node has now. TLC shows that this is needed: on the instance of
`log_agreement` with `Interleaved` a deposed leader's round, which shares the array of
its log, sends entries newer than its term, and their receiver violates
`TermsOrdered`. `HeartbeatsAreInTime` proves the property that run `shared_array`
refutes, so that interleaving is its only cause. `LogsMatch` follows from
`LinksUnique`: were two logs to differ before a position where terms agree, there
would be a last such place, and the link after it tells the two entries' term. The
number exists by well-foundedness, where an induction would need a theorem with an
operator parameter.

**Answers** (also `LogProofs`, under the same assumptions). `HandleAppendReply` puts the
answered index into `matchIndex` and lets the commit index follow. `SuccessesAreTrue`
says what stands behind that number: at the moment a follower answers with success, it
has the log of the leader up to that index, if the leader is still in the
heartbeat's term. There is no bound on heartbeats under way, terms, leaders or
candidacies; a follower may be handling the heartbeats of several leaders in any order.
The invariant is `RequestsHeld`: a heartbeat under way still fits its sender's
log (`Brings`), as long as the sender has not moved to a newer term, for until then
it only appends (`LeadersExtend`, `BringsStays`). A heartbeat is accepted on the
strength of one entry; that all before it agree is `PrefixesAgree`, the lemma
`LogsMatch` rests on, and `AcceptedAgree` joins it with what the heartbeat brings.

The theorem does not say that a recorded match stays true, and it does not: run
`crossed_replies` shows one that an older heartbeat has undone. What is committed on the
strength of matches is therefore only checked, as `CommitsAreHeld` in `log_agreement`, where
no heartbeat overtakes another (`MaxPending = 0`) and nobody leads twice. The code assures
neither. With `MaxPending = 1` `crossed_replies` refutes it; with
`MaxPending = 0` and the candidacies of n1 in term 1, n2 in term 2 and n1 in term 3,
TLC finds a behaviour of 37 steps in which n1, leading again, counts the answer to
a heartbeat of its first term and commits what nobody else holds.

**FaultManager** (`FaultProofs`; any peers and limits). `TypeOK` includes the
bound on gossip rounds, tested twice in the code, outside and inside the lock.
`FirstFailureIsGossiped` needs `NewsInv`: what was reported is on its way to a round
(`OnItsWay`), and once a round has been counted, the peers marked and those it is still
to tell (`Named`) are as many as the fanout, or all there are (`Enough`). Marks and targets
only add up, whatever rounds and incoming gossip overlap; a round that finds too few to
tell takes all that are not marked. That there is
a first round at all is the assumption that fanout and round limit are not 0.
`OncePerFailure` counts: failures are calls made plus calls outstanding, and every
place that sets the status to failed tests it in the same locked region.
`RecoveryKeepsUp` is false in general (run `crossed_callbacks`) and proved for
`Interleaved = FALSE`, with `RecoveryInv`, which says for each stage of a callback
what record and status may be; so what breaks the comment of `recovery.go:47` is
an event between an unlock and the callback that follows it, and nothing else.

**Replication** (`ReplicationProofs`; any nodes, coordinators, concurrent writes,
failures and restarts). The types need `Catalogued`: a file in a
node's lists is in its store, so that the `GetFile` of a repair never fails.
`RepairFindsItsFiles` is inductive with them. `ListedNodesStore` is not: a list is
written long after the requests it rests on. `ListInv` follows a request from its
sender to the list: `HalfStored` for a handler between its two steps, `Carries`
for what a request will have stored when its handler replies, `OneRequest` and
`Awaited` for a caller that takes a reply for the request it sent (a request of an
earlier, failed POST is nobody's), and `WriteReached` and `ChoreReached` for what
is stored on the nodes a caller has finished with. Restarted nodes are exempt, and
need to be: the others' lists still name them.

**Versions** (`VersionProofs`; any nodes, names, targets, keepers, failures and late
requests). These need clients that wait (`OneByOne`), and all but the first that all
writes go to one node that is the first target and keeps its memory (`WritesAlone`).
A store only goes back to an older version where a write is saved, in
`WriteReceived`. `AckInv` shows that this never undoes an acknowledged write: at most
one write is under way (`OneAtATime`), the targets it has finished with have its
version (`Delivered`, with `Brings` for a request in the network), and at a target
it is newer than every write acknowledged before it (`Follows`).
For `StoresAgree`, every entry that is stored or on its way was written by some write
(`EntriesKnown`), and the coordinator's store knows of every write that has ended,
the failed ones too, because it is the first target (`HomeInv`); so it counts on from
the newest version and two writes of one name differ in theirs (`CountInv`).
For `ReadsAreOfStores`, `localStorage` is then never ahead of the store, except
between the two steps of a handler (`LocalFrom`, `LatestFrom`).
TLC shows that each part of the assumption is needed. In `primary` with two coordinators,
with a coordinator that may restart, or with one that is not the first target, two
files get the same version; without `OneByOne` an acknowledged write is lost and a
read returns what the store does not have.

**Heartbeats and client** (`HeartbeatProofs`; any nodes, peer lists, intervals, crashes
and starts). The assumption is `RoundsFit`: the sleep and one POST of `MaxDelay` to
every peer fit the detector's timeout (2 s and two peers leave 2 s for each POST).
`SuspectsForCause` is not inductive, for nothing in it says how old a heartbeat may
be. `InTime` does: for each peer in the list that is not excused, its age, what its
sender waits and the POSTs still ahead of it (`Ahead`, `Slept`) never exceed a round.
Each POST takes from what is ahead what it adds to the wait. `PrimaryIsFirst` is
about the choice: the client that does not take the primary holds it for something
else than alive (`ChoiceIsFirst`, from the order of `Ranked`), so it has been told so by
a node with cause (`AnswersHaveCause`, by `SuspectsForCause`), or nobody has answered
and there is no choice (`ChoiceOf`). It is for a cluster in which every node has the
primary for a peer.

**Clock** (`ClockProofs`; any limits, differences and settings of the clocks).
`OffsetIsClose` needs `Bracketed`: the peer's clock as read lies between what it
showed at `T1` at the least and what it shows now at the most, up to what it was set
back in between, and whatever the local clock was set to. `OffsetWithin` turns this into half a round trip for one
sample, `MedianWithin` carries it to the median of any number of samples without
an induction, and `SamplesClose` keeps it until the synchronisation ends.
`SkewsAddUp` and `FallbackIsSynced` follow from `Synced`.

**Only model-checked.** All liveness: `FollowersCatchUp`,
`StaleLeaderStepsDown`, `SilentIsFailed`, `LostAreFailed`, `ServingAreAlive`,
`ClientsAreServed`, `SyncConverges`. Of safety, `CommitsAreHeld` and `ReadsBack`: the
proofs would have to assume away just what breaks them in the code, heartbeats that
overlap and second candidacies for the one (see **Answers**), repairs and synchronisations by
other nodes than the coordinator for the other (section 3). TLAPS here has no backend for liveness
under fairness or for `ENABLED`. It cannot use the library's induction theorems
either; where one is wanted, a least counterexample takes its place, and no module
needs a recursive operator.

## 6. Not modelled

* Of the clock: the mean round trip and `SyncResult`, which are only logged,
  `OffsetSeconds`, and `GetSyncedTime` and `RequestServerTime`, which nothing calls.
  64-bit overflow: `T1 + T3` stays below 2^63 until the year 2116.
* Of the client: printing, and the lines after its last function (see above).
* Of the node server: flags, `/health` and `parseTargets`.
* Parts of `cmd/node/main.go` are a merge that does not compile; `Replication`
  takes the handlers one function at a time, and `main`'s registration of the
  three nodes as done before the first request.
* Message API and transport beyond heartbeats, `/status` and the time a request
  takes: dispatch and HTTP. `api.Consensus` is never set, so
  at this commit Raft runs in its tests only; the model is of the module as it is
  meant to be connected, each message reaching its handler.
* `RecoveryManager.triggerReReplication`, `syncCheckpoint` and `onRecover`: two
  stubs that log, and a callback only a test sets.
* A failing `json.Marshal` (impossible for these payloads), parse errors, logging.
* Two concurrent calls of `Stop`, which could close `shutdownCh` twice: nothing
  in the repository makes them.
