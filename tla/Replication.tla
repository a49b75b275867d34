----------------------------- MODULE Replication -----------------------------
(***************************************************************************)
(* Files and their replicas: internal/replication (manager.go, storage.go) *)
(* and the handlers of cmd/node/main.go that call it.  Every node keeps a  *)
(* store of its own.  Handlers and manager calls interleave where they     *)
(* release storeMutex and while they wait for a POST; localStorage has no  *)
(* mutex at all.                                                           *)
(*                                                                         *)
(* Lists of node IDs are sets here: the code keeps them free of duplicates *)
(* and uses their order only to trim one that is too long.                 *)
(***************************************************************************)
EXTENDS Integers, FiniteSets, Sequences

CONSTANTS
  Node,         \* the nodes registered by main; every node knows all of them
  Name,         \* file names
  Content,      \* contents to be written, each in one write
  None,         \* "not in the map"
  Targets,      \* the nodes a write goes to, in this order
  ReplicationFactor,
  Coordinators, \* bound: the nodes that clients write to
  Keepers,      \* bound: the nodes that repair and synchronise others
  OneByOne,     \* do clients wait for a write to end before the next?
  Fallible,     \* bound: the nodes that may restart
  MaxRestarts,  \* bound: restarts in all
  MaxFailures,  \* bound: POSTs in all that end in an error without one
  MaxChores     \* bound: repairs and synchronisations in all

ASSUME NodesFinite == IsFiniteSet(Node)
ASSUME TargetsAreNodes == Targets \in Seq(Node)
ASSUME NoneIsNothing ==
  LET contents == [Version : Nat, Content : Content]
  IN  None \notin Node \cup contents /\ None \notin Name \X contents
ASSUME CallersDiffer ==
  Content \cap {"repair", "sync", None} = {} /\ None \notin {"repair", "sync"}
ASSUME BoundsAreNatural ==
  {ReplicationFactor, MaxRestarts, MaxFailures, MaxChores} \subseteq Nat
ASSUME PartsAreNodes == Coordinators \cup Keepers \cup Fallible \subseteq Node
ASSUME SwitchIsBoolean == OneByOne \in BOOLEAN

VARIABLES
  fileStore, replicaMap, nodeFileMap, localStorage,  \* of each node
  writes,    \* the write of each content
  chores,    \* ReplicateFilesFromFailedNode and SyncNodeFromCheckpoint
  posts,     \* /replicate and /checkpoint requests
  restarted, \* history: the nodes that have lost their memory
  restarts, failures, begun  \* counters for the bounds

storeVars == <<fileStore, replicaMap, nodeFileMap>>
countVars == <<restarted, restarts, failures, begun>>
vars == <<storeVars, localStorage, writes, chores, posts, countVars>>

-----------------------------------------------------------------------------
File  == [Version : Nat \ {0}, Content : Content]
Chore == {"repair", "sync"}

Files(i) == {<<f, fileStore[i][f]>> : f \in {g \in Name : fileStore[i][g] # None}}

NoWrite == [stage |-> "unborn", at |-> None, name |-> None, file |-> None,
            todo |-> << >>, latest |-> None]
NoChore == [stage |-> "idle", at |-> None, node |-> None, names |-> {},
            name |-> None, files |-> {}, todo |-> {}, replicas |-> {}, to |-> None]

Init ==
  /\ fileStore    = [i \in Node |-> [f \in Name |-> None]]
  /\ replicaMap   = [i \in Node |-> [f \in Name |-> {}]]
  /\ nodeFileMap  = [i \in Node |-> [n \in Node |-> {}]]
  /\ localStorage = [i \in Node |-> [f \in Name |-> None]]
  /\ writes = [c \in Content |-> NoWrite]
  /\ chores = [k \in Chore |-> NoChore]
  /\ posts = {} /\ restarted = {}
  /\ restarts = 0 /\ failures = 0 /\ begun = 0

-----------------------------------------------------------------------------
(* storage.go *)

(* SaveFile *)
SaveFile(i, f, file, nodes) ==
  /\ fileStore'   = [fileStore EXCEPT ![i][f] = file]
  /\ replicaMap'  = [replicaMap EXCEPT ![i][f] = nodes]
  /\ nodeFileMap' = [nodeFileMap EXCEPT ![i] =
       [n \in Node |-> IF n \in nodes THEN @[n] \cup {f} ELSE @[n]]]

(* Mutant: an older version is accepted too *)
AcceptsAnything(file, current) == TRUE

(* Mutant: only what is not there yet is accepted *)
AcceptsFirst(file, current) == current = None

Accepts(file, current) == current = None \/ file.Version >= current.Version

(* readHandler: what a client reads of f at node i *)
ReadHandler(i, f) ==
  IF localStorage[i][f] # None THEN localStorage[i][f] ELSE fileStore[i][f]

(* SaveReplicaOnNode, on the node itself *)
SaveReplicaOnNode(i, f, file) ==
  /\ fileStore' = IF Accepts(file, fileStore[i][f])
                    THEN [fileStore EXCEPT ![i][f] = file] ELSE fileStore
  /\ replicaMap'  = [replicaMap EXCEPT ![i][f] = @ \cup {i}]
  /\ nodeFileMap' = [nodeFileMap EXCEPT ![i][i] = @ \cup {f}]

RemoveNodeFromAllReplicaMaps(i, n) ==
  /\ replicaMap'  = [replicaMap EXCEPT ![i] = [f \in Name |-> @[f] \ {n}]]
  /\ nodeFileMap' = [nodeFileMap EXCEPT ![i][n] = {}]
  /\ UNCHANGED fileStore

(* Mutant: the old references to the file are cleaned, none are added *)
UpdateOnlyCleaning(i, f, nodes) ==
  /\ replicaMap'  = [replicaMap EXCEPT ![i][f] = nodes]
  /\ nodeFileMap' = [nodeFileMap EXCEPT ![i] = [n \in Node |-> @[n] \ {f}]]
  /\ UNCHANGED fileStore

UpdateReplicaNodes(i, f, nodes) ==
  /\ replicaMap'  = [replicaMap EXCEPT ![i][f] = nodes]
  /\ nodeFileMap' = [nodeFileMap EXCEPT ![i] =
       [n \in Node |-> IF n \in nodes THEN @[n] \cup {f} ELSE @[n] \ {f}]]
  /\ UNCHANGED fileStore

-----------------------------------------------------------------------------
(* POST requests.  The handler stores each file in localStorage first and  *)
(* in the store afterwards.                                                *)

Post(by, to, files) == [by |-> by, to |-> to, todo |-> files, half |-> None]

(* replicateHandler, checkpointHandler: localStorage[name] = file *)
StoreLocally(p, e) ==
  /\ p.half = None /\ e \in p.todo
  /\ localStorage' = [localStorage EXCEPT ![p.to][e[1]] = e[2]]
  /\ posts' = (posts \ {p}) \cup {[p EXCEPT !.todo = @ \ {e}, !.half = e]}
  /\ UNCHANGED <<storeVars, writes, chores, countVars>>

(* A request that nobody waits for ends with its handler. *)
SaveReplica(p) ==
  /\ p.half # None
  /\ SaveReplicaOnNode(p.to, p.half[1], p.half[2])
  /\ posts' = (posts \ {p}) \cup
       IF p.by = None /\ p.todo = {} THEN {} ELSE {[p EXCEPT !.half = None]}
  /\ UNCHANGED <<localStorage, writes, chores, countVars>>

(* The handler of p has replied. *)
Answers(p, by) == p.by = by /\ p.todo = {} /\ p.half = None

(* A caller's POST of the files sent ends in an error: its request never   *)
(* arrived, or will be handled to its end, or has been.  A node's requests *)
(* to itself do not fail.                                                  *)
GiveUp(by, at, sent) ==
  \/ /\ \A p \in posts : p.by # by   \* the node it was sent to has restarted
     /\ UNCHANGED <<posts, failures>>
  \/ \E p \in posts :
       /\ p.by = by /\ p.to # at
       /\ failures < MaxFailures /\ failures' = failures + 1
       /\ \/ p.half = None /\ p.todo \in {{}, sent} /\ posts' = posts \ {p}
          \/ /\ ~Answers(p, by)
             /\ posts' = (posts \ {p}) \cup {[p EXCEPT !.by = None]}

-----------------------------------------------------------------------------
(* writeHandler and ReplicateFile *)

Ended(c) == writes[c].stage \in {"unborn", "acknowledged", "failed"}

(* Mutants: the version is not counted on; it starts at 0 *)
SameVersion(i, f) == IF fileStore[i][f] = None THEN 1 ELSE fileStore[i][f].Version
FromZero(i, f) == IF fileStore[i][f] = None THEN 0 ELSE fileStore[i][f].Version + 1

NextVersion(i, f) ==
  IF fileStore[i][f] = None THEN 1 ELSE fileStore[i][f].Version + 1

BeginWrite(i, f, c) ==
  /\ i \in Coordinators /\ writes[c] = NoWrite
  /\ OneByOne => \A d \in Content : Ended(d)
  /\ writes' = [writes EXCEPT ![c] =
       [stage |-> "sending", at |-> i, name |-> f,
        file |-> [Version |-> NextVersion(i, f), Content |-> c],
        todo |-> IF Len(Targets) > ReplicationFactor
                   THEN SubSeq(Targets, 1, ReplicationFactor) ELSE Targets,
        latest |-> None]]
  /\ UNCHANGED <<storeVars, localStorage, chores, posts, countVars>>

SendWrite(c) ==
  LET w == writes[c] IN
  /\ w.stage = "sending" /\ w.todo # << >>
  /\ posts' = posts \cup {Post(c, Head(w.todo), {<<w.name, w.file>>})}
  /\ writes' = [writes EXCEPT ![c].stage = "waiting"]
  /\ UNCHANGED <<storeVars, localStorage, chores, countVars>>

WriteReceived(c) ==
  /\ writes[c].stage = "waiting"
  /\ \E p \in posts : Answers(p, c) /\ posts' = posts \ {p}
  /\ writes' = [writes EXCEPT ![c].stage = "sending", ![c].todo = Tail(@)]
  /\ UNCHANGED <<storeVars, localStorage, chores, countVars>>

(* Mutant: a target that cannot be reached is passed over *)
SkipTarget(c) ==
  /\ writes[c].stage = "waiting"
  /\ GiveUp(c, writes[c].at, {<<writes[c].name, writes[c].file>>})
  /\ writes' = [writes EXCEPT ![c].stage = "sending", ![c].todo = Tail(@)]
  /\ UNCHANGED <<storeVars, localStorage, chores, restarted, restarts, begun>>

(* The first error ends the write; what has been sent stays. *)
WriteFails(c) ==
  /\ writes[c].stage = "waiting"
  /\ GiveUp(c, writes[c].at, {<<writes[c].name, writes[c].file>>})
  /\ writes' = [writes EXCEPT ![c].stage = "failed"]
  /\ UNCHANGED <<storeVars, localStorage, chores, restarted, restarts, begun>>

WrittenTo == {Targets[k] : k \in {k \in DOMAIN Targets : k <= ReplicationFactor}}

SaveWrite(c) ==
  LET w == writes[c] IN
  /\ w.stage = "sending" /\ w.todo = << >>
  /\ SaveFile(w.at, w.name, w.file, WrittenTo)
  /\ writes' = [writes EXCEPT ![c].stage = "saved"]
  /\ UNCHANGED <<localStorage, chores, posts, countVars>>

(* writeHandler: latest := GetFile(name) *)
ReadLatest(c) ==
  LET w == writes[c] IN
  /\ w.stage = "saved"
  /\ writes' = [writes EXCEPT ![c].stage = "read",
                              ![c].latest = fileStore[w.at][w.name]]
  /\ UNCHANGED <<storeVars, localStorage, chores, posts, countVars>>

(* localStorage[name] = latest, and the client is answered. *)
Acknowledge(c) ==
  LET w == writes[c] IN
  /\ w.stage = "read"
  /\ localStorage' = [localStorage EXCEPT ![w.at][w.name] = w.latest]
  /\ writes' = [writes EXCEPT ![c].stage = "acknowledged"]
  /\ UNCHANGED <<storeVars, chores, posts, countVars>>

-----------------------------------------------------------------------------
(* ReplicateFilesFromFailedNode and SyncNodeFromCheckpoint *)

Set(k, chore) == chores' = [chores EXCEPT ![k] = chore]

Begin(k, i, n) == /\ i \in Keepers /\ i # n /\ chores[k] = NoChore
                  /\ begun < MaxChores /\ begun' = begun + 1

BeginRepair(i, n) ==
  /\ Begin("repair", i, n)
  /\ Set("repair", [NoChore EXCEPT !.stage = "removing", !.at = i, !.node = n,
                                   !.names = nodeFileMap[i][n]])
  /\ UNCHANGED <<storeVars, localStorage, writes, posts, restarted, restarts, failures>>

RemoveFailed ==
  LET r == chores["repair"] IN
  /\ r.stage = "removing"
  /\ RemoveNodeFromAllReplicaMaps(r.at, r.node)
  /\ Set("repair", [r EXCEPT !.stage = "choosing"])
  /\ UNCHANGED <<localStorage, writes, posts, countVars>>

(* The whole store goes to the node that has come back. *)
BeginSync(i, n) ==
  /\ Begin("sync", i, n)
  /\ posts' = posts \cup {Post("sync", n, Files(i))}
  /\ Set("sync", [NoChore EXCEPT !.stage = "restoring", !.at = i, !.node = n,
                                 !.files = Files(i),
                                 !.names = {e[1] : e \in Files(i)}])
  /\ UNCHANGED <<storeVars, localStorage, writes, restarted, restarts, failures>>

Restored ==
  LET s == chores["sync"] IN
  /\ s.stage = "restoring"
  /\ \E p \in posts : Answers(p, "sync") /\ posts' = posts \ {p}
  /\ Set("sync", [s EXCEPT !.stage = "choosing"])
  /\ UNCHANGED <<storeVars, localStorage, writes, countVars>>

RestoreFails ==
  LET s == chores["sync"] IN
  /\ s.stage = "restoring"
  /\ GiveUp("sync", s.at, s.files)
  /\ Set("sync", NoChore)
  /\ UNCHANGED <<storeVars, localStorage, writes, restarted, restarts, begun>>

(* The next file: a repair reads it now, a synchronisation has read it.    *)
ChooseFile(k) ==
  LET j == chores[k] IN
  /\ j.stage = "choosing"
  /\ \E f \in j.names :
       Set(k, [j EXCEPT !.stage = "listing", !.name = f, !.names = @ \ {f},
                        !.files = IF k = "repair"
                                    THEN {<<f, fileStore[j.at][f]>>} ELSE @])
  /\ UNCHANGED <<storeVars, localStorage, writes, posts, countVars>>

(* GetReplicaNodes *)
ListReplicas(k) ==
  LET j == chores[k] IN
  /\ j.stage = "listing"
  /\ Set(k, [j EXCEPT !.stage = "copying", !.replicas = replicaMap[j.at][j.name],
                      !.todo = IF k = "repair" THEN Node \ {j.node} ELSE {j.node}])
  /\ UNCHANGED <<storeVars, localStorage, writes, posts, countVars>>

Wanted(j) == IF Cardinality(j.replicas) < ReplicationFactor
               THEN j.todo \ j.replicas ELSE {}

(* The file being copied *)
Copy(j) == {e \in j.files : e[1] = j.name}

SendCopy(k) ==
  LET j == chores[k] IN
  /\ j.stage = "copying"
  /\ \E n \in Wanted(j) :
       /\ posts' = posts \cup {Post(k, n, Copy(j))}
       /\ Set(k, [j EXCEPT !.stage = "waiting", !.to = n, !.todo = @ \ {n}])
  /\ UNCHANGED <<storeVars, localStorage, writes, countVars>>

CopyReceived(k) ==
  LET j == chores[k] IN
  /\ j.stage = "waiting"
  /\ \E p \in posts : Answers(p, k) /\ posts' = posts \ {p}
  /\ Set(k, [j EXCEPT !.stage = "copying", !.replicas = @ \cup {j.to}])
  /\ UNCHANGED <<storeVars, localStorage, writes, countVars>>

(* A copy that fails is left out of the list. *)
CopyFails(k) ==
  LET j == chores[k] IN
  /\ j.stage = "waiting"
  /\ GiveUp(k, j.at, Copy(j))
  /\ Set(k, [j EXCEPT !.stage = "copying"])
  /\ UNCHANGED <<storeVars, localStorage, writes, restarted, restarts, begun>>

(* Only a synchronisation trims a list that is too long. *)
Trimmed(k, nodes) ==
  IF k = "sync" /\ Cardinality(nodes) > ReplicationFactor
    THEN {T \in SUBSET nodes : Cardinality(T) = ReplicationFactor}
    ELSE {nodes}

RecordReplicas(k) ==
  LET j == chores[k] IN
  /\ j.stage = "copying" /\ Wanted(j) = {}
  /\ \E nodes \in Trimmed(k, j.replicas) : UpdateReplicaNodes(j.at, j.name, nodes)
  /\ Set(k, [j EXCEPT !.stage = "choosing", !.name = None, !.todo = {},
                      !.replicas = {}, !.to = None])
  /\ UNCHANGED <<localStorage, writes, posts, countVars>>

FinishChore(k) ==
  /\ chores[k].stage = "choosing" /\ chores[k].names = {}
  /\ Set(k, NoChore)
  /\ UNCHANGED <<storeVars, localStorage, writes, posts, countVars>>

-----------------------------------------------------------------------------
(* The process dies and comes back: everything was in memory.              *)
Restart(i) ==
  LET mine == {c \in Content : writes[c].at = i /\ ~Ended(c)} \cup
              {k \in Chore : chores[k].at = i}
  IN
  /\ i \in Fallible /\ restarts < MaxRestarts
  /\ restarts' = restarts + 1 /\ restarted' = restarted \cup {i}
  /\ fileStore'    = [fileStore EXCEPT ![i] = [f \in Name |-> None]]
  /\ localStorage' = [localStorage EXCEPT ![i] = [f \in Name |-> None]]
  /\ replicaMap'   = [replicaMap EXCEPT ![i] = [f \in Name |-> {}]]
  /\ nodeFileMap'  = [nodeFileMap EXCEPT ![i] = [n \in Node |-> {}]]
  /\ writes' = [c \in Content |-> IF c \in mine
                  THEN [writes[c] EXCEPT !.stage = "failed"] ELSE writes[c]]
  /\ chores' = [k \in Chore |-> IF k \in mine THEN NoChore ELSE chores[k]]
  /\ posts' = {IF p.by \in mine THEN [p EXCEPT !.by = None] ELSE p :
                 p \in {q \in posts : q.to # i /\ ~(q.by \in mine /\ Answers(q, q.by))}}
  /\ UNCHANGED <<failures, begun>>

Writing(c) == \/ SendWrite(c) \/ WriteReceived(c) \/ WriteFails(c)
              \/ SaveWrite(c) \/ ReadLatest(c) \/ Acknowledge(c)
Upkeep(k) == \/ ChooseFile(k) \/ ListReplicas(k) \/ SendCopy(k) \/ CopyReceived(k)
             \/ CopyFails(k) \/ RecordReplicas(k) \/ FinishChore(k)

Next ==
  \/ \E i \in Node, f \in Name, c \in Content : BeginWrite(i, f, c)
  \/ \E c \in Content : Writing(c)
  \/ \E p \in posts : SaveReplica(p) \/ \E e \in p.todo : StoreLocally(p, e)
  \/ \E i, n \in Node : BeginRepair(i, n) \/ BeginSync(i, n)
  \/ RemoveFailed \/ Restored \/ RestoreFails
  \/ \E k \in Chore : Upkeep(k)
  \/ \E i \in Node : Restart(i)

Spec == Init /\ [][Next]_vars

-----------------------------------------------------------------------------
(* Stores, maps and what is on its way keep their shape; versions begin    *)
(* with 1.                                                                 *)
TypeOK ==
  /\ fileStore \in [Node -> [Name -> File \cup {None}]]
  /\ localStorage \in [Node -> [Name -> File \cup {None}]]
  /\ replicaMap \in [Node -> [Name -> SUBSET Node]]
  /\ nodeFileMap \in [Node -> [Node -> SUBSET Name]]
  /\ \A p \in posts : p.to \in Node /\ p.todo \subseteq Name \X File
                      /\ p.half \in (Name \X File) \cup {None}
  /\ \A c \in Content : writes[c] # NoWrite => writes[c].file \in File
  /\ \A k \in Chore : /\ chores[k].files \subseteq Name \X File
                      /\ chores[k].names \subseteq Name
                      /\ chores[k].replicas \cup chores[k].todo \subseteq Node

(* A file that lists a node is among the files a repair of that node will  *)
(* look at (GetFilesOnNode), however repairs, writes and late copies cross.*)
RepairFindsItsFiles ==
  \A i, n \in Node, f \in Name :
    n \in replicaMap[i][f] => f \in nodeFileMap[i][n]

(* storage.go:7: the nodes on a file's list are "storing replicas": no     *)
(* failed or half-done POST puts a node there.                             *)
ListedNodesStore ==
  \A i \in Node, f \in Name :
    \A n \in replicaMap[i][f] \ restarted :
      fileStore[n][f] # None /\ localStorage[n][f] # None

(* What a client was told is written stays written: however late requests  *)
(* and copies of older versions arrive, no target's store goes back behind *)
(* it.                                                                     *)
AcknowledgedStays ==
  \A c \in Content :
    writes[c].stage = "acknowledged" =>
      \A n \in WrittenTo \ restarted :
        LET stored == fileStore[n][writes[c].name] IN
        stored # None /\ stored.Version >= writes[c].file.Version

(* What was written can be read back where it was written, or something    *)
(* newer, although the handlers overwrite localStorage, which is read      *)
(* first, whatever the version: so long as only the coordinator repairs    *)
(* and synchronises.  A failed write may leave an older file elsewhere,    *)
(* and another keeper could send it to the coordinator.                    *)
ReadsBack ==
  \A c \in Content :
    LET w == writes[c]
        read == ReadHandler(w.at, w.name)
    IN w.stage = "acknowledged" /\ w.at \notin restarted =>
         read # None /\ (read = w.file \/ read.Version > w.file.Version)

(* Nothing newer is read at a node than its store holds, and would send on *)
(* in a repair, unless a handler there is between its two steps.           *)
ReadsAreStored ==
  \A i \in Node, f \in Name :
    LET read == ReadHandler(i, f) IN
    read # None /\ (\A p \in posts : p.to = i => p.half = None) =>
      fileStore[i][f] # None /\ fileStore[i][f].Version >= read.Version

(* README.md:4 of the repository promises "strong consistency": two nodes  *)
(* that hold the same version of a file hold the same content, for the     *)
(* version is all that SaveReplicaOnNode compares.                         *)
VersionsIdentifyContent ==
  \A i, n \in Node, f \in Name :
    (fileStore[i][f] # None /\ fileStore[n][f] # None
       /\ fileStore[i][f].Version = fileStore[n][f].Version)
      => fileStore[i][f] = fileStore[n][f]
=============================================================================
