-------------------------- MODULE ReplicationProofs --------------------------
(***************************************************************************)
(* Theorems about Replication, for any nodes, files, writes and limits:    *)
(* its types, that a repair finds its files, and that the nodes on a       *)
(* file's list store the file.                                             *)
(***************************************************************************)
EXTENDS Replication, TLAPS

USE TargetsAreNodes, NoneIsNothing, CallersDiffer, BoundsAreNatural, PartsAreNodes
USE DEF storeVars, countVars

-----------------------------------------------------------------------------
(* The inductive invariant.  A file that is listed somewhere in a node's   *)
(* maps is in its store, and a repair or synchronisation under way works   *)
(* on files that are in the store of its node: GetFile never fails there.  *)
Entry == Name \X File

StoresTyped ==
  /\ fileStore \in [Node -> [Name -> File \cup {None}]]
  /\ replicaMap \in [Node -> [Name -> SUBSET Node]]
  /\ nodeFileMap \in [Node -> [Node -> SUBSET Name]]

Catalogued ==
  \A i, n \in Node : \A f \in nodeFileMap[i][n] : fileStore[i][f] # None

StoreInv == StoresTyped /\ RepairFindsItsFiles /\ Catalogued

WriteType ==
  [stage : {"unborn", "sending", "waiting", "saved", "read", "acknowledged", "failed"},
   at : Node \cup {None}, name : Name \cup {None}, file : File \cup {None},
   todo : Seq(Node), latest : File \cup {None}]

WriteOK(w) ==
  /\ w \in WriteType
  /\ w.stage = "unborn" => w = NoWrite
  /\ w.stage # "unborn" => w.at \in Node /\ w.name \in Name /\ w.file \in File
  /\ w.stage = "waiting" => w.todo # << >>

ChoreType ==
  [stage : {"idle", "removing", "restoring", "choosing", "listing", "copying", "waiting"},
   at : Node \cup {None}, node : Node \cup {None}, names : SUBSET Name,
   name : Name \cup {None}, files : SUBSET Entry, todo : SUBSET Node,
   replicas : SUBSET Node, to : Node \cup {None}]

ChoreOK(j) ==
  /\ j \in ChoreType
  /\ j.stage # "idle" =>
       /\ j.at \in Node /\ j.node \in Node
       /\ \A f \in j.names : fileStore[j.at][f] # None
  /\ j.stage \in {"listing", "copying", "waiting"} =>
       j.name \in Name /\ fileStore[j.at][j.name] # None
  /\ j.stage = "waiting" => j.to \in Node

PostType == [by : Content \cup Chore \cup {None}, to : Node,
             todo : SUBSET Entry, half : Entry \cup {None}]

JobsInv ==
  /\ localStorage \in [Node -> [Name -> File \cup {None}]]
  /\ writes \in [Content -> WriteType]
  /\ \A c \in Content : WriteOK(writes[c])
  /\ chores \in [Chore -> ChoreType]
  /\ \A k \in Chore : ChoreOK(chores[k])
  /\ posts \subseteq PostType

IInv == StoreInv /\ JobsInv

(* No node's store loses a file in this step. *)
FilesStay == \A i \in Node, f \in Name :
               fileStore[i][f] # None => fileStore'[i][f] # None

LEMMA InvariantImplies == IInv => TypeOK /\ RepairFindsItsFiles
BY DEF IInv, StoreInv, StoresTyped, JobsInv, WriteOK, ChoreType, PostType, Entry, TypeOK

LEMMA InitEstablishes == Init => IInv
<1> SUFFICES ASSUME Init PROVE IInv
  OBVIOUS
<1>1. StoreInv
  BY DEF Init, StoreInv, StoresTyped, RepairFindsItsFiles, Catalogued
<1>2. WriteOK(NoWrite)
  BY DEF WriteOK, WriteType, NoWrite
<1>3. ChoreOK(NoChore)
  BY DEF ChoreOK, ChoreType, NoChore
<1> QED
  BY <1>1, <1>2, <1>3 DEF Init, IInv, JobsInv, WriteOK, ChoreOK

-----------------------------------------------------------------------------
(* The operations of storage.go *)

LEMMA FilesAreSomething == None \notin File
BY DEF File

LEMMA SaveFileKeeps ==
  ASSUME StoreInv, NEW i \in Node, NEW f \in Name, NEW file \in File,
         NEW nodes \in SUBSET Node, SaveFile(i, f, file, nodes)
  PROVE  StoreInv' /\ FilesStay
BY FilesAreSomething
DEF StoreInv, StoresTyped, RepairFindsItsFiles, Catalogued, SaveFile, FilesStay

LEMMA SaveReplicaKeeps ==
  ASSUME StoreInv, NEW i \in Node, NEW f \in Name, NEW file \in File,
         SaveReplicaOnNode(i, f, file)
  PROVE  StoreInv' /\ FilesStay
<1> USE FilesAreSomething
<1> USE DEF StoreInv, StoresTyped, SaveReplicaOnNode
<1>1. StoresTyped'
  OBVIOUS
<1>2. FilesStay /\ fileStore'[i][f] # None
  BY DEF FilesStay, Accepts
<1>3. RepairFindsItsFiles'
  BY DEF RepairFindsItsFiles
<1>4. Catalogued'
  BY <1>2 DEF Catalogued, FilesStay
<1> QED
  BY <1>1, <1>2, <1>3, <1>4

LEMMA RemoveNodeKeeps ==
  ASSUME StoreInv, NEW i \in Node, NEW n \in Node, RemoveNodeFromAllReplicaMaps(i, n)
  PROVE  StoreInv' /\ FilesStay
BY DEF StoreInv, StoresTyped, RepairFindsItsFiles, Catalogued,
       RemoveNodeFromAllReplicaMaps, FilesStay

LEMMA UpdateReplicasKeeps ==
  ASSUME StoreInv, NEW i \in Node, NEW f \in Name, NEW nodes \in SUBSET Node,
         fileStore[i][f] # None, UpdateReplicaNodes(i, f, nodes)
  PROVE  StoreInv' /\ FilesStay
BY DEF StoreInv, StoresTyped, RepairFindsItsFiles, Catalogued,
       UpdateReplicaNodes, FilesStay

LEMMA StoresUntouched ==
  ASSUME StoreInv, UNCHANGED storeVars
  PROVE  StoreInv' /\ FilesStay
BY DEF StoreInv, StoresTyped, RepairFindsItsFiles, Catalogued, FilesStay

-----------------------------------------------------------------------------
(* Writes, chores and posts *)

WritesOK == writes \in [Content -> WriteType] /\ \A c \in Content : WriteOK(writes[c])
ChoresOK == chores \in [Chore -> ChoreType] /\ \A k \in Chore : ChoreOK(chores[k])

LEMMA OneWriteChanges ==
  ASSUME JobsInv, NEW c \in Content, NEW w, WriteOK(w),
         writes' = [writes EXCEPT ![c] = w]
  PROVE  WritesOK'
BY DEF JobsInv, WriteOK, WritesOK

LEMMA ChoresUntouched ==
  ASSUME JobsInv, FilesStay, UNCHANGED chores
  PROVE  ChoresOK'
BY DEF JobsInv, ChoreOK, ChoreType, ChoresOK, FilesStay

LEMMA OneChoreChanges ==
  ASSUME JobsInv, FilesStay, NEW k \in Chore, NEW j, ChoreOK(j), Set(k, j)
  PROVE  ChoresOK'
<1>1. chores' = [chores EXCEPT ![k] = j]
  BY DEF Set
<1>2. chores' \in [Chore -> ChoreType]
  BY <1>1 DEF JobsInv, ChoreOK
<1>3. ASSUME NEW q \in Chore PROVE ChoreOK(chores[q])'
  <2>1. ChoreOK(chores'[q])
    BY <1>1 DEF JobsInv
  <2> QED
    BY <2>1 DEF ChoreOK, ChoreType, FilesStay
<1> QED
  BY <1>2, <1>3 DEF ChoresOK

LEMMA NoChoreIsFine == ChoreOK(NoChore)
BY DEF ChoreOK, ChoreType, NoChore

LEMMA FilesAreEntries ==
  ASSUME StoreInv, NEW i \in Node
  PROVE  Files(i) \subseteq Entry /\ \A e \in Files(i) : e[1] \in Name /\ fileStore[i][e[1]] # None
BY DEF StoreInv, StoresTyped, Files, Entry

LEMMA GivingUpKeepsPosts ==
  ASSUME posts \subseteq PostType, NEW by, NEW at, NEW sent, GiveUp(by, at, sent)
  PROVE  posts' \subseteq PostType
<1>1. ASSUME NEW p \in posts PROVE [p EXCEPT !.by = None] \in PostType
  BY DEF PostType
<1> QED
  BY <1>1 DEF GiveUp

-----------------------------------------------------------------------------
(* Each kind of step *)

LEMMA HandlersKeep ==
  ASSUME IInv, NEW p \in posts,
         SaveReplica(p) \/ \E e \in p.todo : StoreLocally(p, e)
  PROVE  IInv' /\ FilesStay
<1> USE DEF IInv
<1>0. p \in PostType /\ WritesOK
  BY DEF JobsInv, WritesOK
<1>1. CASE SaveReplica(p)
  <2>1. p.half[1] \in Name /\ p.half[2] \in File /\ p.to \in Node
    BY <1>0, <1>1 DEF SaveReplica, PostType, Entry
  <2>2. StoreInv' /\ FilesStay
    BY <1>1, <2>1, SaveReplicaKeeps DEF SaveReplica
  <2>3. ChoresOK'
    BY <1>1, <2>2, ChoresUntouched DEF SaveReplica
  <2>4. posts' \subseteq PostType
    <3>1. [p EXCEPT !.half = None] \in PostType
      BY <1>0 DEF PostType
    <3> QED
      BY <1>1, <3>1 DEF SaveReplica, JobsInv
  <2> QED
    BY <1>0, <1>1, <2>2, <2>3, <2>4 DEF SaveReplica, JobsInv, WritesOK, ChoresOK
<1>2. ASSUME NEW e \in p.todo, StoreLocally(p, e) PROVE IInv' /\ FilesStay
  <2>1. e \in Entry /\ e[1] \in Name /\ e[2] \in File /\ p.to \in Node
    BY <1>0 DEF PostType, Entry
  <2>2. StoreInv' /\ FilesStay
    BY <1>2, StoresUntouched DEF StoreLocally
  <2>3. ChoresOK'
    BY <1>2, <2>2, ChoresUntouched DEF StoreLocally
  <2>4. posts' \subseteq PostType
    <3>1. [p EXCEPT !.todo = @ \ {e}, !.half = e] \in PostType
      BY <1>0, <2>1 DEF PostType
    <3> QED
      BY <1>2, <3>1 DEF StoreLocally, JobsInv
  <2>5. localStorage' \in [Node -> [Name -> File \cup {None}]]
    BY <1>2, <2>1 DEF StoreLocally, JobsInv
  <2> QED
    BY <1>0, <1>2, <2>2, <2>3, <2>4, <2>5 DEF StoreLocally, JobsInv, WritesOK, ChoresOK
<1> QED
  BY <1>1, <1>2

LEMMA BeginWriteKeeps ==
  ASSUME IInv, NEW i \in Node, NEW f \in Name, NEW c \in Content, BeginWrite(i, f, c)
  PROVE  IInv' /\ FilesStay
<1> USE DEF IInv
<1>1. StoreInv' /\ FilesStay
  BY StoresUntouched DEF BeginWrite
<1>2. ChoresOK'
  BY <1>1, ChoresUntouched DEF BeginWrite
<1>3. NextVersion(i, f) \in Nat \ {0}
  BY DEF NextVersion, StoreInv, StoresTyped, File
<1>4. (IF Len(Targets) > ReplicationFactor
         THEN SubSeq(Targets, 1, ReplicationFactor) ELSE Targets) \in Seq(Node)
  OBVIOUS
<1>5. WritesOK'
  <2>1. PICK w : /\ writes' = [writes EXCEPT ![c] = w]
                 /\ w = [stage |-> "sending", at |-> i, name |-> f,
                         file |-> [Version |-> NextVersion(i, f), Content |-> c],
                         todo |-> IF Len(Targets) > ReplicationFactor
                                    THEN SubSeq(Targets, 1, ReplicationFactor)
                                    ELSE Targets,
                         latest |-> None]
    BY DEF BeginWrite
  <2>2. [Version |-> NextVersion(i, f), Content |-> c] \in File
    BY <1>3 DEF File
  <2>3. WriteOK(w)
    BY <1>4, <2>1, <2>2 DEF WriteOK, WriteType
  <2> QED
    BY <2>1, <2>3, OneWriteChanges
<1> QED
  BY <1>1, <1>2, <1>5 DEF BeginWrite, JobsInv, WritesOK, ChoresOK

LEMMA WritingKeeps ==
  ASSUME IInv, NEW c \in Content, Writing(c)
  PROVE  IInv' /\ FilesStay
<1> DEFINE w == writes[c]
<1> USE DEF IInv
<1>0. WriteOK(w) /\ w \in WriteType
  BY DEF JobsInv, WriteOK
<1>1. CASE SendWrite(c)
  <2>1. StoreInv' /\ FilesStay /\ ChoresOK'
    BY <1>1, StoresUntouched, ChoresUntouched DEF SendWrite
  <2>2. WriteOK([w EXCEPT !.stage = "waiting"])
    BY <1>0, <1>1 DEF SendWrite, WriteOK, WriteType
  <2>3. WritesOK'
    BY <1>1, <2>2, OneWriteChanges DEF SendWrite
  <2>4. Post(c, Head(w.todo), {<<w.name, w.file>>}) \in PostType
    <3>1. Head(w.todo) \in Node /\ <<w.name, w.file>> \in Entry
      BY <1>0, <1>1 DEF SendWrite, WriteOK, WriteType, Entry
    <3> QED
      BY <3>1 DEF Post, PostType
  <2> QED
    BY <1>1, <2>1, <2>3, <2>4 DEF SendWrite, JobsInv, WritesOK, ChoresOK
<1>2. CASE WriteReceived(c)
  <2>1. StoreInv' /\ FilesStay /\ ChoresOK'
    BY <1>2, StoresUntouched, ChoresUntouched DEF WriteReceived
  <2>2. WriteOK([w EXCEPT !.stage = "sending", !.todo = Tail(@)])
    <3>1. Tail(w.todo) \in Seq(Node)
      BY <1>0, <1>2 DEF WriteReceived, WriteOK, WriteType
    <3> QED
      BY <1>0, <1>2, <3>1 DEF WriteReceived, WriteOK, WriteType
  <2>3. WritesOK'
    BY <1>2, <2>2, OneWriteChanges DEF WriteReceived
  <2> QED
    BY <1>2, <2>1, <2>3 DEF WriteReceived, JobsInv, WritesOK, ChoresOK
<1>3. CASE WriteFails(c)
  <2>1. StoreInv' /\ FilesStay /\ ChoresOK'
    BY <1>3, StoresUntouched, ChoresUntouched DEF WriteFails
  <2>2. WriteOK([w EXCEPT !.stage = "failed"])
    BY <1>0, <1>3 DEF WriteFails, WriteOK, WriteType
  <2>3. WritesOK'
    BY <1>3, <2>2, OneWriteChanges DEF WriteFails
  <2>4. posts' \subseteq PostType
    BY <1>3, GivingUpKeepsPosts DEF WriteFails, JobsInv
  <2> QED
    BY <1>3, <2>1, <2>3, <2>4 DEF WriteFails, JobsInv, WritesOK, ChoresOK
<1>4. CASE SaveWrite(c)
  <2>1. WrittenTo \in SUBSET Node
    BY DEF WrittenTo
  <2>2. StoreInv' /\ FilesStay
    BY <1>0, <1>4, <2>1, SaveFileKeeps DEF SaveWrite, WriteOK
  <2>3. ChoresOK'
    BY <1>4, <2>2, ChoresUntouched DEF SaveWrite
  <2>4. WriteOK([w EXCEPT !.stage = "saved"])
    BY <1>0, <1>4 DEF SaveWrite, WriteOK, WriteType
  <2>5. WritesOK'
    BY <1>4, <2>4, OneWriteChanges DEF SaveWrite
  <2> QED
    BY <1>4, <2>2, <2>3, <2>5 DEF SaveWrite, JobsInv, WritesOK, ChoresOK
<1>5. CASE ReadLatest(c)
  <2>1. StoreInv' /\ FilesStay /\ ChoresOK'
    BY <1>5, StoresUntouched, ChoresUntouched DEF ReadLatest
  <2>2. WriteOK([w EXCEPT !.stage = "read", !.latest = fileStore[w.at][w.name]])
    <3>1. fileStore[w.at][w.name] \in File \cup {None}
      BY <1>0, <1>5 DEF ReadLatest, WriteOK, StoreInv, StoresTyped
    <3> QED
      BY <1>0, <1>5, <3>1 DEF ReadLatest, WriteOK, WriteType
  <2>3. WritesOK'
    BY <1>5, <2>2, OneWriteChanges DEF ReadLatest
  <2> QED
    BY <1>5, <2>1, <2>3 DEF ReadLatest, JobsInv, WritesOK, ChoresOK
<1>6. CASE Acknowledge(c)
  <2>1. StoreInv' /\ FilesStay /\ ChoresOK'
    BY <1>6, StoresUntouched, ChoresUntouched DEF Acknowledge
  <2>2. WriteOK([w EXCEPT !.stage = "acknowledged"])
    BY <1>0, <1>6 DEF Acknowledge, WriteOK, WriteType
  <2>3. WritesOK'
    BY <1>6, <2>2, OneWriteChanges DEF Acknowledge
  <2>4. localStorage' \in [Node -> [Name -> File \cup {None}]]
    BY <1>0, <1>6 DEF Acknowledge, WriteType, JobsInv
  <2> QED
    BY <1>6, <2>1, <2>3, <2>4 DEF Acknowledge, JobsInv, WritesOK, ChoresOK
<1> QED
  BY <1>1, <1>2, <1>3, <1>4, <1>5, <1>6 DEF Writing

LEMMA BeginChoreKeeps ==
  ASSUME IInv, NEW i \in Node, NEW n \in Node, BeginRepair(i, n) \/ BeginSync(i, n)
  PROVE  IInv' /\ FilesStay
<1> USE DEF IInv
<1>0. "repair" \in Chore /\ "sync" \in Chore /\ WritesOK
  BY DEF Chore, JobsInv, WritesOK
<1>1. CASE BeginRepair(i, n)
  <2>1. StoreInv' /\ FilesStay
    BY <1>1, StoresUntouched DEF BeginRepair
  <2>2. ChoreOK([NoChore EXCEPT !.stage = "removing", !.at = i, !.node = n,
                                !.names = nodeFileMap[i][n]])
    <3>1. nodeFileMap[i][n] \subseteq Name /\ \A f \in nodeFileMap[i][n] : fileStore[i][f] # None
      BY DEF StoreInv, StoresTyped, Catalogued
    <3> QED
      BY <3>1 DEF ChoreOK, ChoreType, NoChore
  <2>3. ChoresOK'
    BY <1>0, <1>1, <2>1, <2>2, OneChoreChanges DEF BeginRepair
  <2> QED
    BY <1>0, <1>1, <2>1, <2>3 DEF BeginRepair, JobsInv, WritesOK, ChoresOK
<1>2. CASE BeginSync(i, n)
  <2>1. StoreInv' /\ FilesStay
    BY <1>2, StoresUntouched DEF BeginSync
  <2>2. /\ Files(i) \subseteq Entry
        /\ \A f \in {e[1] : e \in Files(i)} : f \in Name /\ fileStore[i][f] # None
    BY FilesAreEntries
  <2>3. ChoreOK([NoChore EXCEPT !.stage = "restoring", !.at = i, !.node = n,
                                !.files = Files(i), !.names = {e[1] : e \in Files(i)}])
    BY <2>2 DEF ChoreOK, ChoreType, NoChore
  <2>4. ChoresOK'
    BY <1>0, <1>2, <2>1, <2>3, OneChoreChanges DEF BeginSync
  <2>5. Post("sync", n, Files(i)) \in PostType
    BY <1>0, <2>2 DEF Post, PostType
  <2> QED
    BY <1>0, <1>2, <2>1, <2>4, <2>5 DEF BeginSync, JobsInv, WritesOK, ChoresOK
<1> QED
  BY <1>1, <1>2

LEMMA RemoveFailedKeeps ==
  ASSUME IInv, RemoveFailed
  PROVE  IInv' /\ FilesStay
<1> DEFINE r == chores["repair"]
<1> USE DEF IInv
<1>0. "repair" \in Chore /\ ChoreOK(r) /\ r.stage = "removing" /\ WritesOK
  BY DEF Chore, JobsInv, WritesOK, RemoveFailed
<1>1. StoreInv' /\ FilesStay
  BY <1>0, RemoveNodeKeeps DEF RemoveFailed, ChoreOK
<1>2. ChoreOK([r EXCEPT !.stage = "choosing"])
  BY <1>0 DEF ChoreOK, ChoreType
<1>3. ChoresOK'
  BY <1>0, <1>1, <1>2, OneChoreChanges DEF RemoveFailed
<1> QED
  BY <1>0, <1>1, <1>3 DEF RemoveFailed, JobsInv, WritesOK, ChoresOK

LEMMA RestoringKeeps ==
  ASSUME IInv, Restored \/ RestoreFails
  PROVE  IInv' /\ FilesStay
<1> DEFINE r == chores["sync"]
<1> USE DEF IInv
<1>0. "sync" \in Chore /\ ChoreOK(r) /\ r.stage = "restoring" /\ WritesOK
  BY DEF Chore, JobsInv, WritesOK, Restored, RestoreFails
<1>1. StoreInv' /\ FilesStay
  BY StoresUntouched DEF Restored, RestoreFails
<1>2. ChoreOK([r EXCEPT !.stage = "choosing"])
  BY <1>0 DEF ChoreOK, ChoreType
<1>3. ChoresOK'
  BY <1>0, <1>1, <1>2, NoChoreIsFine, OneChoreChanges DEF Restored, RestoreFails
<1>4. posts' \subseteq PostType
  BY GivingUpKeepsPosts DEF Restored, RestoreFails, JobsInv
<1> QED
  BY <1>0, <1>1, <1>3, <1>4 DEF Restored, RestoreFails, JobsInv, WritesOK, ChoresOK

LEMMA UpkeepKeeps ==
  ASSUME IInv, NEW k \in Chore, Upkeep(k)
  PROVE  IInv' /\ FilesStay
<1> DEFINE j == chores[k]
<1> USE DEF IInv
<1>0. ChoreOK(j) /\ j \in ChoreType /\ WritesOK
  BY DEF JobsInv, ChoreOK, WritesOK
<1>1. CASE ChooseFile(k)
  <2>1. StoreInv' /\ FilesStay
    BY <1>1, StoresUntouched DEF ChooseFile
  <2>2. PICK f \in j.names :
          Set(k, [j EXCEPT !.stage = "listing", !.name = f, !.names = @ \ {f},
                           !.files = IF k = "repair"
                                       THEN {<<f, fileStore[j.at][f]>>} ELSE @])
    BY <1>1 DEF ChooseFile
  <2>3. j.at \in Node /\ j.node \in Node /\ f \in Name /\ fileStore[j.at][f] # None
    BY <1>0, <1>1 DEF ChooseFile, ChoreOK, ChoreType
  <2>4. <<f, fileStore[j.at][f]>> \in Entry
    BY <2>3 DEF StoreInv, StoresTyped, Entry
  <2>5. ChoreOK([j EXCEPT !.stage = "listing", !.name = f, !.names = @ \ {f},
                          !.files = IF k = "repair"
                                      THEN {<<f, fileStore[j.at][f]>>} ELSE @])
    BY <1>0, <1>1, <2>3, <2>4 DEF ChooseFile, ChoreOK, ChoreType
  <2>6. ChoresOK'
    BY <2>1, <2>2, <2>5, OneChoreChanges
  <2> QED
    BY <1>0, <1>1, <2>1, <2>6 DEF ChooseFile, JobsInv, WritesOK, ChoresOK
<1>2. CASE ListReplicas(k)
  <2>1. StoreInv' /\ FilesStay
    BY <1>2, StoresUntouched DEF ListReplicas
  <2>2. replicaMap[j.at][j.name] \subseteq Node
    BY <1>0, <1>2 DEF ListReplicas, ChoreOK, StoreInv, StoresTyped
  <2>3. (IF k = "repair" THEN Node \ {j.node} ELSE {j.node}) \subseteq Node
    BY <1>0, <1>2 DEF ListReplicas, ChoreOK
  <2>4. ChoreOK([j EXCEPT !.stage = "copying", !.replicas = replicaMap[j.at][j.name],
                    !.todo = IF k = "repair" THEN Node \ {j.node} ELSE {j.node}])
    BY <1>0, <1>2, <2>2, <2>3 DEF ListReplicas, ChoreOK, ChoreType
  <2>5. ChoresOK'
    BY <1>2, <2>1, <2>4, OneChoreChanges DEF ListReplicas
  <2> QED
    BY <1>0, <1>2, <2>1, <2>5 DEF ListReplicas, JobsInv, WritesOK, ChoresOK
<1>3. CASE SendCopy(k)
  <2>1. StoreInv' /\ FilesStay
    BY <1>3, StoresUntouched DEF SendCopy
  <2>2. PICK n \in Wanted(j) :
          /\ posts' = posts \cup {Post(k, n, Copy(j))}
          /\ Set(k, [j EXCEPT !.stage = "waiting", !.to = n, !.todo = @ \ {n}])
    BY <1>3 DEF SendCopy
  <2>3. n \in Node
    BY <1>0 DEF Wanted, ChoreType
  <2>4. ChoreOK([j EXCEPT !.stage = "waiting", !.to = n, !.todo = @ \ {n}])
    BY <1>0, <1>3, <2>3 DEF SendCopy, ChoreOK, ChoreType
  <2>5. ChoresOK'
    BY <2>1, <2>2, <2>4, OneChoreChanges
  <2>6. Post(k, n, Copy(j)) \in PostType
    BY <1>0, <2>3 DEF Copy, Post, PostType, ChoreType
  <2> QED
    BY <1>0, <1>3, <2>1, <2>2, <2>5, <2>6 DEF SendCopy, JobsInv, WritesOK, ChoresOK
<1>4. CASE CopyReceived(k)
  <2>1. StoreInv' /\ FilesStay
    BY <1>4, StoresUntouched DEF CopyReceived
  <2>2. ChoreOK([j EXCEPT !.stage = "copying", !.replicas = @ \cup {j.to}])
    BY <1>0, <1>4 DEF CopyReceived, ChoreOK, ChoreType
  <2>3. ChoresOK'
    BY <1>4, <2>1, <2>2, OneChoreChanges DEF CopyReceived
  <2> QED
    BY <1>0, <1>4, <2>1, <2>3 DEF CopyReceived, JobsInv, WritesOK, ChoresOK
<1>5. CASE CopyFails(k)
  <2>1. StoreInv' /\ FilesStay
    BY <1>5, StoresUntouched DEF CopyFails
  <2>2. ChoreOK([j EXCEPT !.stage = "copying"])
    BY <1>0, <1>5 DEF CopyFails, ChoreOK, ChoreType
  <2>3. ChoresOK'
    BY <1>5, <2>1, <2>2, OneChoreChanges DEF CopyFails
  <2>4. posts' \subseteq PostType
    BY <1>5, GivingUpKeepsPosts DEF CopyFails, JobsInv
  <2> QED
    BY <1>0, <1>5, <2>1, <2>3, <2>4 DEF CopyFails, JobsInv, WritesOK, ChoresOK
<1>6. CASE RecordReplicas(k)
  <2>1. PICK nodes \in Trimmed(k, j.replicas) : UpdateReplicaNodes(j.at, j.name, nodes)
    BY <1>6 DEF RecordReplicas
  <2>2. nodes \in SUBSET Node
    BY <1>0 DEF Trimmed, ChoreType
  <2>3. StoreInv' /\ FilesStay
    BY <1>0, <1>6, <2>1, <2>2, UpdateReplicasKeeps DEF RecordReplicas, ChoreOK
  <2>4. ChoreOK([j EXCEPT !.stage = "choosing", !.name = None, !.todo = {},
                          !.replicas = {}, !.to = None])
    BY <1>0, <1>6 DEF RecordReplicas, ChoreOK, ChoreType
  <2>5. ChoresOK'
    BY <1>6, <2>3, <2>4, OneChoreChanges DEF RecordReplicas
  <2> QED
    BY <1>0, <1>6, <2>3, <2>5 DEF RecordReplicas, JobsInv, WritesOK, ChoresOK
<1>7. CASE FinishChore(k)
  <2>1. StoreInv' /\ FilesStay
    BY <1>7, StoresUntouched DEF FinishChore
  <2>2. ChoresOK'
    BY <1>7, <2>1, NoChoreIsFine, OneChoreChanges DEF FinishChore
  <2> QED
    BY <1>0, <1>7, <2>1, <2>2 DEF FinishChore, JobsInv, WritesOK, ChoresOK
<1> QED
  BY <1>1, <1>2, <1>3, <1>4, <1>5, <1>6, <1>7 DEF Upkeep

(* A restart empties the stores of i and ends what i was doing, so what    *)
(* goes on goes on at other nodes.                                         *)
LEMMA RestartKeeps ==
  ASSUME IInv, NEW i \in Node, Restart(i)
  PROVE  IInv'
<1> DEFINE mine == {c \in Content : writes[c].at = i /\ ~Ended(c)} \cup
                   {k \in Chore : chores[k].at = i}
<1> USE DEF IInv
<1>1. StoreInv'
  BY DEF Restart, StoreInv, StoresTyped, RepairFindsItsFiles, Catalogued
<1>2. localStorage' \in [Node -> [Name -> File \cup {None}]]
  BY DEF Restart, JobsInv
<1>3. WritesOK'
  <2>1. writes' = [c \in Content |-> IF c \in mine
                     THEN [writes[c] EXCEPT !.stage = "failed"] ELSE writes[c]]
    BY DEF Restart
  <2>2. ASSUME NEW c \in Content PROVE WriteOK(writes'[c])
    <3>1. WriteOK(writes[c])
      BY DEF JobsInv
    <3>2. CASE c \in mine
      <4>1. writes'[c] = [writes[c] EXCEPT !.stage = "failed"]
        BY <2>1, <3>2
      <4>2. writes[c].stage # "unborn"
        BY <3>2 DEF Ended, Chore
      <4> QED
        BY <3>1, <4>1, <4>2 DEF WriteOK, WriteType
    <3>3. CASE c \notin mine
      BY <2>1, <3>1, <3>3
    <3> QED
      BY <3>2, <3>3
  <2> QED
    BY <2>1, <2>2 DEF WritesOK, WriteOK
<1>4. ChoresOK'
  <2>1. ASSUME NEW k \in Chore PROVE ChoreOK(chores[k])' /\ chores'[k] \in ChoreType
    <3>1. ChoreOK(chores[k])
      BY DEF JobsInv
    <3>2. CASE chores[k].at = i
      BY <3>2 DEF Restart, ChoreOK, ChoreType, NoChore
    <3>3. CASE chores[k].at # i
      <4>1. chores'[k] = chores[k]
        BY <3>3 DEF Restart, Chore
      <4>2. ASSUME NEW n \in Node, n # i PROVE fileStore'[n] = fileStore[n]
        BY <4>2 DEF Restart, StoreInv, StoresTyped
      <4> QED
        BY <3>1, <3>3, <4>1, <4>2 DEF ChoreOK, ChoreType
    <3> QED
      BY <3>2, <3>3
  <2> QED
    BY <2>1 DEF Restart, ChoresOK
<1>5. posts' \subseteq PostType
  <2>1. ASSUME NEW p \in posts PROVE p \in PostType /\ [p EXCEPT !.by = None] \in PostType
    BY DEF JobsInv, PostType
  <2> QED
    BY <2>1 DEF Restart
<1> QED
  BY <1>1, <1>2, <1>3, <1>4, <1>5 DEF JobsInv, WritesOK, ChoresOK

-----------------------------------------------------------------------------
LEMMA StepsKeep == IInv /\ [Next]_vars => IInv'
<1> SUFFICES ASSUME IInv, [Next]_vars PROVE IInv'
  OBVIOUS
<1>1. CASE UNCHANGED vars
  <2>1. StoreInv' /\ FilesStay /\ ChoresOK'
    BY <1>1, StoresUntouched, ChoresUntouched DEF IInv, vars
  <2> QED
    BY <1>1, <2>1 DEF IInv, vars, JobsInv, ChoresOK
<1>2. CASE Next
  BY <1>2, BeginWriteKeeps, WritingKeeps, HandlersKeep, BeginChoreKeeps,
     RemoveFailedKeeps, RestoringKeeps, UpkeepKeeps, RestartKeeps
  DEF Next
<1> QED
  BY <1>1, <1>2

(* Stores, maps and what is on its way keep their shape, and versions      *)
(* begin with 1, for any nodes, clients and failures.                      *)
THEOREM ReplicationTyped == Spec => []TypeOK
BY InitEstablishes, StepsKeep, InvariantImplies, PTL DEF Spec

(* However repairs, writes, restarts and late copies cross, replicaMap     *)
(* names a node only for files that nodeFileMap has among that node's.     *)
THEOREM RepairsAreComplete == Spec => []RepairFindsItsFiles
BY InitEstablishes, StepsKeep, InvariantImplies, PTL DEF Spec
-----------------------------------------------------------------------------
(* The lists.  The invariant says how far a request has come, what its     *)
(* caller takes it for, and what a caller has made sure of before it goes  *)
(* on.                                                                     *)

(* The node has stored the file, or has lost its memory since. *)
Stored(n, f) == \/ n \in restarted
                \/ fileStore[n][f] # None /\ localStorage[n][f] # None

HalfStored == \A p \in posts :
                p.half # None => \/ p.to \in restarted
                                 \/ localStorage[p.to][p.half[1]] # None

(* Once its handler has replied, the file is stored. *)
Carries(p, f) == \/ \E e \in p.todo : e[1] = f
                 \/ p.half # None /\ p.half[1] = f
                 \/ Stored(p.to, f)

OneRequest == \A p, q \in posts : p.by = q.by /\ p.by # None => p = q

RequestOfWrite(p, c) ==
  /\ writes[c].stage = "waiting" /\ p.to = Head(writes[c].todo)
  /\ Carries(p, writes[c].name)

RequestOfChore(p, k) ==
  \/ chores[k].stage = "restoring"
  \/ chores[k].stage = "waiting" /\ p.to = chores[k].to /\ Carries(p, chores[k].name)

Awaited(p) ==
  /\ p.by \in Content => RequestOfWrite(p, p.by)
  /\ p.by \in Chore => RequestOfChore(p, p.by)

(* A target that is no longer ahead of a write has stored the file; what   *)
(* has been saved is there to be read.                                     *)
WriteReached(c) ==
  LET w == writes[c] IN
  /\ w.stage \in {"sending", "waiting"} =>
       \A n \in WrittenTo : \/ \E m \in DOMAIN w.todo : w.todo[m] = n
                            \/ Stored(n, w.name)
  /\ w.stage = "saved" => fileStore[w.at][w.name] # None
  /\ w.stage = "read" => w.latest # None

(* The files a chore is still to copy are at hand, and the list it makes   *)
(* has nodes only that store the file.                                     *)
ChoreReached(k) ==
  LET j == chores[k] IN
  /\ k = "sync" => \A f \in j.names : \E e \in j.files : e[1] = f
  /\ j.stage \in {"listing", "copying", "waiting"} =>
       \E e \in j.files : e[1] = j.name
  /\ j.stage \in {"copying", "waiting"} =>
       \A n \in j.replicas : Stored(n, j.name)

Listed == \A i \in Node, f \in Name : \A n \in replicaMap[i][f] : Stored(n, f)
AllAwaited == \A p \in posts : Awaited(p)
WritesReached == \A c \in Content : WriteReached(c)
ChoresReached == \A k \in Chore : ChoreReached(k)

ListInv == /\ HalfStored /\ OneRequest /\ AllAwaited
           /\ WritesReached /\ ChoresReached /\ Listed

-----------------------------------------------------------------------------
(* What is stored stays stored *)

LocalStays == \A i \in Node, f \in Name :
                localStorage[i][f] # None => localStorage'[i][f] # None

MemoryStays == \A n \in Node, f \in Name : Stored(n, f) => Stored(n, f)'

LEMMA FilesAndLocalsStay ==
  ASSUME FilesStay, LocalStays, restarted \subseteq restarted'
  PROVE  MemoryStays
BY DEF FilesStay, LocalStays, MemoryStays, Stored

LEMMA ListsAreOfNodes ==
  ASSUME IInv, NEW i \in Node, NEW f \in Name
  PROVE  replicaMap[i][f] \subseteq Node
BY DEF IInv, StoreInv, StoresTyped

LEMMA ListsUntouched ==
  ASSUME IInv, Listed, MemoryStays, UNCHANGED replicaMap
  PROVE  Listed'
BY ListsAreOfNodes DEF Listed, MemoryStays

LEMMA OthersWriteStays ==
  ASSUME IInv, MemoryStays, FilesStay, NEW c \in Content, WriteReached(c),
         writes'[c] = writes[c]
  PROVE  WriteReached(c)'
<1>1. WriteOK(writes[c])
  BY DEF IInv, JobsInv
<1>2. WrittenTo \subseteq Node
  BY DEF WrittenTo
<1> QED
  BY <1>1, <1>2 DEF WriteReached, WriteOK, MemoryStays, FilesStay

LEMMA OthersChoreStays ==
  ASSUME IInv, MemoryStays, NEW k \in Chore, ChoreReached(k), chores'[k] = chores[k]
  PROVE  ChoreReached(k)'
<1>1. ChoreOK(chores[k])
  BY DEF IInv, JobsInv
<1> QED
  BY <1>1 DEF ChoreReached, ChoreOK, ChoreType, MemoryStays

LEMMA CarryingStays ==
  ASSUME MemoryStays, NEW p \in PostType, NEW f \in Name, Carries(p, f)
  PROVE  Carries(p, f)'
BY DEF Carries, MemoryStays, PostType

(* A request stays awaited as long as its caller waits. *)
LEMMA RequestStays ==
  ASSUME IInv, MemoryStays, NEW p \in PostType, Awaited(p),
         p.by \in Content => writes'[p.by] = writes[p.by],
         p.by \in Chore => chores'[p.by] = chores[p.by]
  PROVE  Awaited(p)'
<1>1. ASSUME p.by \in Content PROVE RequestOfWrite(p, p.by)'
  <2>1. WriteOK(writes[p.by]) /\ RequestOfWrite(p, p.by)
    BY <1>1 DEF IInv, JobsInv, Awaited
  <2> QED
    BY <1>1, <2>1, CarryingStays DEF RequestOfWrite, WriteOK
<1>2. ASSUME p.by \in Chore PROVE RequestOfChore(p, p.by)'
  <2>1. ChoreOK(chores[p.by]) /\ RequestOfChore(p, p.by)
    BY <1>2 DEF IInv, JobsInv, Awaited
  <2> QED
    BY <1>2, <2>1, CarryingStays DEF RequestOfChore, ChoreOK
<1> QED
  BY <1>1, <1>2 DEF Awaited

LEMMA NobodyAwaitsOrphans ==
  ASSUME NEW p, p.by = None
  PROVE  Awaited(p)'
BY DEF Awaited, Chore

-----------------------------------------------------------------------------
(* Requests *)

(* A caller has its answer, or has given up: no request is its own any     *)
(* more, and the others are as they were.                                  *)
Settles(by) == /\ \A p \in posts' : p.by = None \/ (p \in posts /\ p.by # by)
               /\ OneRequest' /\ HalfStored'

LEMMA AnswersSettle ==
  ASSUME ListInv, LocalStays, posts \subseteq PostType, restarted \subseteq restarted',
         NEW by, by # None, NEW p \in posts, Answers(p, by), posts' = posts \ {p}
  PROVE  Settles(by)
<1>1. HalfStored'
  BY DEF ListInv, HalfStored, LocalStays, PostType, Entry
<1> QED
  BY <1>1 DEF Settles, ListInv, OneRequest, Answers

LEMMA GivingUpSettles ==
  ASSUME ListInv, LocalStays, posts \subseteq PostType, restarted \subseteq restarted',
         NEW by, by # None, NEW at, NEW sent, GiveUp(by, at, sent)
  PROVE  Settles(by)
<1> USE DEF ListInv
<1>1. \A p \in posts' : \/ p \in posts
                        \/ \E q \in posts : p = [q EXCEPT !.by = None]
  BY DEF GiveUp
<1>2. \A q \in posts : LET p == [q EXCEPT !.by = None]
                       IN  p.by = None /\ p.to = q.to /\ p.half = q.half
  BY DEF PostType
<1>3. HalfStored'
  BY <1>1, <1>2 DEF HalfStored, LocalStays, PostType, Entry
<1>4. \A p \in posts' : p.by = None \/ (p \in posts /\ p.by # by)
  BY <1>1, <1>2 DEF GiveUp, OneRequest
<1>5. OneRequest'
  BY <1>4 DEF OneRequest
<1> QED
  BY <1>3, <1>4, <1>5 DEF Settles

(* Nothing happens to the requests. *)
LEMMA RequestsUntouched ==
  ASSUME ListInv, LocalStays, posts \subseteq PostType, restarted \subseteq restarted',
         UNCHANGED posts
  PROVE  OneRequest' /\ HalfStored'
BY DEF ListInv, OneRequest, HalfStored, LocalStays, PostType, Entry

(* One caller goes on; the requests of all the others are still awaited.   *)
LEMMA OthersStillAwait ==
  ASSUME IInv, ListInv, MemoryStays, NEW by,
         \A p \in posts' : p.by = None \/ (p \in posts /\ p.by # by),
         \A c \in Content : c # by => writes'[c] = writes[c],
         \A k \in Chore : k # by => chores'[k] = chores[k]
  PROVE  AllAwaited'
<1> SUFFICES ASSUME NEW p \in posts' PROVE Awaited(p)'
  BY DEF AllAwaited
<1>1. CASE p.by = None
  BY <1>1, NobodyAwaitsOrphans
<1>2. CASE p \in posts /\ p.by # by
  <2>1. p \in PostType /\ Awaited(p)
    BY <1>2 DEF IInv, JobsInv, ListInv, AllAwaited
  <2> QED
    BY <1>2, <2>1, RequestStays
<1> QED
  BY <1>1, <1>2

(* One request is handled a step further. *)
LEMMA RequestGoesOn ==
  ASSUME IInv, ListInv, MemoryStays, LocalStays, restarted \subseteq restarted',
         UNCHANGED <<writes, chores>>,
         NEW p \in posts, NEW q \in PostType, q.by = p.by, q.to = p.to,
         \A f \in Name : Carries(p, f) => Carries(q, f)',
         q.half # None => localStorage'[q.to][q.half[1]] # None,
         posts' \subseteq (posts \ {p}) \cup {q}
  PROVE  OneRequest' /\ HalfStored' /\ AllAwaited'
<1> USE DEF ListInv
<1>0. posts \subseteq PostType
  BY DEF IInv, JobsInv
<1>1. OneRequest'
  BY DEF OneRequest
<1>2. HalfStored'
  BY <1>0 DEF HalfStored, LocalStays, PostType, Entry
<1>3. ASSUME NEW r \in posts' PROVE Awaited(r)'
  <2>1. CASE r \in posts
    BY <1>0, <2>1, RequestStays DEF AllAwaited
  <2>2. CASE r = q
    <3>1. Awaited(p)
      BY DEF AllAwaited
    <3>2. ASSUME q.by \in Content PROVE RequestOfWrite(q, q.by)'
      <4>1. WriteOK(writes[p.by]) /\ RequestOfWrite(p, p.by)
        BY <3>1, <3>2 DEF IInv, JobsInv, Awaited
      <4> QED
        BY <4>1 DEF RequestOfWrite, WriteOK
    <3>3. ASSUME q.by \in Chore PROVE RequestOfChore(q, q.by)'
      <4>1. ChoreOK(chores[p.by]) /\ RequestOfChore(p, p.by)
        BY <3>1, <3>3 DEF IInv, JobsInv, Awaited
      <4> QED
        BY <4>1 DEF RequestOfChore, ChoreOK
    <3> QED
      BY <2>2, <3>2, <3>3 DEF Awaited
  <2> QED
    BY <2>1, <2>2
<1> QED
  BY <1>1, <1>2, <1>3 DEF AllAwaited

LEMMA HandlersKeepLists ==
  ASSUME IInv, ListInv, NEW p \in posts,
         SaveReplica(p) \/ \E e \in p.todo : StoreLocally(p, e)
  PROVE  ListInv'
<1>0. p \in PostType
  BY DEF IInv, JobsInv
<1>1. FilesStay
  BY HandlersKeep
<1>2. CASE SaveReplica(p)
  <2> DEFINE q == [p EXCEPT !.half = None]
  <2>1. /\ p.half[1] \in Name /\ p.half[2] \in File /\ p.to \in Node
        /\ q \in PostType /\ q.by = p.by /\ q.to = p.to /\ q.half = None
        /\ q.todo = p.todo
    BY <1>0, <1>2 DEF SaveReplica, PostType, Entry
  <2>2. LocalStays /\ MemoryStays
    BY <1>1, <1>2, FilesAndLocalsStay DEF SaveReplica, LocalStays
  <2>3. Stored(p.to, p.half[1])'
    <3>1. fileStore'[p.to][p.half[1]] # None
      BY <1>2, <2>1, FilesAreSomething
      DEF SaveReplica, SaveReplicaOnNode, Accepts, IInv, StoreInv, StoresTyped
    <3> QED
      BY <1>2, <3>1 DEF SaveReplica, ListInv, HalfStored, Stored
  <2>4. ASSUME NEW f \in Name, Carries(p, f) PROVE Carries(q, f)'
    <3>1. CASE \E e \in p.todo : e[1] = f
      BY <2>1, <3>1 DEF Carries
    <3>2. CASE p.half[1] = f
      BY <2>1, <2>3, <3>2 DEF Carries
    <3>3. CASE Stored(p.to, f)
      BY <2>1, <2>2, <3>3 DEF Carries, MemoryStays
    <3> QED
      BY <2>4, <3>1, <3>2, <3>3 DEF Carries
  <2>5. OneRequest' /\ HalfStored' /\ AllAwaited'
    <3>1. posts' \subseteq (posts \ {p}) \cup {q}
      BY <1>2 DEF SaveReplica
    <3> QED
      BY <1>2, <2>1, <2>2, <2>4, <3>1, RequestGoesOn DEF SaveReplica
  <2>6. Listed'
    <3>1. ASSUME NEW i \in Node, NEW f \in Name, NEW n \in replicaMap'[i][f]
          PROVE Stored(n, f)'
      <4>1. n \in replicaMap[i][f] \/ (n = p.to /\ f = p.half[1])
        BY <1>2, <2>1 DEF SaveReplica, SaveReplicaOnNode, IInv, StoreInv, StoresTyped
      <4> QED
        BY <2>2, <2>3, <4>1, ListsAreOfNodes DEF ListInv, Listed, MemoryStays
    <3> QED
      BY <3>1 DEF Listed
  <2>7. WritesReached' /\ ChoresReached'
    BY <1>1, <1>2, <2>2, OthersWriteStays, OthersChoreStays
    DEF SaveReplica, ListInv, WritesReached, ChoresReached
  <2> QED
    BY <2>5, <2>6, <2>7 DEF ListInv
<1>3. ASSUME NEW e \in p.todo, StoreLocally(p, e) PROVE ListInv'
  <2> DEFINE q == [p EXCEPT !.todo = @ \ {e}, !.half = e]
  <2>1. /\ e \in Entry /\ e[1] \in Name /\ e[2] \in File /\ p.to \in Node
        /\ q \in PostType /\ q.by = p.by /\ q.to = p.to /\ q.half = e
        /\ q.todo = p.todo \ {e}
    BY <1>0 DEF PostType, Entry
  <2>2. LocalStays /\ localStorage'[p.to][e[1]] # None
    <3>1. localStorage' = [localStorage EXCEPT ![p.to][e[1]] = e[2]]
      BY <1>3 DEF StoreLocally
    <3>2. localStorage \in [Node -> [Name -> File \cup {None}]] /\ e[2] # None
      BY <2>1, FilesAreSomething DEF IInv, JobsInv
    <3> QED
      BY <2>1, <3>1, <3>2 DEF LocalStays
  <2>3. MemoryStays
    BY <1>1, <1>3, <2>2, FilesAndLocalsStay DEF StoreLocally
  <2>4. ASSUME NEW f \in Name, Carries(p, f) PROVE Carries(q, f)'
    <3>1. e # None
      BY <2>1 DEF Entry, File
    <3>2. CASE \E d \in p.todo : d[1] = f
      BY <2>1, <3>1, <3>2 DEF Carries
    <3>3. CASE Stored(p.to, f)
      BY <2>1, <2>3, <3>3 DEF Carries, MemoryStays
    <3> QED
      BY <1>3, <2>4, <3>2, <3>3 DEF Carries, StoreLocally
  <2>5. OneRequest' /\ HalfStored' /\ AllAwaited'
    <3>1. posts' \subseteq (posts \ {p}) \cup {q}
      BY <1>3 DEF StoreLocally
    <3> QED
      BY <1>3, <2>1, <2>2, <2>3, <2>4, <3>1, RequestGoesOn DEF StoreLocally
  <2>6. Listed'
    BY <1>3, <2>3, ListsUntouched DEF StoreLocally, ListInv
  <2>7. WritesReached' /\ ChoresReached'
    BY <1>1, <1>3, <2>3, OthersWriteStays, OthersChoreStays
    DEF StoreLocally, ListInv, WritesReached, ChoresReached
  <2> QED
    BY <2>5, <2>6, <2>7 DEF ListInv
<1> QED
  BY <1>2, <1>3

-----------------------------------------------------------------------------
(* Writes *)

(* A caller without a request sends one. *)
LEMMA RequestSent ==
  ASSUME IInv, ListInv, MemoryStays, LocalStays, restarted \subseteq restarted',
         NEW q \in PostType, q.by # None, q.half = None, posts' = posts \cup {q},
         \A p \in posts : p.by # q.by,
         \A c \in Content : c # q.by => writes'[c] = writes[c],
         \A k \in Chore : k # q.by => chores'[k] = chores[k],
         Awaited(q)'
  PROVE  OneRequest' /\ HalfStored' /\ AllAwaited'
<1> USE DEF ListInv
<1>0. posts \subseteq PostType
  BY DEF IInv, JobsInv
<1>1. OneRequest'
  BY DEF OneRequest
<1>2. HalfStored'
  BY <1>0 DEF HalfStored, LocalStays, PostType, Entry
<1>3. ASSUME NEW p \in posts PROVE Awaited(p)'
  BY <1>0, RequestStays DEF AllAwaited
<1> QED
  BY <1>1, <1>2, <1>3 DEF AllAwaited

LEMMA OthersWritesReached ==
  ASSUME IInv, ListInv, MemoryStays, FilesStay, NEW c \in Content, WriteReached(c)',
         \A d \in Content : d # c => writes'[d] = writes[d]
  PROVE  WritesReached'
BY OthersWriteStays DEF ListInv, WritesReached

LEMMA OthersChoresReached ==
  ASSUME IInv, ListInv, MemoryStays, NEW k \in Chore, ChoreReached(k)',
         \A q \in Chore : q # k => chores'[q] = chores[q]
  PROVE  ChoresReached'
BY OthersChoreStays DEF ListInv, ChoresReached

LEMMA ChoresStillReached ==
  ASSUME IInv, ListInv, MemoryStays, UNCHANGED chores
  PROVE  ChoresReached'
BY OthersChoreStays DEF ListInv, ChoresReached

LEMMA WritesStillReached ==
  ASSUME IInv, ListInv, MemoryStays, FilesStay, UNCHANGED writes
  PROVE  WritesReached'
BY OthersWriteStays DEF ListInv, WritesReached

LEMMA WhoSendsHasNoRequest ==
  ASSUME ListInv, NEW c \in Content, writes[c].stage # "waiting", NEW p \in posts
  PROVE  p.by # c
BY DEF ListInv, AllAwaited, Awaited, RequestOfWrite

LEMMA BeginWriteKeepsLists ==
  ASSUME IInv, ListInv, NEW i \in Node, NEW f \in Name, NEW c \in Content,
         BeginWrite(i, f, c)
  PROVE  ListInv'
<1>0. /\ FilesStay /\ LocalStays /\ posts \subseteq PostType /\ WriteOK(writes[c])
      /\ writes \in [Content -> WriteType]
  BY BeginWriteKeeps DEF BeginWrite, LocalStays, IInv, JobsInv
<1>1. MemoryStays /\ \A d \in Content : d # c => writes'[d] = writes[d]
  BY <1>0, FilesAndLocalsStay DEF BeginWrite
<1>2. OneRequest' /\ HalfStored'
  BY <1>0, RequestsUntouched DEF BeginWrite
<1>3. AllAwaited'
  <2>1. writes[c].stage # "waiting"
    BY DEF BeginWrite, NoWrite
  <2>2. \A p \in posts' : p \in posts /\ p.by # c
    BY <2>1, WhoSendsHasNoRequest DEF BeginWrite
  <2>3. \A k \in Chore : k # c => chores'[k] = chores[k]
    BY DEF BeginWrite
  <2> QED
    BY <1>1, <2>2, <2>3, OthersStillAwait
<1>4. WriteReached(c)'
  <2> DEFINE todo == IF Len(Targets) > ReplicationFactor
                       THEN SubSeq(Targets, 1, ReplicationFactor) ELSE Targets
  <2>1. writes'[c].stage = "sending" /\ writes'[c].todo = todo
    BY <1>0 DEF BeginWrite
  <2>2. ASSUME NEW n \in WrittenTo PROVE \E m \in DOMAIN todo : todo[m] = n
    <3>1. PICK m \in DOMAIN Targets : m <= ReplicationFactor /\ Targets[m] = n
      BY DEF WrittenTo
    <3>2. CASE Len(Targets) > ReplicationFactor
      <4>1. m \in 1 .. ReplicationFactor
        BY <3>1
      <4> QED
        BY <3>1, <3>2, <4>1
    <3>3. CASE ~(Len(Targets) > ReplicationFactor)
      BY <3>1, <3>3
    <3> QED
      BY <3>2, <3>3
  <2>3. WrittenTo' = WrittenTo
    BY DEF WrittenTo
  <2> QED
    BY <2>1, <2>2, <2>3 DEF WriteReached
<1>5. WritesReached' /\ ChoresReached' /\ Listed'
  BY <1>0, <1>1, <1>4, OthersWritesReached, ChoresStillReached, ListsUntouched
  DEF BeginWrite, ListInv
<1> QED
  BY <1>2, <1>3, <1>5 DEF ListInv

LEMMA LaterIsInTail ==
  ASSUME NEW s \in Seq(Node), s # << >>, NEW m \in DOMAIN s, m # 1
  PROVE  m - 1 \in DOMAIN Tail(s) /\ Tail(s)[m - 1] = s[m]
<1>1. m \in 2 .. Len(s) /\ Len(Tail(s)) = Len(s) - 1
  OBVIOUS
<1>2. m - 1 \in 1 .. Len(Tail(s))
  BY <1>1
<1> QED
  BY <1>1, <1>2

LEMMA WritingKeepsLists ==
  ASSUME IInv, ListInv, NEW c \in Content, Writing(c)
  PROVE  ListInv'
<1> DEFINE w == writes[c]
<1>0. /\ FilesStay /\ posts \subseteq PostType /\ WriteOK(w) /\ w \in WriteType
      /\ writes \in [Content -> WriteType] /\ WriteReached(c) /\ c # None
      /\ WrittenTo' = WrittenTo /\ WrittenTo \subseteq Node
  BY WritingKeeps
  DEF IInv, JobsInv, WriteOK, ListInv, WritesReached, WrittenTo
<1>1. CASE SendWrite(c)
  <2>1. LocalStays /\ \A d \in Content : d # c => writes'[d] = writes[d]
    BY <1>0, <1>1 DEF SendWrite, LocalStays
  <2>2. MemoryStays
    BY <1>0, <1>1, <2>1, FilesAndLocalsStay DEF SendWrite
  <2>3. PICK q : /\ q = Post(c, Head(w.todo), {<<w.name, w.file>>})
                 /\ posts' = posts \cup {q}
    BY <1>1 DEF SendWrite
  <2>4. /\ q \in PostType /\ q.by = c /\ q.half = None /\ q.to = Head(w.todo)
        /\ <<w.name, w.file>> \in q.todo
    <3>1. Head(w.todo) \in Node /\ <<w.name, w.file>> \in Entry
      BY <1>0, <1>1 DEF SendWrite, WriteOK, WriteType, Entry
    <3> QED
      BY <2>3, <3>1 DEF Post, PostType
  <2>5. writes'[c] = [w EXCEPT !.stage = "waiting"]
    BY <1>0, <1>1 DEF SendWrite
  <2>6. Awaited(q)'
    <3>1. RequestOfWrite(q, c)'
      BY <1>0, <2>4, <2>5 DEF RequestOfWrite, Carries, WriteType
    <3> QED
      BY <2>4, <3>1 DEF Awaited, Chore
  <2>7. OneRequest' /\ HalfStored' /\ AllAwaited'
    BY <1>0, <1>1, <2>1, <2>2, <2>3, <2>4, <2>6, RequestSent, WhoSendsHasNoRequest
    DEF SendWrite
  <2>8. WriteReached(c)'
    BY <1>0, <1>1, <2>2, <2>5 DEF SendWrite, WriteReached, WriteOK, WriteType, MemoryStays
  <2> QED
    BY <1>0, <1>1, <2>1, <2>2, <2>7, <2>8, OthersWritesReached, ChoresStillReached,
       ListsUntouched DEF SendWrite, ListInv
<1>2. CASE WriteReceived(c)
  <2>1. LocalStays /\ \A d \in Content : d # c => writes'[d] = writes[d]
    BY <1>0, <1>2 DEF WriteReceived, LocalStays
  <2>2. MemoryStays
    BY <1>0, <1>2, <2>1, FilesAndLocalsStay DEF WriteReceived
  <2>3. PICK p \in posts : Answers(p, c) /\ posts' = posts \ {p}
    BY <1>2 DEF WriteReceived
  <2>4. Settles(c)
    BY <1>0, <1>2, <2>1, <2>3, AnswersSettle DEF WriteReceived
  <2>5. AllAwaited'
    BY <1>2, <2>1, <2>2, <2>4, OthersStillAwait DEF WriteReceived, Settles
  <2>6. Stored(Head(w.todo), w.name)
    BY <2>3 DEF ListInv, AllAwaited, Awaited, RequestOfWrite, Carries, Answers
  <2>7. writes'[c] = [w EXCEPT !.stage = "sending", !.todo = Tail(w.todo)]
    BY <1>0, <1>2 DEF WriteReceived
  <2>8. PICK f \in Name : f = w.name
    BY <1>0, <1>2 DEF WriteReceived, WriteOK
  <2>9. ASSUME NEW n \in WrittenTo
        PROVE  \/ \E m \in DOMAIN Tail(w.todo) : Tail(w.todo)[m] = n
               \/ Stored(n, f)'
    <3>1. CASE Stored(n, f)
      BY <1>0, <2>2, <2>8, <3>1 DEF MemoryStays
    <3>2. CASE \E m \in DOMAIN w.todo : w.todo[m] = n
      <4>1. PICK m \in DOMAIN w.todo : w.todo[m] = n
        BY <3>2
      <4>2. w.todo \in Seq(Node) /\ w.todo # << >>
        BY <1>0, <1>2 DEF WriteReceived, WriteOK, WriteType
      <4>3. CASE m = 1
        BY <1>0, <2>2, <2>6, <2>8, <4>1, <4>2, <4>3 DEF MemoryStays
      <4>4. CASE m # 1
        <5>1. m - 1 \in DOMAIN Tail(w.todo) /\ Tail(w.todo)[m - 1] = n
          BY <4>1, <4>2, <4>4, LaterIsInTail
        <5> QED
          BY <5>1
      <4> QED
        BY <4>3, <4>4
    <3> QED
      BY <1>0, <1>2, <2>8, <3>1, <3>2 DEF WriteReceived, WriteReached
  <2>10. WriteReached(c)'
    <3>1. /\ writes'[c].stage = "sending" /\ writes'[c].todo = Tail(w.todo)
          /\ writes'[c].name = f
      BY <1>0, <2>7, <2>8 DEF WriteType
    <3> QED
      BY <1>0, <2>9, <3>1 DEF WriteReached
  <2> QED
    BY <1>0, <1>2, <2>1, <2>2, <2>4, <2>5, <2>10, OthersWritesReached,
       ChoresStillReached, ListsUntouched DEF WriteReceived, ListInv, Settles
<1>3. CASE WriteFails(c)
  <2>1. LocalStays /\ \A d \in Content : d # c => writes'[d] = writes[d]
    BY <1>0, <1>3 DEF WriteFails, LocalStays
  <2>2. MemoryStays
    BY <1>0, <1>3, <2>1, FilesAndLocalsStay DEF WriteFails
  <2>3. Settles(c)
    BY <1>0, <1>3, <2>1, GivingUpSettles DEF WriteFails
  <2>4. AllAwaited'
    BY <1>3, <2>1, <2>2, <2>3, OthersStillAwait DEF WriteFails, Settles
  <2>5. WriteReached(c)'
    BY <1>0, <1>3 DEF WriteFails, WriteReached, WriteType
  <2> QED
    BY <1>0, <1>3, <2>1, <2>2, <2>3, <2>4, <2>5, OthersWritesReached,
       ChoresStillReached, ListsUntouched DEF WriteFails, ListInv, Settles
<1>4. CASE SaveWrite(c)
  <2>1. LocalStays /\ \A d \in Content : d # c => writes'[d] = writes[d]
    BY <1>0, <1>4 DEF SaveWrite, LocalStays
  <2>2. MemoryStays
    BY <1>0, <1>4, <2>1, FilesAndLocalsStay DEF SaveWrite
  <2>3. OneRequest' /\ HalfStored'
    BY <1>0, <1>4, <2>1, RequestsUntouched DEF SaveWrite
  <2>4. AllAwaited'
    <3>1. \A p \in posts' : p \in posts /\ p.by # c
      BY <1>4, WhoSendsHasNoRequest DEF SaveWrite
    <3>2. \A k \in Chore : k # c => chores'[k] = chores[k]
      BY <1>4 DEF SaveWrite
    <3> QED
      BY <2>1, <2>2, <3>1, <3>2, OthersStillAwait
  <2>5. w.at \in Node /\ w.name \in Name /\ w.file # None
    BY <1>0, <1>4, FilesAreSomething DEF SaveWrite, WriteOK
  <2>6. WriteReached(c)'
    <3>1. writes'[c] = [w EXCEPT !.stage = "saved"]
      BY <1>0, <1>4 DEF SaveWrite
    <3>2. fileStore'[w.at][w.name] # None
      BY <1>4, <2>5 DEF SaveWrite, SaveFile, IInv, StoreInv, StoresTyped
    <3> QED
      BY <1>0, <3>1, <3>2 DEF WriteReached, WriteType
  <2>7. Listed'
    <3>1. \A n \in WrittenTo : Stored(n, w.name)
      BY <1>0, <1>4 DEF SaveWrite, WriteReached
    <3>2. PICK g \in Name : g = w.name
      BY <2>5
    <3>3. ASSUME NEW i \in Node, NEW f \in Name, NEW n \in replicaMap'[i][f]
          PROVE  Stored(n, f)'
      <4>1. n \in replicaMap[i][f] \/ (f = g /\ n \in WrittenTo)
        BY <1>4, <2>5, <3>2 DEF SaveWrite, SaveFile, IInv, StoreInv, StoresTyped
      <4>2. n \in Node /\ Stored(n, f)
        BY <1>0, <3>1, <3>2, <4>1, ListsAreOfNodes DEF ListInv, Listed
      <4> QED
        BY <2>2, <4>2 DEF MemoryStays
    <3> QED
      BY <3>3 DEF Listed
  <2> QED
    BY <1>0, <1>4, <2>1, <2>2, <2>3, <2>4, <2>6, <2>7, OthersWritesReached,
       ChoresStillReached DEF SaveWrite, ListInv
<1>5. CASE ReadLatest(c) \/ Acknowledge(c)
  <2>1. LocalStays /\ \A d \in Content : d # c => writes'[d] = writes[d]
    <3>1. w.at \in Node /\ w.name \in Name
      BY <1>0, <1>5 DEF ReadLatest, Acknowledge, WriteOK
    <3> QED
      BY <1>0, <1>5, <3>1
      DEF ReadLatest, Acknowledge, LocalStays, WriteReached, IInv, JobsInv
  <2>2. MemoryStays
    BY <1>0, <1>5, <2>1, FilesAndLocalsStay DEF ReadLatest, Acknowledge
  <2>3. OneRequest' /\ HalfStored'
    BY <1>0, <1>5, <2>1, RequestsUntouched DEF ReadLatest, Acknowledge
  <2>4. AllAwaited'
    <3>1. \A p \in posts' : p \in posts /\ p.by # c
      BY <1>5, WhoSendsHasNoRequest DEF ReadLatest, Acknowledge
    <3>2. \A k \in Chore : k # c => chores'[k] = chores[k]
      BY <1>5 DEF ReadLatest, Acknowledge
    <3> QED
      BY <2>1, <2>2, <3>1, <3>2, OthersStillAwait
  <2>5. WriteReached(c)'
    BY <1>0, <1>5 DEF ReadLatest, Acknowledge, WriteReached, WriteType
  <2> QED
    BY <1>0, <1>5, <2>1, <2>2, <2>3, <2>4, <2>5, OthersWritesReached,
       ChoresStillReached, ListsUntouched DEF ReadLatest, Acknowledge, ListInv
<1> QED
  BY <1>1, <1>2, <1>3, <1>4, <1>5 DEF Writing

-----------------------------------------------------------------------------
(* Chores *)

LEMMA IdleChoresHaveNoRequest ==
  ASSUME ListInv, NEW k \in Chore, chores[k].stage \notin {"waiting", "restoring"},
         NEW p \in posts
  PROVE  p.by # k
BY DEF ListInv, AllAwaited, Awaited, RequestOfChore

(* What a step of a chore that sends or receives nothing keeps. *)
LEMMA QuietChoreSteps ==
  ASSUME IInv, ListInv, MemoryStays, FilesStay, LocalStays,
         NEW k \in Chore, chores[k].stage \notin {"waiting", "restoring"},
         UNCHANGED <<posts, writes>>, restarted \subseteq restarted',
         \A q \in Chore : q # k => chores'[q] = chores[q]
  PROVE  OneRequest' /\ HalfStored' /\ AllAwaited' /\ WritesReached'
<1>1. OneRequest' /\ HalfStored'
  BY RequestsUntouched DEF IInv, JobsInv
<1>2. AllAwaited'
  <2>1. \A p \in posts' : p \in posts /\ p.by # k
    BY IdleChoresHaveNoRequest
  <2> QED
    BY <2>1, OthersStillAwait
<1> QED
  BY <1>1, <1>2, WritesStillReached

LEMMA BeginChoreKeepsLists ==
  ASSUME IInv, ListInv, NEW i \in Node, NEW n \in Node, BeginRepair(i, n) \/ BeginSync(i, n)
  PROVE  ListInv'
<1>0. /\ FilesStay /\ LocalStays /\ restarted \subseteq restarted'
      /\ "repair" \in Chore /\ "sync" \in Chore /\ chores \in [Chore -> ChoreType]
  BY BeginChoreKeeps DEF BeginRepair, BeginSync, LocalStays, Chore, IInv, JobsInv
<1>1. MemoryStays
  BY <1>0, FilesAndLocalsStay
<1>2. CASE BeginRepair(i, n)
  <2> DEFINE j == [NoChore EXCEPT !.stage = "removing", !.at = i, !.node = n,
                                  !.names = nodeFileMap[i][n]]
  <2>1. chores["repair"] = NoChore /\ chores' = [chores EXCEPT !["repair"] = j]
    BY <1>2 DEF BeginRepair, Begin, Set
  <2>2. chores'["repair"].stage = "removing"
    BY <1>0, <2>1 DEF NoChore
  <2>3. ChoreReached("repair")'
    BY <2>2 DEF ChoreReached
  <2>4. \A q \in Chore : q # "repair" => chores'[q] = chores[q]
    BY <1>0, <2>1
  <2>5. OneRequest' /\ HalfStored' /\ AllAwaited' /\ WritesReached'
    BY <1>0, <1>1, <1>2, <2>1, <2>4, QuietChoreSteps DEF BeginRepair, NoChore
  <2> QED
    BY <1>0, <1>1, <1>2, <2>3, <2>4, <2>5, OthersChoresReached, ListsUntouched
    DEF BeginRepair, ListInv
<1>3. CASE BeginSync(i, n)
  <2>1. PICK q : q = Post("sync", n, Files(i)) /\ posts' = posts \cup {q}
    BY <1>3 DEF BeginSync
  <2>2. q \in PostType /\ q.by = "sync" /\ q.half = None
    BY <1>0, <2>1, FilesAreEntries DEF Post, PostType, IInv
  <2>3. PICK j : /\ j = [NoChore EXCEPT !.stage = "restoring", !.at = i, !.node = n,
                           !.files = Files(i), !.names = {e[1] : e \in Files(i)}]
                 /\ chores' = [chores EXCEPT !["sync"] = j]
    BY <1>3 DEF BeginSync, Set
  <2>4. /\ chores'["sync"].stage = "restoring"
        /\ \A f \in chores'["sync"].names : \E e \in chores'["sync"].files : e[1] = f
    BY <1>0, <2>3 DEF NoChore
  <2>5. Awaited(q)'
    BY <1>0, <2>2, <2>4 DEF Awaited, RequestOfChore
  <2>6. ChoreReached("sync")'
    BY <2>4 DEF ChoreReached
  <2>7. \A k \in Chore : k # "sync" => chores'[k] = chores[k]
    BY <1>0, <2>3
  <2>8. \A p \in posts : p.by # "sync"
    BY <1>0, <1>3, IdleChoresHaveNoRequest DEF BeginSync, Begin, NoChore
  <2>9. OneRequest' /\ HalfStored' /\ AllAwaited'
    <3>1. \A c \in Content : writes'[c] = writes[c]
      BY <1>3 DEF BeginSync
    <3> QED
      BY <1>0, <1>1, <2>1, <2>2, <2>5, <2>7, <2>8, <3>1, RequestSent
  <2> QED
    BY <1>0, <1>1, <1>3, <2>6, <2>7, <2>9, OthersChoresReached, WritesStillReached,
       ListsUntouched DEF BeginSync, ListInv
<1> QED
  BY <1>2, <1>3

LEMMA RemoveFailedKeepsLists ==
  ASSUME IInv, ListInv, RemoveFailed
  PROVE  ListInv'
<1> DEFINE r == chores["repair"]
<1>0. /\ FilesStay /\ LocalStays /\ restarted \subseteq restarted'
      /\ "repair" \in Chore /\ chores \in [Chore -> ChoreType] /\ ChoreOK(r)
  BY RemoveFailedKeeps DEF RemoveFailed, LocalStays, Chore, IInv, JobsInv
<1>1. MemoryStays
  BY <1>0, FilesAndLocalsStay
<1>2. chores'["repair"].stage = "choosing"
  BY <1>0 DEF RemoveFailed, Set, ChoreType
<1>3. ChoreReached("repair")' /\ \A q \in Chore : q # "repair" => chores'[q] = chores[q]
  BY <1>0, <1>2 DEF RemoveFailed, Set, ChoreReached
<1>4. OneRequest' /\ HalfStored' /\ AllAwaited' /\ WritesReached'
  BY <1>0, <1>1, <1>3, QuietChoreSteps DEF RemoveFailed
<1>5. Listed'
  <2>1. ASSUME NEW i \in Node, NEW f \in Name PROVE replicaMap'[i][f] \subseteq replicaMap[i][f]
    BY <1>0 DEF RemoveFailed, RemoveNodeFromAllReplicaMaps, IInv, StoreInv, StoresTyped
  <2> QED
    BY <1>1, <2>1, ListsAreOfNodes DEF ListInv, Listed, MemoryStays
<1> QED
  BY <1>0, <1>1, <1>3, <1>4, <1>5, OthersChoresReached DEF ListInv

LEMMA RestoringKeepsLists ==
  ASSUME IInv, ListInv, Restored \/ RestoreFails
  PROVE  ListInv'
<1> DEFINE r == chores["sync"]
<1>0. /\ FilesStay /\ LocalStays /\ restarted \subseteq restarted'
      /\ "sync" \in Chore /\ "sync" # None /\ posts \subseteq PostType
      /\ chores \in [Chore -> ChoreType] /\ ChoreReached("sync")
  BY RestoringKeeps
  DEF Restored, RestoreFails, LocalStays, Chore, IInv, JobsInv, ListInv, ChoresReached
<1>1. MemoryStays
  BY <1>0, FilesAndLocalsStay
<1>2. Settles("sync")
  BY <1>0, AnswersSettle, GivingUpSettles DEF Restored, RestoreFails
<1>3. \A q \in Chore : q # "sync" => chores'[q] = chores[q]
  BY <1>0 DEF Restored, RestoreFails, Set
<1>4. ChoreReached("sync")'
  BY <1>0 DEF Restored, RestoreFails, Set, ChoreReached, ChoreType, NoChore
<1>5. AllAwaited'
  BY <1>1, <1>2, <1>3, OthersStillAwait DEF Restored, RestoreFails, Settles
<1> QED
  BY <1>0, <1>1, <1>2, <1>3, <1>4, <1>5, OthersChoresReached, WritesStillReached,
     ListsUntouched DEF Restored, RestoreFails, ListInv, Settles

LEMMA UpkeepKeepsLists ==
  ASSUME IInv, ListInv, NEW k \in Chore, Upkeep(k)
  PROVE  ListInv'
<1> DEFINE j == chores[k]
<1>0. /\ FilesStay /\ restarted \subseteq restarted' /\ posts \subseteq PostType
      /\ k # None /\ chores \in [Chore -> ChoreType] /\ j \in ChoreType
      /\ ChoreOK(j) /\ ChoreReached(k)
  BY UpkeepKeeps
  DEF Upkeep, ChooseFile, ListReplicas, SendCopy, CopyReceived, CopyFails,
      RecordReplicas, FinishChore, Chore, IInv, JobsInv, ListInv, ChoresReached
<1>1. LocalStays
  BY DEF Upkeep, ChooseFile, ListReplicas, SendCopy, CopyReceived, CopyFails,
         RecordReplicas, FinishChore, LocalStays
<1>2. MemoryStays
  BY <1>0, <1>1, FilesAndLocalsStay
<1>3. \A q \in Chore : q # k => chores'[q] = chores[q]
  BY <1>0
  DEF Upkeep, ChooseFile, ListReplicas, SendCopy, CopyReceived, CopyFails,
      RecordReplicas, FinishChore, Set
<1>4. CASE ChooseFile(k)
  <2>1. PICK f \in j.names :
          Set(k, [j EXCEPT !.stage = "listing", !.name = f, !.names = @ \ {f},
                           !.files = IF k = "repair"
                                       THEN {<<f, fileStore[j.at][f]>>} ELSE @])
    BY <1>4 DEF ChooseFile
  <2>2. /\ chores'[k].stage = "listing" /\ chores'[k].name = f
        /\ chores'[k].names \subseteq j.names
        /\ chores'[k].files = IF k = "repair" THEN {<<f, fileStore[j.at][f]>>}
                                              ELSE j.files
    BY <1>0, <2>1 DEF Set, ChoreType
  <2>3. ChoreReached(k)'
    <3>1. CASE k = "repair"
      <4>1. chores'[k].files = {<<f, fileStore[j.at][f]>>}
        BY <2>2, <3>1
      <4>2. <<f, fileStore[j.at][f]>>[1] = f
        OBVIOUS
      <4> QED
        BY <2>2, <3>1, <4>1, <4>2 DEF ChoreReached
    <3>2. CASE k = "sync"
      BY <1>0, <2>2, <3>2 DEF ChoreReached
    <3> QED
      BY <3>1, <3>2 DEF Chore
  <2>4. OneRequest' /\ HalfStored' /\ AllAwaited' /\ WritesReached'
    BY <1>0, <1>1, <1>2, <1>3, <1>4, QuietChoreSteps DEF ChooseFile
  <2> QED
    BY <1>0, <1>2, <1>3, <1>4, <2>3, <2>4, OthersChoresReached, ListsUntouched
    DEF ChooseFile, ListInv
<1>5. CASE ListReplicas(k)
  <2>1. /\ chores'[k].stage = "copying" /\ chores'[k].name = j.name
        /\ chores'[k].names = j.names /\ chores'[k].files = j.files
        /\ chores'[k].replicas = replicaMap[j.at][j.name]
    BY <1>0, <1>5 DEF ListReplicas, Set, ChoreType
  <2>2. PICK f \in Name, i \in Node : f = j.name /\ i = j.at
    BY <1>0, <1>5 DEF ListReplicas, ChoreOK
  <2>3. \A n \in replicaMap[i][f] : Stored(n, f)'
    BY <1>2, ListsAreOfNodes DEF ListInv, Listed, MemoryStays
  <2>4. ChoreReached(k)'
    BY <1>0, <1>5, <2>1, <2>2, <2>3 DEF ListReplicas, ChoreReached
  <2>5. OneRequest' /\ HalfStored' /\ AllAwaited' /\ WritesReached'
    BY <1>0, <1>1, <1>2, <1>3, <1>5, QuietChoreSteps DEF ListReplicas
  <2> QED
    BY <1>0, <1>2, <1>3, <1>5, <2>4, <2>5, OthersChoresReached, ListsUntouched
    DEF ListReplicas, ListInv
<1>6. CASE SendCopy(k)
  <2>1. PICK n \in Wanted(j) :
          /\ posts' = posts \cup {Post(k, n, Copy(j))}
          /\ Set(k, [j EXCEPT !.stage = "waiting", !.to = n, !.todo = @ \ {n}])
    BY <1>6 DEF SendCopy
  <2>2. PICK q : /\ q = Post(k, n, Copy(j))
                 /\ posts' = posts \cup {q}
    BY <2>1
  <2>3. /\ chores'[k].stage = "waiting" /\ chores'[k].name = j.name
        /\ chores'[k].names = j.names /\ chores'[k].files = j.files
        /\ chores'[k].replicas = j.replicas /\ chores'[k].to = n
    BY <1>0, <2>1 DEF Set, ChoreType
  <2>4. /\ q \in PostType /\ q.by = k /\ q.half = None /\ q.to = n
        /\ q.todo = Copy(j)
    BY <1>0, <2>2 DEF Copy, Post, PostType, Wanted, ChoreType
  <2>5. PICK f \in Name : f = j.name
    BY <1>0, <1>6 DEF SendCopy, ChoreOK
  <2>6. \E e \in q.todo : e[1] = f
    BY <1>0, <1>6, <2>4, <2>5 DEF SendCopy, ChoreReached, Copy
  <2>7. Awaited(q)'
    BY <1>0, <2>3, <2>4, <2>5, <2>6 DEF Awaited, RequestOfChore, Carries, Chore
  <2>8. ChoreReached(k)'
    <3>1. \A m \in j.replicas : Stored(m, f)'
      BY <1>0, <1>2, <1>6, <2>5 DEF SendCopy, ChoreReached, MemoryStays, ChoreType
    <3> QED
      BY <1>0, <1>6, <2>3, <2>5, <3>1 DEF SendCopy, ChoreReached
  <2>9. OneRequest' /\ HalfStored' /\ AllAwaited'
    <3>1. \A p \in posts : p.by # k
      BY <1>6, IdleChoresHaveNoRequest DEF SendCopy
    <3>2. \A c \in Content : writes'[c] = writes[c]
      BY <1>6 DEF SendCopy
    <3> QED
      BY <1>0, <1>1, <1>2, <1>3, <2>2, <2>4, <2>7, <3>1, <3>2, RequestSent
  <2> QED
    BY <1>0, <1>2, <1>3, <1>6, <2>8, <2>9, OthersChoresReached, WritesStillReached,
       ListsUntouched DEF SendCopy, ListInv
<1>7. CASE CopyReceived(k) \/ CopyFails(k)
  <2>1. Settles(k)
    BY <1>0, <1>1, <1>7, AnswersSettle, GivingUpSettles DEF CopyReceived, CopyFails
  <2>2. AllAwaited'
    BY <1>2, <1>3, <1>7, <2>1, OthersStillAwait DEF CopyReceived, CopyFails, Settles
  <2>3. PICK f \in Name, n \in Node : f = j.name /\ n = j.to
    BY <1>0, <1>7 DEF CopyReceived, CopyFails, ChoreOK
  <2>4. CopyReceived(k) => Stored(n, f)
    BY <2>3 DEF CopyReceived, ListInv, AllAwaited, Awaited, RequestOfChore, Carries,
               Answers
  <2>5. /\ chores'[k].stage = "copying" /\ chores'[k].name = f
        /\ chores'[k].names = j.names /\ chores'[k].files = j.files
        /\ \A m \in chores'[k].replicas :
             m \in j.replicas \/ (m = n /\ CopyReceived(k))
    <3>1. CASE CopyReceived(k)
      <4>1. chores' = [chores EXCEPT ![k] = [j EXCEPT !.stage = "copying",
                                                      !.replicas = @ \cup {j.to}]]
        BY <3>1 DEF CopyReceived, Set
      <4> QED
        BY <1>0, <2>3, <3>1, <4>1 DEF ChoreType
    <3>2. CASE CopyFails(k)
      <4>1. chores' = [chores EXCEPT ![k] = [j EXCEPT !.stage = "copying"]]
        BY <3>2 DEF CopyFails, Set
      <4> QED
        BY <1>0, <2>3, <3>2, <4>1 DEF ChoreType
    <3> QED
      BY <1>7, <3>1, <3>2
  <2>6. \A m \in chores'[k].replicas : m \in Node /\ Stored(m, f)
    BY <1>0, <1>7, <2>3, <2>4, <2>5 DEF CopyReceived, CopyFails, ChoreReached, ChoreType
  <2>7. ChoreReached(k)'
    BY <1>0, <1>2, <1>7, <2>3, <2>5, <2>6
    DEF CopyReceived, CopyFails, ChoreReached, MemoryStays
  <2> QED
    BY <1>0, <1>2, <1>3, <1>7, <2>1, <2>2, <2>7, OthersChoresReached,
       WritesStillReached, ListsUntouched DEF CopyReceived, CopyFails, ListInv, Settles
<1>8. CASE RecordReplicas(k)
  <2>1. PICK nodes \in Trimmed(k, j.replicas) : UpdateReplicaNodes(j.at, j.name, nodes)
    BY <1>8 DEF RecordReplicas
  <2>2. PICK g \in Name, h \in Node : g = j.name /\ h = j.at
    BY <1>0, <1>8 DEF RecordReplicas, ChoreOK
  <2>3. \A n \in nodes : n \in Node /\ Stored(n, g)
    BY <1>0, <1>8, <2>2 DEF Trimmed, RecordReplicas, ChoreReached, ChoreType
  <2>4. Listed'
    <3>1. ASSUME NEW i \in Node, NEW f \in Name, NEW n \in replicaMap'[i][f]
          PROVE  Stored(n, f)'
      <4>1. n \in replicaMap[i][f] \/ (f = g /\ n \in nodes)
        BY <2>1, <2>2 DEF UpdateReplicaNodes, IInv, StoreInv, StoresTyped
      <4> QED
        BY <1>2, <2>3, <4>1, ListsAreOfNodes DEF ListInv, Listed, MemoryStays
    <3> QED
      BY <3>1 DEF Listed
  <2>5. /\ chores'[k].stage = "choosing"
        /\ chores'[k].names = j.names /\ chores'[k].files = j.files
    BY <1>0, <1>8 DEF RecordReplicas, Set, ChoreType
  <2>6. ChoreReached(k)'
    BY <1>0, <2>5 DEF ChoreReached
  <2>7. OneRequest' /\ HalfStored' /\ AllAwaited' /\ WritesReached'
    BY <1>0, <1>1, <1>2, <1>3, <1>8, QuietChoreSteps DEF RecordReplicas
  <2> QED
    BY <1>2, <1>3, <2>4, <2>6, <2>7, OthersChoresReached DEF ListInv
<1>9. CASE FinishChore(k)
  <2>1. ChoreReached(k)'
    BY <1>0, <1>9 DEF FinishChore, Set, NoChore, ChoreReached
  <2>2. OneRequest' /\ HalfStored' /\ AllAwaited' /\ WritesReached'
    BY <1>0, <1>1, <1>2, <1>3, <1>9, QuietChoreSteps DEF FinishChore
  <2> QED
    BY <1>0, <1>2, <1>3, <1>9, <2>1, <2>2, OthersChoresReached, ListsUntouched
    DEF FinishChore, ListInv
<1> QED
  BY <1>4, <1>5, <1>6, <1>7, <1>8, <1>9 DEF Upkeep

-----------------------------------------------------------------------------
(* A restart of i: i need not store anything any more, nobody waits for    *)
(* what i sent, and what was sent to i is gone.                            *)
LEMMA RestartKeepsLists ==
  ASSUME IInv, ListInv, NEW i \in Node, Restart(i)
  PROVE  ListInv'
<1> DEFINE mine == {c \in Content : writes[c].at = i /\ ~Ended(c)} \cup
                   {k \in Chore : chores[k].at = i}
<1>0. /\ posts \subseteq PostType /\ restarted' = restarted \cup {i}
      /\ writes \in [Content -> WriteType] /\ chores \in [Chore -> ChoreType]
      /\ \A c \in Content : WriteOK(writes[c])
      /\ \A k \in Chore : ChoreOK(chores[k])
  BY DEF Restart, IInv, JobsInv
<1>1. \A n \in Node : n # i => /\ fileStore'[n] = fileStore[n]
                               /\ localStorage'[n] = localStorage[n]
                               /\ replicaMap'[n] = replicaMap[n]
  BY DEF Restart, IInv, JobsInv, StoreInv, StoresTyped
<1>2. MemoryStays
  BY <1>0, <1>1 DEF MemoryStays, Stored
<1>3. \A p \in posts' : \/ p \in posts /\ p.by \notin mine /\ p.to # i
                        \/ /\ p.by = None
                           /\ \E q \in posts : /\ q.to # i
                                               /\ p.to = q.to /\ p.half = q.half
  <2>1. \A q \in posts : /\ [q EXCEPT !.by = None].by = None
                         /\ [q EXCEPT !.by = None].to = q.to
                         /\ [q EXCEPT !.by = None].half = q.half
    BY <1>0 DEF PostType
  <2>2. posts' = {IF p.by \in mine THEN [p EXCEPT !.by = None] ELSE p :
                    p \in {q \in posts : q.to # i /\ ~(q.by \in mine /\ Answers(q, q.by))}}
    BY DEF Restart
  <2>3. ASSUME NEW p \in posts'
        PROVE  \/ p \in posts /\ p.by \notin mine /\ p.to # i
               \/ /\ p.by = None
                  /\ \E q \in posts : q.to # i /\ p.to = q.to /\ p.half = q.half
    <3>1. PICK q \in posts : /\ q.to # i
                            /\ p = IF q.by \in mine THEN [q EXCEPT !.by = None] ELSE q
      BY <2>2
    <3>2. CASE q.by \in mine
      BY <2>1, <3>1, <3>2
    <3>3. CASE q.by \notin mine
      BY <3>1, <3>3
    <3> QED
      BY <3>2, <3>3
  <2> QED
    BY <2>3
<1>4. OneRequest'
  BY <1>3 DEF OneRequest, ListInv
<1>5. HalfStored'
  <2>1. ASSUME NEW q \in posts, q.to # i, q.half # None
        PROVE  q.to \in restarted' \/ localStorage'[q.to][q.half[1]] # None
    BY <1>0, <1>1, <2>1 DEF HalfStored, ListInv, PostType
  <2> QED
    BY <1>3, <2>1 DEF HalfStored
<1>6. AllAwaited'
  <2>1. ASSUME NEW p \in posts' PROVE Awaited(p)'
    <3>1. CASE p.by = None
      BY <3>1, NobodyAwaitsOrphans
    <3>2. CASE p \in posts /\ p.by \notin mine
      <4>1. p.by \in Content => writes'[p.by] = writes[p.by]
        BY <3>2 DEF Restart
      <4>2. p.by \in Chore => chores'[p.by] = chores[p.by]
        BY <3>2 DEF Restart
      <4> QED
        BY <1>0, <1>2, <3>2, <4>1, <4>2, RequestStays DEF ListInv, AllAwaited
    <3> QED
      BY <1>3, <3>1, <3>2
  <2> QED
    BY <2>1 DEF AllAwaited
<1>7. WritesReached'
  <2>1. ASSUME NEW c \in Content PROVE WriteReached(c)'
    <3>1. CASE c \in mine
      <4>1. writes'[c] = [writes[c] EXCEPT !.stage = "failed"]
        BY <3>1 DEF Restart
      <4> QED
        BY <1>0, <4>1 DEF WriteReached, WriteType
    <3>2. CASE c \notin mine
      <4>1. writes'[c] = writes[c]
        BY <3>2 DEF Restart
      <4>2. writes[c].at # i \/ Ended(c)
        BY <3>2
      <4>3. WriteReached(c)
        BY DEF ListInv, WritesReached
      <4>4. WrittenTo' = WrittenTo /\ WrittenTo \subseteq Node
        BY DEF WrittenTo
      <4>5. WriteOK(writes[c])
        BY <1>0
      <4> QED
        BY <1>1, <1>2, <4>1, <4>2, <4>3, <4>4, <4>5
        DEF WriteReached, WriteOK, MemoryStays, Ended
    <3> QED
      BY <3>1, <3>2
  <2> QED
    BY <2>1 DEF WritesReached
<1>8. ChoresReached'
  <2>1. ASSUME NEW k \in Chore PROVE ChoreReached(k)'
    <3>1. CASE k \in mine
      <4>1. chores'[k] = NoChore
        BY <3>1 DEF Restart
      <4> QED
        BY <4>1 DEF ChoreReached, NoChore
    <3>2. CASE k \notin mine
      <4>1. chores'[k] = chores[k]
        BY <3>2 DEF Restart
      <4> QED
        BY <1>2, <4>1, OthersChoreStays DEF ListInv, ChoresReached
    <3> QED
      BY <3>1, <3>2
  <2> QED
    BY <2>1 DEF ChoresReached
<1>9. Listed'
  <2>1. ASSUME NEW h \in Node, NEW f \in Name, NEW n \in replicaMap'[h][f]
        PROVE  Stored(n, f)'
    <3>1. h # i /\ n \in replicaMap[h][f]
      BY <1>1 DEF Restart, IInv, StoreInv, StoresTyped
    <3> QED
      BY <1>2, <3>1, ListsAreOfNodes DEF ListInv, Listed, MemoryStays
  <2> QED
    BY <2>1 DEF Listed
<1> QED
  BY <1>4, <1>5, <1>6, <1>7, <1>8, <1>9 DEF ListInv

-----------------------------------------------------------------------------
LEMMA InitListsNobody == Init => ListInv
<1> SUFFICES ASSUME Init PROVE ListInv
  OBVIOUS
<1> QED
  BY DEF Init, ListInv, HalfStored, OneRequest, AllAwaited, WritesReached, ChoresReached,
         WriteReached, ChoreReached, Listed, NoWrite, NoChore

LEMMA StepsKeepLists == IInv /\ ListInv /\ [Next]_vars => ListInv'
<1> SUFFICES ASSUME IInv, ListInv, [Next]_vars PROVE ListInv'
  OBVIOUS
<1>1. CASE UNCHANGED vars
  <2>1. FilesStay /\ LocalStays /\ restarted \subseteq restarted' /\ posts \subseteq PostType
    BY <1>1 DEF vars, FilesStay, LocalStays, IInv, JobsInv
  <2>2. MemoryStays
    BY <2>1, FilesAndLocalsStay
  <2>3. OneRequest' /\ HalfStored'
    BY <1>1, <2>1, RequestsUntouched DEF vars
  <2>4. AllAwaited'
    BY <1>1, <2>1, <2>2, RequestStays DEF vars, ListInv, AllAwaited
  <2> QED
    BY <1>1, <2>1, <2>2, <2>3, <2>4, WritesStillReached, ChoresStillReached,
       ListsUntouched DEF vars, ListInv
<1>2. CASE Next
  BY <1>2, BeginWriteKeepsLists, WritingKeepsLists, HandlersKeepLists,
     BeginChoreKeepsLists, RemoveFailedKeepsLists, RestoringKeepsLists,
     UpkeepKeepsLists, RestartKeepsLists
  DEF Next
<1> QED
  BY <1>1, <1>2

(* A node that a file's list names as "storing replicas" (storage.go:7)    *)
(* does store it, in its store and in localStorage, unless it has lost its *)
(* memory: no failed, late or half-handled request, no write at the same   *)
(* time and no repair with an old list puts another node there.            *)
THEOREM ListsAreTrue == Spec => []ListedNodesStore
<1>1. ListInv => ListedNodesStore
  BY DEF ListInv, Listed, Stored, ListedNodesStore
<1> QED
  BY <1>1, InitEstablishes, StepsKeep, InitListsNobody, StepsKeepLists, PTL DEF Spec
=============================================================================
