---------------------------- MODULE ReplicaSync ----------------------------
(***************************************************************************)
(* How the level-0 LTX files that DB.Sync writes reach the replica: the    *)
(* upload loop of Replica.Sync, the compaction of level 0 into level 1,    *)
(* level-0 retention, and what Litestream does about its local files when  *)
(* it starts (checkDatabaseBehindReplica) and when they are damaged        *)
(* (ResetLocalState).  DB.Sync, Replica.monitor, the compaction monitor    *)
(* and the retention monitor are goroutines of their own.  WALSync is the  *)
(* detailed model of DB.Sync; here a file is just the states of the        *)
(* database it leads from and to.                                          *)
(***************************************************************************)
EXTENDS Integers, FiniteSets, FiniteSetsExt, Functions

CONSTANTS
    MaxState,     \* bound on the states the database goes through
    MaxTXID,      \* bound on the transaction IDs written locally
    MaxTrouble,   \* bound on failed requests, lost local files and restarts
    LoseNewest,   \* may local files vanish under the position Litestream has in memory?
    AutoRecover,  \* Replica.AutoRecoverEnabled
    RetentionEnabled \* DB.RetentionEnabled: may remote files be deleted?

ASSUME ReplicaBounds ==
    {MaxState, MaxTXID, MaxTrouble} \subseteq Nat
ASSUME ReplicaSwitches ==
    LoseNewest \in BOOLEAN /\ AutoRecover \in BOOLEAN /\ RetentionEnabled \in BOOLEAN

VARIABLES
    state,    \* the database: a number no earlier content had
    fork,     \* the first state of the history the database is in
    local,    \* level-0 files on disk, by TXID
    cache,    \* db.pos: the cached position, 0 when it is not cached
    remote,   \* level-0 files at the replica, by TXID
    l1,       \* what level 1 of the replica holds for each TXID it covers
    l1pos,    \* db.maxLTXFileInfos: cached end of level 1, 0 if not cached
    pc,       \* DB.init: "down" before it, "fetch" in it, "up" after it
    ready,    \* is db.pageSize known, which DB.Close leaves as it is?
    rpos,     \* Replica.pos, 0 when unknown
    notify,   \* is the channel Replica.monitor waits on closed?
    upto,     \* position the running Replica.Sync replicates to, 0 if none
    comp,     \* files opened by the running compaction
    del,      \* TXIDs the running retention deletes, and how far it got
    trouble,  \* failed requests, lost local files and restarts so far
    lost      \* was a local file lost?

appVars == <<state, fork>>
localVars == <<local, cache, l1pos>>
replicaVars == <<remote, l1>>
syncVars == <<rpos, notify, upto>>
backVars == <<comp, del>>
boundVars == <<trouble, lost>>
initVars == <<pc, ready>>
vars == <<appVars, localVars, replicaVars, syncVars, backVars, boundVars, initVars>>

TXIDs == 1..MaxTXID

\* The highest TXID of a set of files; 0 if there is none.
Highest(files) == Max(DOMAIN files \cup {0})

\* A file created or overwritten, and several of them deleted.
With(files, t, f) == [u \in DOMAIN files \cup {t} |-> IF u = t THEN f ELSE files[u]]
Without(files, S) == Restrict(files, DOMAIN files \ S)

\* The files of a, and those of b where a has none.
Over(a, b) == [t \in DOMAIN a \cup DOMAIN b |-> IF t \in DOMAIN a THEN a[t] ELSE b[t]]

NoFiles == [t \in {} |-> 0]
NoDelete == [step |-> "none", files |-> {}]

Init ==
    /\ state = 1 /\ fork = 1
    /\ local = NoFiles /\ cache = 0 /\ l1pos = 0
    /\ remote = NoFiles /\ l1 = NoFiles
    /\ pc = "down" /\ ready = FALSE
    /\ rpos = 0 /\ notify = TRUE /\ upto = 0
    /\ comp = NoFiles /\ del = NoDelete
    /\ trouble = 0 /\ lost = FALSE

Trouble == trouble < MaxTrouble /\ trouble' = trouble + 1

\* A request to the replica fails.
Fault == Trouble /\ UNCHANGED lost

-----------------------------------------------------------------------------
(* The database and the operator.                                          *)

AppCommit ==
    /\ state < MaxState
    /\ state' = state + 1
    /\ UNCHANGED <<fork, localVars, replicaVars, syncVars, backVars, boundVars, initVars>>

\* The operator puts back an older database while Litestream is stopped.
RestoreOlder ==
    /\ pc = "down"
    /\ state < MaxState
    /\ state' = state + 1
    /\ fork' = state + 1
    /\ UNCHANGED <<localVars, replicaVars, syncVars, backVars, boundVars, initVars>>

\* Litestream does not run, or it has closed the database and forgotten its
\* position.
NoPosition == pc = "down" /\ cache = 0

\* A local file is deleted or damaged.
LoseLocal(t) ==
    /\ Trouble /\ lost' = TRUE
    /\ t \in DOMAIN local
    /\ LoseNewest \/ NoPosition \/ t # Highest(local)
    /\ local' = Without(local, {t})
    /\ UNCHANGED <<appVars, cache, l1pos, replicaVars, syncVars, backVars, initVars>>

-----------------------------------------------------------------------------
(* DB.                                                                     *)

\* Pos: the cached position, or the highest file in the level-0 directory.
Pos == IF cache # 0 THEN cache ELSE Highest(local)

\* verify and sync: the next TXID continues the last local file, or is a
\* snapshot; it must be one when the database is not in that file's history.
\* verify fails, and nothing changes, when the file of the position is gone.
Sync(snap) ==
    LET p == Pos
    IN  /\ pc = "up"
        /\ p < MaxTXID
        /\ p # 0 => p \in DOMAIN local /\ local[p].to < state
        /\ p = 0 \/ local[p].to < fork => snap
        /\ local' = With(local, p + 1,
                         [from |-> IF snap THEN 0 ELSE local[p].to, to |-> state, snap |-> snap])
        /\ cache' = p + 1
        /\ notify' = TRUE
        /\ UNCHANGED <<appVars, l1pos, replicaVars, rpos, upto, backVars, boundVars, initVars>>

\* Mutant: only a Sync that wrote a file wakes Replica.monitor.
SyncNothing_Silent ==
    /\ pc = "up"
    /\ Pos \in DOMAIN local /\ local[Pos].to = state
    /\ cache' = Pos
    /\ UNCHANGED <<appVars, local, l1pos, replicaVars, syncVars, backVars, boundVars, initVars>>

\* A Sync that finds no change notifies the replica all the same.
SyncNothing ==
    /\ pc = "up"
    /\ Pos \in DOMAIN local /\ local[Pos].to = state
    /\ cache' = Pos
    /\ notify' = TRUE
    /\ UNCHANGED <<appVars, local, l1pos, replicaVars, rpos, upto, backVars, boundVars, initVars>>

\* ResetLocalState: every local file goes, the next sync starts at TXID 1.
ResetLocalState ==
    /\ local' = NoFiles
    /\ cache' = 0
    /\ l1pos' = 0

\* litestream reset, a process of its own: the files go, and so does the
\* position it never had.  Litestream itself keeps what it has in memory.
ResetCommand ==
    /\ pc = "down"
    /\ LoseNewest \/ NoPosition
    /\ local # NoFiles
    /\ local' = NoFiles
    /\ UNCHANGED <<appVars, cache, l1pos, replicaVars, syncVars, backVars, boundVars, initVars>>

\* Mutant: init does not compare the local files with the replica.
InitDB_NoCheck ==
    /\ pc = "down"
    /\ cache' = Pos
    /\ pc' = "up" /\ ready' = TRUE
    /\ UNCHANGED <<appVars, local, l1pos, replicaVars, syncVars, backVars, boundVars>>

\* init with checkDatabaseBehindReplica: the local files are removed when
\* the replica is ahead of them ...
InitDB ==
    /\ pc = "down"
    /\ IF Pos < Highest(remote)
       THEN /\ local' = NoFiles
            /\ cache' = 0
            /\ pc' = "fetch"
       ELSE /\ cache' = Pos
            /\ pc' = "up"
            /\ UNCHANGED local
    /\ ready' = TRUE
    /\ UNCHANGED <<appVars, l1pos, replicaVars, syncVars, backVars, boundVars>>

\* Mutant: the local files are cleared, the baseline is not fetched.
FetchBaseline_None ==
    /\ pc = "fetch"
    /\ cache' = 0
    /\ pc' = "up"
    /\ UNCHANGED <<appVars, local, l1pos, replicaVars, syncVars, backVars, boundVars, ready>>

\* ... and the replica's newest file takes their place.  If it cannot be
\* fetched init fails and the next Sync calls it again.
FetchBaseline ==
    /\ pc = "fetch"
    /\ \/ /\ local' = With(local, Highest(remote), remote[Highest(remote)])
          /\ pc' = "up"
          /\ UNCHANGED boundVars
       \/ /\ Fault
          /\ pc' = "down"
          /\ UNCHANGED local
    /\ cache' = 0
    /\ UNCHANGED <<appVars, l1pos, replicaVars, syncVars, backVars, ready>>

\* DB.Close, after its last syncs: a Replica.Sync under way is cancelled, which
\* forgets the replica's position.  The caches of the DB value survive, and the
\* monitors of the Store go on with what they began.
Close ==
    /\ pc = "up"
    /\ Trouble
    /\ pc' = "down"
    /\ rpos' = IF upto = 0 THEN rpos ELSE 0
    /\ notify' = TRUE /\ upto' = 0
    /\ UNCHANGED <<appVars, localVars, replicaVars, backVars, lost, ready>>

\* The process dies, at any point; files survive, memory does not.
Crash ==
    /\ pc # "down" \/ ready
    /\ Trouble
    /\ pc' = "down" /\ ready' = FALSE
    /\ cache' = 0 /\ l1pos' = 0
    /\ rpos' = 0 /\ notify' = TRUE /\ upto' = 0
    /\ comp' = NoFiles /\ del' = NoDelete
    /\ UNCHANGED <<appVars, local, replicaVars, lost>>

-----------------------------------------------------------------------------
(* Replica.monitor and Replica.Sync.                                       *)

\* Woken by DB.Sync: the position is recomputed from the replica when it is
\* unknown, and the sync replicates up to the position of the database.
ReplicaSyncStart ==
    /\ pc = "up"
    /\ notify /\ upto = 0
    /\ notify' = FALSE
    /\ Pos # 0
    /\ rpos' = IF rpos = 0 THEN Highest(remote) ELSE rpos
    /\ upto' = Pos
    /\ cache' = Pos
    /\ UNCHANGED <<appVars, local, l1pos, replicaVars, backVars, boundVars, initVars>>

\* There is no file to replicate yet: an error, which uses up the wake-up.
ReplicaSyncNoPosition ==
    /\ pc = "up"
    /\ notify /\ upto = 0
    /\ Pos = 0
    /\ notify' = FALSE
    /\ rpos' = 0
    /\ UNCHANGED <<appVars, localVars, replicaVars, upto, backVars, boundVars, initVars>>

\* The call ends with an error and the position is forgotten.
ReplicaSyncFails == rpos' = 0 /\ upto' = 0 /\ UNCHANGED notify

\* uploadLTXFile of the next TXID.  A failed request may have stored it.
Upload ==
    LET t == rpos + 1
    IN  /\ upto > 0 /\ t <= upto
        /\ t \in DOMAIN local
        /\ \/ /\ remote' = With(remote, t, local[t])
              /\ rpos' = t
              /\ UNCHANGED <<notify, upto, boundVars>>
           \/ /\ Fault
              /\ remote' \in {remote, With(remote, t, local[t])}
              /\ ReplicaSyncFails
        /\ UNCHANGED <<appVars, localVars, l1, backVars, initVars>>

\* A missing local file is an LTXError; Replica.monitor may then reset.
UploadMissing ==
    /\ upto > 0 /\ rpos + 1 <= upto
    /\ rpos + 1 \notin DOMAIN local
    /\ ReplicaSyncFails
    /\ IF AutoRecover THEN ResetLocalState ELSE UNCHANGED localVars
    /\ UNCHANGED <<appVars, replicaVars, backVars, boundVars, initVars>>

ReplicaSyncEnd ==
    /\ upto > 0 /\ rpos + 1 > upto
    /\ upto' = 0
    /\ UNCHANGED <<appVars, localVars, replicaVars, rpos, notify, backVars, boundVars, initVars>>

-----------------------------------------------------------------------------
(* Compaction into level 1 and level-0 retention.                          *)

\* The TXIDs of a set of files have no gap.
Contiguous(files) == DOMAIN files = Min(DOMAIN files)..Highest(files)

\* The end of level 1 as the compactor believes it.
L1Pos == IF l1pos # 0 THEN l1pos ELSE Highest(l1)

\* Compact lists the level-0 files after the end of level 1 and opens the
\* local copy where there is one ...
CompactList ==
    /\ ready
    /\ comp = NoFiles
    /\ LET src == Restrict(remote, {t \in DOMAIN remote : t > L1Pos})
       IN  /\ src # NoFiles
           /\ comp' = [t \in DOMAIN src |-> Over(local, src)[t]]
    /\ l1pos' = L1Pos
    /\ UNCHANGED <<appVars, local, cache, replicaVars, syncVars, del, boundVars, initVars>>

\* ... and merges them into one level-1 file, if their TXIDs are contiguous.
\* A failed request may have stored it.
CompactWrite ==
    /\ comp # NoFiles
    /\ comp' = NoFiles
    /\ \/ /\ Contiguous(comp)
          /\ l1' = Over(comp, l1)
          /\ l1pos' = Highest(comp)
          /\ UNCHANGED boundVars
       \/ /\ ~Contiguous(comp)
          /\ UNCHANGED <<l1, l1pos, boundVars>>
       \/ /\ Fault
          /\ l1' \in {l1, IF Contiguous(comp) THEN Over(comp, l1) ELSE l1}
          /\ UNCHANGED l1pos
    /\ UNCHANGED <<appVars, local, cache, remote, syncVars, del, initVars>>

\* EnforceL0RetentionByTime: the files older than the retention period are
\* those up to `old'; the newest file of the level is kept.  It asks only
\* whether the database is open, which it is before DB.init.
Expired(old) ==
    LET seen == {t \in DOMAIN remote : t <= old}
        gone == {t \in seen : t <= Highest(l1)}
    IN  IF seen = DOMAIN remote THEN gone \ {Highest(remote)} ELSE gone

RetentionList ==
    /\ del.step = "none"
    /\ \E old \in TXIDs :
          /\ Expired(old) # {}
          /\ del' = [step |-> "remote", files |-> Expired(old)]
    /\ UNCHANGED <<appVars, localVars, replicaVars, syncVars, comp, boundVars, initVars>>

\* DeleteLTXFiles; when it fails some of the files may be gone.
RetentionRemote ==
    /\ del.step = "remote"
    /\ \/ /\ remote' = IF RetentionEnabled THEN Without(remote, del.files) ELSE remote
          /\ del' = [del EXCEPT !.step = "local"]
          /\ UNCHANGED boundVars
       \/ /\ RetentionEnabled
          /\ Fault
          /\ \E S \in SUBSET del.files : remote' = Without(remote, S)
          /\ del' = NoDelete
    /\ UNCHANGED <<appVars, localVars, l1, syncVars, comp, initVars>>

RetentionLocal ==
    /\ del.step = "local"
    /\ local' = Without(local, del.files)
    /\ cache' = 0
    /\ del' = NoDelete
    /\ UNCHANGED <<appVars, l1pos, replicaVars, syncVars, comp, boundVars, initVars>>

-----------------------------------------------------------------------------

\* The goroutines.
DBMonitor == InitDB \/ FetchBaseline \/ SyncNothing \/ \E snap \in BOOLEAN : Sync(snap)
ReplicaMonitor == ReplicaSyncStart \/ ReplicaSyncNoPosition \/ Upload \/ UploadMissing \/ ReplicaSyncEnd
Compaction == CompactList \/ CompactWrite
Retention == RetentionList \/ RetentionRemote \/ RetentionLocal

Next ==
    \/ DBMonitor \/ ReplicaMonitor \/ Compaction \/ Retention
    \/ AppCommit \/ RestoreOlder \/ ResetCommand \/ Close \/ Crash
    \/ \E t \in TXIDs : LoseLocal(t)

Spec == Init /\ [][Next]_vars

\* DB.monitor and Replica.monitor run for as long as the process does.
FairSpec == Spec /\ WF_vars(DBMonitor) /\ WF_vars(ReplicaMonitor)

-----------------------------------------------------------------------------
(* Properties.                                                             *)

\* What a restore finds for a TXID: its level-0 file or level 1.
Stored == Over(remote, l1)

\* At the replica each TXID starts where its predecessor ended, or is a
\* snapshot, and up to the newest level-0 file none is missing: a restore in
\* TXID order never mixes two histories and meets no gap, whatever was lost,
\* reset, restored, expired or retried in between.
ReplicaChain ==
    /\ \A t \in 1..Highest(remote) : t \in DOMAIN Stored
    /\ \A t \in DOMAIN Stored :
          t - 1 \in DOMAIN Stored /\ ~Stored[t].snap => Stored[t].from = Stored[t - 1].to

\* A TXID names one file, wherever it is: locally, in level 0 and in level 1.
\* Compaction may therefore read the local copy, and a repeated upload
\* overwrites a file with itself.
OneFilePerTXID ==
    /\ \A t \in DOMAIN local \cap DOMAIN remote : local[t] = remote[t]
    /\ \A t \in DOMAIN remote \cap DOMAIN l1 : remote[t] = l1[t]

\* Uploads that fail, and restarts, are made up for: the newest file at the
\* replica keeps reaching the current state of the database, as long as no
\* local file is lost (which stops replication until an operator resets it).
KeepsReplicating ==
    []~lost => []<>(Highest(remote) # 0 /\ remote[Highest(remote)].to = state)

\* What litestream reset says: the next sync starts over with a snapshot,
\* because no position is left.
ResetStartsAfresh ==
    [][ResetCommand => Pos' = 0]_vars

=============================================================================
