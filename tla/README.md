# A TLA+ verification project for Litestream

Litestream (`src/environment/project`, Go, based on v0.5.11) replicates a
SQLite database. It runs beside the application, copies the write-ahead log
(WAL) into a chain of LTX files, uploads them to a storage backend, compacts and
expires them there, and restores a database from them. This directory holds
TLA+ models of the parts that carry that logic, the TLC runs that check them and
the TLAPS proofs about them.

Paths below are relative to `src/environment/project` unless they start with
`src/`.

## 1. The system

| Component | State it keeps | Operations | Works with |
|---|---|---|---|
| `DB` (`db.go`) | level-0 LTX files on disk; `pos`, `syncedToWALEnd`, `lastSyncedWALOffset`, `syncedSinceCheckpoint`; a long-running read transaction; `mu`, `chkMu` | `Sync`, `verify`, `sync`, `checkpoint`, `init`, `Close`, `ResetLocalState`, `Snapshot`, `Compact`, retention | SQLite through the WAL, the database file and its locks; `Replica` through `notify` |
| `WALReader` (`wal_reader.go`) | salts, running checksum, frame number | `ReadFrame`, `PageMap`, `FrameSaltsUntil` | called by `verify` and `sync` |
| `Replica` (`replica.go`) | `pos`, the wake-up channel | `Sync`, `monitor`, restore of v0.3 backups | `DB.Pos`, the `ReplicaClient` |
| Restore and follow (`replica.go`) | the output database, its `-txid` file, `lastTXID` | `CalcRestorePlan`, `Restore`, `follow`, `applyNewLTXFiles`, `fillFollowGap`, `applyLTXFile` | the `ReplicaClient`, while another process writes and expires the files |
| `Compactor` (`compactor.go`), `Store` (`store.go`, `compaction_level.go`) | cached end of every level; registered databases; heartbeat | `Compact`, snapshot and level-0 retention, `RegisterDB`, `SyncDB`, monitors | every database, the `ReplicaClient` |
| `ResumableReader` (`internal/resumable_reader.go`) | `offset`, the open stream | `Read`, `Close` | used by `Restore`; reopens streams at the `ReplicaClient` |
| `Leaser` (`leaser.go`, `s3/leaser.go`) | none; the lease is an S3 object | acquire, renew, release | conditional requests to S3 |
| VFS (`vfs.go`, `src/litestream-vfs.c`) | page index, pending index, cache, poll position; dirty pages, write intent; the map of connections | reads, polling, time travel; write-back, conflict check, turning writes off and on; SQL functions | SQLite's locks and reads, the `ReplicaClient` |
| Storage clients (`file`, `s3`, `gs`, `abs`, `oss`, `nats`, `sftp`, `webdav`) | remote files | list, open, write, delete | outside services |
| Command line (`cmd/litestream`), IPC server (`server.go`), directory watcher | configuration | commands | `Store`, `DB` |

What is hard in it: every goroutine (`DB.monitor`, `Replica.monitor`, the
compaction, retention and snapshot monitors) runs at its own pace; SQLite's
application writes, checkpoints and restarts the WAL whenever Litestream's locks
let it; flags and positions cached in one call are used in later ones; requests
fail after they took effect; and the process may die between any two steps.
`PROJECT.json` lists the places ("hazards") with the properties that cover them.

What makes each part correct:

* `DB.Sync`: every prefix of the LTX chain restores to a state the application
  committed, in commit order, and a call catches up with what was committed
  before it.
* upload, compaction, retention: the replica holds one contiguous chain, a
  transaction ID names one file everywhere, nothing is deleted before it is
  compacted, and the newest state eventually arrives.
* `ResumableReader`: the bytes of the file in order, or an error.
* lease: one holder at a time.
* restore plan: a contiguous chain of files to the target whenever there is
  one, and no silent stop before a gap.
* store: one registered `DB` per path, nothing left running after it is removed,
  and a read transaction that lives as long as the database is replicated.
* VFS: a reader sees one state while it holds its lock; a connection uploads
  committed pages only, and nothing of it is left behind once writes are off.
* restore and follow: the destination appears complete or not at all, the
  database and its `-txid` file belong together, the follower keeps up.

## 2. Modules

| Module | Models | Kind |
|---|---|---|
| `SQLiteWAL` | the database file, the WAL and SQLite's locks, as the application changes them | environment (external) |
| `WALSync` | `DB.Sync` with `verify`, `sync`, `checkpoint`, `init`, `Close`, crashes; `wal_reader.go` | component, composed with `SQLiteWAL` |
| `WALSyncProofs` | | proofs |
| `ReplicaSync`, `ReplicaSyncProofs` | upload, compaction into level 1, level-0 retention, start-up check, reset, auto-recovery | composition of four goroutines, proofs |
| `RestorePlan` | `CalcRestorePlan` and its level cursors | algorithm against a reference |
| `Follow`, `FollowProofs` | `Restore` and follow mode beside a replica that is written, compacted and expired | composition of follower and replica, proofs |
| `ResumableReader` | `internal/resumable_reader.go` | component |
| `RestoreProofs` | theorems about `RestorePlan` and `ResumableReader` | proofs |
| `Publish` | the end of `Restore`: temporary file, rename, integrity check, for restores that run at once | component |
| `Store`, `StoreProofs` | run-time requests (`server.go`, `store.go`) and the life of a `DB`: `Open`, `monitor`, `init`, `Close` | composition of request goroutines and monitors, proofs |
| `TimedLock` | what a `Leaser` promises: a lock that lapses | abstract specification |
| `Lease`, `LeaseProofs` | `s3/leaser.go`, `leaser.go` | component that implements `TimedLock`, proofs |
| `VFSRead`, `VFSReadProofs` | a read-only connection of the VFS beside a replica that is written, compacted and expired | composition of SQLite's thread, the poller and the replica, proofs |
| `VFSWrite`, `VFSWriteProofs` | the connections of a write-enabled VFS | composition of connections, proofs |

The constants of these specifications are plain numbers and switches, so every
`.cfg` instantiates its specification directly; definitions named
`Operator_Something` directly above `Operator` are wrong variants ("mutants") used
to make sure that a property can fail, and no specification uses them.

### WALSync and SQLiteWAL

State: `dbfile`, `wal`, `hsalt` are the bytes on disk (a frame is page, value,
salt and commit size; offsets are counted in frames, so 0 is the end of the WAL
header); `mx`, `nbf`, `rtx`, `wlock` are SQLite's `mxFrame`, `nBackfill`,
Litestream's read mark and the write lock; `hist` records every committed
database. `ltx` is the level-0 directory, `call` the local variables of the
running call, `toEnd`, `lastOff`, `sinceChk` the fields of `DB`. A step ends
where the code reads or writes a file or takes a lock:

`SyncStart` (`Sync`, `ensureWALExists`), `Verify` (`verifyAndSync`, `verify`,
`lastPageMatch`, `detectFullCheckpoint`), `Scan` (`sync` up to the page map),
`WriteLTX` (the rest of `sync`), `SyncEnd` / `CheckpointStart`
(`checkpointIfNeeded`, `checkpoint`), `ReleaseReadLock`, `Pragma`,
`AcquireReadLock` (`execCheckpoint`), `CheckpointSeq`, `CompareHeader` (the rest
of `checkpoint`), `InitDB`, `Close`, `Crash`. Between any two of them the
application commits, spills, rolls back or checkpoints (`AppNext`), and the read
transaction may end with the context it was begun in (`ContextEnds`: that of a
`/sync` request, or the DB's own, which `Close` cancels before its last `Sync`).
Taking the read lock again may fail, and the error of the deferred attempt is
dropped, so that the following calls run without it.

Frame checksums are not modelled: SQLite writes the frames of one salt in order,
so a frame that carries the salt of the header has a valid checksum. SQLite's own
crash is not modelled. A failed read or write of a file ends the call like the
errors that are modelled, and leaves the state alone. `Close` may follow a failed
last `Sync`, which is why it is allowed whenever no call runs.

Five switches separate what the code relies on from what the environment may do:
`AppCheckpoints` (the application checkpoints while Litestream holds no read
lock, and truncates the WAL up to `MaxSalts` times), `Recycle` (a writer restarts a
fully checkpointed WAL in place), `WindowCommits` (the application writes between the
last sync and the checkpoint), `LosesReadLock` (the read lock is lost as described
above) and `TimeCheckpoints` (`CheckpointInterval` is set). `wal_sync` checks the chain
with the first three off. Nothing in the code rules them out, and each breaks it:

* `Recycle`: a WAL restarted in place by fewer frames than it had keeps its length; the
  frame at the old offset is still the old one, and the commit in front of it is not
  found (`wal_recycle`). If every old frame is overwritten, the reader finds the wrong salt
  before the offset (`PrevFrameMismatchError`) and starts at the header;
* `WindowCommits`: a commit between the copy and the truncating checkpoint is in no file,
  and the next file goes on as if nothing were missing (`WALWindow.cfg`);
* `AppCheckpoints`: together with `Recycle` and a stop of Litestream, the application
  commits, checkpoints and restarts the WAL, the frame of the last sync survives behind
  the restarted part, `lastPageMatch` accepts it and the checkpointed commit is in no
  file (`WALStale.cfg`). Without a stop too: if the WAL was copied completely before `init`,
  Litestream's read mark is 0, which does not keep a truncating checkpoint out, and the
  page map of a sync may name frames of the new WAL.

What does hold with all switches on is in `wal_hostile`: a file whose pages were read
under the read mark is consistent in itself.

### ReplicaSync

`WALSync` is the detailed model of `DB.Sync`; here a file is the pair of database
states it leads from and to, and `Sync(snap)` writes the next one. It may always
be a snapshot and must be one when the database is not in the history of the
last local file (`fork`): that `verify` notices this is assumed, as the comment
above `checkDatabaseBehindReplica` does. `ReplicaSyncStart`, `Upload`,
`UploadMissing`, `ReplicaSyncEnd` are `Replica.Sync`; `CompactList` and
`CompactWrite` are `Compactor.Compact`, split where it stops listing and opening
files and starts to write; `RetentionList`, `RetentionRemote` and `RetentionLocal`
are `EnforceL0RetentionByTime`; `InitDB` and `FetchBaseline` are `init` with
`checkDatabaseBehindReplica`, which can fail or crash between the two. The
environment commits, puts back an older database while Litestream is stopped
(`RestoreOlder`), and loses local files.

`Close` is a stop of the database in a process that lives on: `Replica.pos`, the cached
end of level 1, `db.pos` and the compaction and retention under way survive it; `Crash`
clears all of them. `ready` says that the page size is known, which is what
compaction asks for (`store.go:747`); it stays after `Close`. `ResetCommand` is a process
of its own and removes local files only.

`LoseNewest` lets local files vanish under a position that Litestream has in memory: the
newest file of a running process is lost, or `litestream reset` meets a database that was
closed but whose process still has its position. Nothing in the code survives the former
together with a retention that drops the cached position (TXIDs are then reused), so
`replica_sync` keeps it off; `ReplicaReset.cfg` shows the latter: after the reset the position
is still that of before, the sync fails on the missing file, and no fresh snapshot is taken.
The runs keep `AutoRecover` off as well: the reset of a running process
(`ResetLocalState`) starts the TXIDs again beside files of the old history, which
breaks `ReplicaChain` with five states, three TXIDs and one lost local file.

### RestorePlan

The replica's files are chosen in `Init`: any subset of the level-0 files and of
the snapshots, and up to `MaxUpper` compacted files of any range, overlapping ones
included. `rest`, `cand` and `done` are the cursors: what the iterator has yet to
yield (`current` is its first element), the candidate, and `done`. A listing is
sorted by the first TXID, so that `refresh` reads exactly the files that start at
`currentMax + 1` or before (`Due`). One action is one round of the loop;
`restoreCandidateBetter` compares creation times last, which two files with the
same level and range, hence the same name, never reach. Errors of the listings,
which end the call, are left out.

### Follow

A page holds the TXID of its last writer. `hist[t]` is the database after
transaction `t`; a file is its level and range, and holds the pages that its
transactions wrote last. `db` is the output file as readers see it, `disk` what of
it is synced, `side` the `-txid` file. `Restore` is one step up to the rename;
`WriteFirstTXID` records the TXID. `PollStart`, `ScanApply`, `FillStart` and
`PollDone` are `applyNewLTXFiles` and the loop of `follow`, `FillApply` and
`FillNext` are `fillFollowGap`, `WritePage`, `Truncate` and `FinishFile` are `applyLTXFile`: a
step ends at a request to the replica or at a write of the database. The replica
uploads, compacts, takes snapshots and expires files between any two of them, so a
listed file may be gone when it is opened, and level 0 and level 1 are listed at
different times. A crash keeps any mixture of written and synced pages. A failed
`WriteTXIDFile` ends the process and is a crash in the model; rewriting the header
of page 1 and the file mode are left out.

`Corruptible` names the levels whose files may arrive corrupt, which the decoder
notices only in `Close`, after the pages are written: both levels in the runs. Item 5
of `src/instruction.md` wants a failed poll to leave database and TXID alone and a
retry to succeed; neither is so (`FollowPoll.cfg`, `FollowRetry.cfg`). Most of the damage is
repaired, because the next poll applies the same transactions again. What is not:
level 0 is listed empty, a file `[1, 2]` appears in level 1 and is applied with a corrupt
page that transaction 1 wrote; the poll fails, the next one finds transaction 2 in level 0
and applies only its pages, and the TXID is recorded over a page that stays wrong.
The ghost `spoilt` collects such pages, and `ExactWhenCaughtUp` says that the database is
exact on all others.

Two facts about the code that the model shows and that a reader should know: after
a restart the follower is refused for as long as the newest snapshot does not reach
its recorded TXID (`Refused`, `replica.go:580`), and a follower that falls behind
snapshot retention stays where it is for good, because `fillFollowGap` never looks
at snapshots (`Pruned`).

### ResumableReader

The bytes of the file are `1..Size`, a stream is the position it has reached, and
a read returns up to `MaxBuffer` bytes with no error, `io.EOF` (at the end, or
because the server hung up) or another error. `size` is the advertised size, 0 if
it is unknown. The code reopens a dropped stream one byte back
(`internal/resumable_reader.go:72`) and hands that byte to the caller again. Hence three
things that the comment above the type or item 2 of `src/instruction.md` promise and the
code does not keep: a byte is delivered twice (`ReaderSeamless.cfg`), `io.EOF` one byte
before the end passes for the end, because `r.offset` counts the repeated byte
(`ReaderEOF.cfg`), and the attempts, a local variable of `Read`, are no budget of the reader
(`ReaderBudget.cfg`). What holds is weaker and is checked and proved: no byte is missing
before one that is delivered (`NoByteSkipped`), and Read gives up only after as many
interruptions as it has retries for (`BudgetIsGranted`, with the ghost `credits`).

### Publish

A file is an inode, so that a restore goes on writing to the file it has opened
whatever its name has become. `Stat`, `Create`, `Decode` (one page), `Rename`,
`CheckPasses`, `CheckFails` and `Fail` are the steps of `Restore` from its test of
the destination on. Two restores share `<output>.tmp`: the second empties it after
the first has decoded, and an empty file is published. With `IntegrityCheck = TRUE`
one restorer alone breaks the property too: the destination exists before its check
has passed (`replica.go:697`). A failed restore leaves its temporary file.

### Store

One path. `dbs` is the list of the store, `opened`, `ctx`, `conn` (`db.db`) and `rtx`
are fields of each `DB`, `monitors` counts its goroutines by the context they wait
for, `call` is what every request goroutine does. `RegisterDB` and `SecondCheck` are
`Store.RegisterDB`, split where it gives `s.mu` up; `UnregisterDB`, `FindDB`, `IsOpen`
and `SyncDB` with `Reply` are the other requests; `Open`, `OpenFails`, `Launch`,
`MarkOpened` are `DB.Open`; `Cancel`, `Wait`, `LastSync`, `Release`, `MarkClosed` are
`DB.Close`, which takes no lock before its end. `Sync` is `DB.Sync` as far as it
concerns the handle and the read transaction: `WALSync` has the rest. A transaction
of `database/sql` is rolled back when the context it was begun in is cancelled,
which is why `rtx` records that context.

`asked` and `failed` remember which requests and failures a behaviour has had, so
that a property can name the ones it cannot stand. With all requests at most one
instance is registered. With registrations, removals and stops nothing is left behind
either. What goes wrong otherwise:

* `NoStray`, a start: `EnableDB` opens the instance that `FindDB` returned without
  looking whether it is still registered (`store.go:373`). If it was unregistered and
  closed meanwhile it is monitored again and no request can reach it, although
  `UnregisterDB` "stops monitoring the database at the provided path and closes it"
  (`store.go:322`). A sync request that found the database before it was stopped
  initializes it again after `Close`: the handle and the read lock stay with a
  closed instance. The property is about behaviours without starts and syncs;
* `RequestsReturn`, two stops and a start: the second `Close` is still waiting when the
  start launches a new monitor, and waits for that one (`db.wg.Wait`) until somebody
  else closes; or it marks as closed what has just been opened, and the monitor goes on.
  The property is about behaviours without starts;
* `ReadLockHeld` (`StoreLock.cfg`): `acquireReadLock` begins the "long-running read
  transaction" (`db.go:867`) with the context of whoever calls `Sync` (`db.go:963`). A
  `/sync` request that waits has a context of its own, by default too (`server.go:341`): if
  it comes to a checkpoint, the transaction is rolled back when the request is answered,
  `db.rtx` stays set, and nobody takes the lock again before the next checkpoint;
* `InitIsRetried` (`StoreInit.cfg`): `init` assigns `db.db` and returns when
  `setPersistWAL` or opening the file fails before its cleanup is deferred
  (`db.go:827`), although "Initialization can retry on next sync" (`db.go:837`). The next
  call takes the database for initialized, without read lock, file descriptor or
  replica monitor.

Reading and writing `db.db` in `Close` while a `Sync` runs is a data race; the
model has the order of the two and no torn values.

### Lease and TimedLock

`net` holds requests S3 has yet to serve; a client may give up on a request that
is served later, and an answer may be lost. Assumed: the clients' clocks agree,
every write gets a new ETag, and a client acts on a lease only while its own clock
says it is valid. A refused request answers "exists" (412), or with an error if the object
its ETag names is gone (`Refusal`). Reading the lock file and deciding is one step with sending the
conditional write; the write is served at any later time.

`TimedLock` knows a clock and the grant in force. `Lease` implements it with the
mapping `held`: the lease of the client that holds one. A request that is served late
must never look like anything but a grant to nobody's loss, an extension by the owner,
a release or the passing of time.

### VFSRead

A page holds the TXID of its last writer, a file is its level and range, and an
index maps a page to a file. SQLite's thread (`conn`) opens, locks, reads and
travels in time (`Begin`, `BuildIndexMap`, `RebuildIndex`: plan, page indexes, swap);
the poller (`poll`) lists level 0, then level 1, and applies what it found
(`PollStart`, `PollL0`, `PollL1`, `PollApply`). `f.mu` is free in between. `raced`
remembers that an index was swapped in during a poll.

What the model shows and a reader should know:

* level-1 entries of a poll overwrite level-0 entries, newer ones among them, so a page
  may go back to an older content: hence `NotOlderThanLevel1`, and nothing stronger;
* when `maxTXID1` was seeded from the position and the next level-1 file begins before
  it, every poll ends with "non-contiguous ltx file";
* a rebuild that races a poll can leave `pos` ahead of an index that lacks a
  transaction (the properties ask for `~raced`);
* a transaction that shrinks the database replaces the whole index with the pages of
  its own file;
* SQLite reads page 1 of a file it has just opened without a lock, and a poll in between
  leaves the old page in the cache: `CacheAgrees` is about the other pages.

Simplified: a restore plan is computed over one listing of all levels, and `PollL0`
reads `commit` and `maxTXID1` and lists in one step.

### VFSWrite

A page holds the transaction that wrote it. SQLite's thread of each connection locks,
writes and commits or rolls back (by writing the journal's pages back); `Sync`,
`CheckPasses` or `CheckConflicts`, and `Upload` or `RequestFails` are
`syncToRemoteWithLock`, which `syncLoop`, `Close` and `SetWriteEnabledWithTimeout` call.
The latter is `Disable` (the timer and its goroutine start), `DisableWaits` (`cond.Wait`),
`DisableResumes`, `DisableProceeds`, `DisableTimesOut` and `Enable`, with `TimerFires` (the
goroutine's only `Broadcast`, sent without `f.mu`) and `DeadlinePasses` beside them:
`Broadcast` wakes a call that is in `Wait` and does nothing otherwise. The
connections share `vfs.writeFile` and `vfs.lastSyncedTXID`. A failed request may have
stored the file.

* The upload has no condition. Two connections that both pass the check store the same
  TXID, and one file is lost, although docs/VFS.md:286 says "Conflict detection prevents
  overwrites if the remote has newer transactions" (`VFSOverwrite.cfg`).
* The timer is started before the deadline is computed. Its Broadcast may come
  before the deadline, or before the call is in `Wait`; nothing wakes the call again while
  the transaction is open (`VFSDisable.cfg`). As `Lock(EXCLUSIVE)` of that transaction
  waits while writes are being turned off, both wait for ever. What holds is that the end
  of the transaction is never missed (`WakeUpIsOwed`).
* An upload that was stored and reported as failed makes every later sync of the
  connection a conflict; what is dirty when the last sync of `Close` fails is lost.

Left out: local I/O errors of the write buffer after an upload, `Close` while a call
turns writes off, and polling by a connection that writes (it never sees pages that
other connections of the VFS have uploaded, although its position passes them).

## 3. Runs

| Run | Module | Shows |
|---|---|---|
| `wal_sync` | `WALSync` | chain, catching up, the write lock; two pages, two application commits plus Litestream's own, one spilled transaction, two checkpoints, one crash or close, a read lock that may be lost at any time; the chain keeps reaching the current state |
| `wal_hostile` | `WALSync` | with all switches on: a file read under the read mark comes from one committed state, and the assertion in `sync` holds |
| `wal_recycle` (violation) | `WALSync` | a WAL restarted in place keeps its length, and `verify` misses commits |
| `replica_sync` | `ReplicaSync` | one contiguous chain at the replica under faults, losses, closes, crashes and rollbacks of the database; the newest state keeps arriving unless a local file is lost |
| `resumable_reader` | `ResumableReader` | nothing skipped, retries granted, termination |
| `restore_plan` | `RestorePlan` | a chain to the target whenever the files allow one, nothing silently left behind a gap, termination |
| `follow` | `Follow` | the followed database is exact, but for spoilt pages, whenever the follower has caught up with what it began, is never older than its `-txid` file, and keeps up |
| `publish` (violation) | `Publish` | two restores to one path publish an empty file |
| `store` | `Store` | one registered instance per path; without the requests named above, nothing left behind and every call returns |
| `lease` | `Lease` | one holder; the lease implements `TimedLock` |
| `vfs_read` | `VFSRead` | one state per lock, cache and index agree, historical views are exact, level 1 is never lost |
| `vfs_write` | `VFSWrite` | one writer, committed pages only are uploaded, nothing left when writes are off, no lost wake-up |

Bounds. Two pages are enough for a file that changes one page and not the other,
for growth and for shrinking; two application commits and up to four of
Litestream's own give WALs of up to four frames, past the special cases of
`verify` at offsets 0 and 1 and past both checkpoint thresholds (2 and 3 frames).
Four TXIDs let two be compacted, one be expired and one be in flight, with any two of
failed requests, closes, crashes and lost local files (`MaxTrouble`). The
restore plan is checked for every set of files over three transactions with three
levels, up to two compacted files and any target (the same run with four
transactions passes too, and takes minutes). Three transactions let a follower
restore the first, miss the second in level 0 and find it in level 1 while the
third arrives; two pages let a transaction leave one of them alone, shrink the
database and let it grow again; one failure, corruption or crash happens at any
point, and files disappear at any time. The reader
runs on five bytes with three retries, the code's own number. Two clients, two
requests under way and a clock of four values let a lease expire, be taken over
and be met by a late request of its old holder. The VFS reader has two pages, three
transactions, a cache of one page and one journey in time (two million states): enough
for a poll between two reads, a page fetched from a file that is replaced meanwhile, a
database that shrinks, and a poll that meets a rebuild. Two writing connections, two pages,
two transactions and one failed request let each connection upload, take over the
other's TXID and be refused. Four requests by two goroutines let a duplicate, its
removal and a stop or a start overlap; three instances let one be registered after a
duplicate and a removal.

Fairness. `WALSync` states weak fairness with its enabling condition written out
(`CanStep`), which TLC evaluates much faster than `ENABLED`; the two were compared on
smaller instances. `DB.monitor` and `Replica.monitor` are loops on tickers that run until
the process ends; weak fairness of their steps is what the Go scheduler and the
ticker give. The same holds of the follower, one goroutine that polls on a ticker.
Nothing is assumed of the application, of compaction or of retention.
The number of failed requests, crashes and empty reads is bounded, which says that
failures do not go on for ever. `KeepsReplicating` asks for no lost local file: a lost
file stops replication until an operator resets it. In `Store`, goroutines run and
tickers fire (weak fairness); nobody has to make a request. The run `vfs_write` checks
safety only and states no fairness; `VFSDisable.cfg` (section 5) does: uploads under
way go on and time passes (weak fairness), and the call that turns writes off gets `f.mu`
in the end although `syncLoop` competes for it (strong fairness: Go's mutex hands itself to
a waiter that starves). Nothing is assumed of SQLite's thread, which may leave a transaction
open for ever.

Deadlock is not checked in `lease` (a client may stop asking for leases), `publish`
(the restores end), `vfs_read` and `vfs_write` (connections may rest or be closed).

## 4. Proofs

* `WALSyncProofs!LocksHold`: `WriteLockReturned` holds of `Spec` for all constants,
  whether or not the read lock is lost. The property is inductive once the record of
  local variables has its stage (`HasStage`).
* `WALSyncProofs!TypesHold` and `SegmentSizes`: `TypeOK`, and the assertion in `sync`,
  `WalSizeNotNegative`, for all constants, whatever switches are on.
* `WALSyncProofs!MarkedReadHolds`: `MarkedReadIsConsistent` for all constants, with no
  switch assumed off: whatever the application does, and even when the chain is not the
  history, the pages of one file come from one committed state. As frames of old
  generations stay in a recycled WAL, the invariant (`MarkIInv`) first says which frames
  belong to which generation (`GenerationInv`: no frame is newer than the header, and the
  frames up to the end of the WAL are the header's). The read mark is a frame count of
  this WAL, so the frames before it stay (`ReadMarkInv`); a page whose frames are all copied
  is the database file's (`CopyInv`). A file of the chain holds the page of its last frame
  as long as that frame exists (`LastInv`), which is what `verify` compares, so the offset it
  answers with continues the chain, or a snapshot is taken (`StartInv`). The page map of a
  scan then names frames with the values of one commit, and a page that a snapshot has to
  take from the database file has that commit's value there until the file is written
  (`MapInv`).
* `RestoreProofs!ReaderTypes`, `ReaderSkipsNothing`, `ReaderGrantsBudget`:
  `ReaderTypeOK`, `NoByteSkipped`, `BudgetIsGranted` for any size, buffer and number of
  retries. The invariant says where the open stream stands relative to the bytes delivered:
  exactly behind them, or before, never after, although `r.offset` runs ahead by a byte; and
  that a call never counts more attempts than there were interruptions.
* `RestoreProofs!PlanChain`: `PlanIsChain` for any number of levels and
  transactions and any set of files. The chain is inductive together with
  `CandidatesFit`: a candidate is allowed by the target and starts at most one
  transaction behind the plan, also when it has gone stale in a finished cursor.
* `RestoreProofs!PlanComplete`: `PlanIsComplete`, with `CompleteInv`: every file a
  cursor has read is behind the plan, or the one candidate the cursor kept reaches at
  least as far (`CursorInv`), so that nothing is lost with the candidates that were
  dropped; and the loop ends at the target or when no file continues the plan (`EndInv`).
  That no chain of files reaches further then follows by looking at the first file of such
  a chain that ends beyond the plan.
* `ReplicaSyncProofs`: `ReplicaChain`, `OneFilePerTXID` and the action property `StoredKept`
  (`ReplicaOnlyGrows`: what the replica has for a TXID it has for good) for any number of
  states, TXIDs, failures, closes, crashes and lost files, with `AutoRecover` and `LoseNewest` off
  as in the run (`ReplicaSync` above says what each leads to). In the invariant, the local
  files reach as far as the replica while Litestream runs (`AheadInv`: what the start-up
  check is for), an upload under way is of the next TXID (`NextInv`), level 0 and level 1
  together have every TXID and level 1 every one up to its own newest (`CoverInv`), a TXID
  names one file wherever it is (`SameInv`), files continue one another across the
  directories (`ChainInv`), and what a compaction or a retention listed some steps ago is
  still safe to write or to delete (`BackInv`).
* `StoreProofs`: `OneRegistered` and `NoStray` for any number of instances,
  goroutines and requests. Until it is registered an instance belongs to the call that
  made it (`OwnInv`); whatever an instance off the list still has, a call is on the way to
  release it, and once a `Close` has waited only a start brings monitors back (`CareInv`).
* `FollowProofs`: `ExactWhenCaughtUp` and `NeverOlderThanRecorded` for any number of pages,
  transactions, levels and failures, and corrupt files of any level. The invariant says what a failed poll or a crash leaves behind: a page that
  differs from the state reached is spoilt, or is replaced by a transaction that was begun and
  is not finished (`AtState`), no page is older than the state (`NotOlder`), and the size is right
  once everything begun is applied. `DataInv` says so of what readers see, with the TXID
  reached, and of what is synced, with the TXID recorded; `ApplyInv` of the file under way.
* `LeaseProofs`: `TypeOK`, `MutualExclusion` and the refinement `LeaseRefines` for any
  set of clients and any TTL. The invariant says that ETags only grow, that a held lease
  is the object's or was renewed by a request of the same client, and that every request
  under way carries an ETag older than the next one. The heart of the refinement
  (`PutWhileHeld`): a conditional write that S3 accepts while a lease is held is the
  holder's own renewal.
* `VFSWriteProofs`: `TypeOK`, `SingleWriter`, `OnlyCommittedUploads`, `DisabledIsClean` and
  `WakeUpIsOwed`
  for any connections, pages, transactions and failures, and any order of timer, deadline and
  Broadcast. The invariant has three parts: `LockInv` (locks, write intent and transaction
  belong together, and none is open during an upload), `TxInv` (the transaction of a lock
  holder is still open) and `PageInv` (what a buffer or a journal holds, outside the open
  transaction, is committed).
* `VFSReadProofs`: `TypeOK`, `CacheAgrees`, `NotOlderThanLevel1`, `HistoricalIsExact` and
  the action property `Isolation` for any number of pages, transactions, retained files and
  journeys in time. `Plan` and `Contiguous` are recursive functions; that they have a value
  for every argument, and that each file they return continues the ones before (`Linked`),
  is shown without an induction theorem: the greatest argument at which the claim fails
  cannot be one, as the function only refers to greater ones. From `Linked` and
  `HistInv` (a transaction that enlarges the database writes the pages it adds) follows that
  the index of a plan has the last write of every page (`PlanExact`), although a plan may
  hold files that overlap and a file drops what lies behind its own commit size. The
  invariant adds what each lock protects: `PendingInv` (entries wait only while SQLite holds its lock),
  `ConnInv` (a page under way is that of the index, except for the header of a file just
  opened: the exception of `CacheAgrees`), `HistoricalInv` (at a target time no poll adds
  anything), and `LevelInv` (index and pending entries together have all of level 1 up to
  `maxTXID1`, and so have they after the entries a poll in flight is about to add, unless
  the index was swapped in under it).

The assumptions are the named `ASSUME`s of the modules (bounds are naturals, the
two model values of `Lease` are no leases and no requests, `NoConn` is no connection) and
the hypotheses named above. Each inductive invariant was checked with TLC before it was
proved.

Model-checked only:

* all liveness properties (`KeepsCatchingUp`, `KeepsReplicating`, `Terminates`,
  `PlanReturns`, `KeepsFollowing`, `RequestsReturn`), which
  TLAPS does not handle; the same holds of everything about `ENABLED`, which the fairness
  in `WALSync` writes out for TLC;
* `ChainIsHistory` and `SyncCatchesUp`. They hold only with `Recycle`, `AppCheckpoints` and
  `WindowCommits` off, which the code does not justify, so that a theorem about them would
  say little of it: the run shows that nothing else breaks them.

The runs that expect a violation have no theorem. Every other invariant and every
property of a step that a passing run checks is stated by one.

## 5. Where the code does not keep what is said of it

Two of the divergences are runs and findings of `PROJECT.json`, which quotes the document each
one contradicts:

| Run | The code |
|---|---|
| `wal_recycle` | takes a WAL of equal length for the one it knows (`db.go:1365`) |
| `publish` | lets concurrent restores share `<output>.tmp` (`replica.go:661`) |

For the others a configuration is kept beside the runs. Each checks one property of its module
which says what a document or a comment says, on a small instance; TLC finds the behaviour that
section 2 describes (`tlc -config FollowRetry.cfg Follow.tla`):

| Configuration | Property | Said in | The code |
|---|---|---|---|
| `WALWindow.cfg` | `ChainIsHistory` | docs/LTX_FORMAT.md:674 "Every change preserved" | leaves a gap between the last copy and the checkpoint (`db.go:1839`) |
| `WALStale.cfg` | `LastPageVouches` | `db.go:1422` "we can assume that the WAL has not been overwritten" | trusts the last page in a WAL with another salt |
| `WALLock.cfg` | `ReadLockTakenAgain` | `db.go:1902` "to ensure it occurs even on an early return" | drops the error of the deferred `acquireReadLock` (`db.go:1906`) |
| `ReplicaReset.cfg` | `ResetStartsAfresh` | `cmd/litestream/reset.go:96` "Next replication sync will create a fresh snapshot" | keeps its position over `Close` while the files are reset (`db.go:399`) |
| `ReaderSeamless.cfg` | `Seamless` | `internal/resumable_reader.go:34` "a seamless byte stream" | repeats a byte (`internal/resumable_reader.go:74`) |
| `ReaderEOF.cfg` | `CompleteAtEOF` | `src/instruction.md`, item 2 "no duplicate or missing byte" | counts the repeated byte (`internal/resumable_reader.go:94`) |
| `ReaderBudget.cfg` | `LifetimeBudget` | item 2 "Credits never reset [...] between `Read` calls" | counts attempts per call (`internal/resumable_reader.go:66`) |
| `FollowPoll.cfg` | `PollIsAtomic` | item 5 "must remain unchanged if any member is corrupt" | applies files in place before they are checked (`replica.go:918`) |
| `FollowRetry.cfg` | `RetrySucceeds` | item 5 "a corrected retry after failure must still succeed" | chooses other files for the retry (`replica.go:833`) |
| `StoreLock.cfg` | `ReadLockHeld` | `db.go:867` "long-running read transaction" | ties the transaction to the context of a request (`db.go:963`) |
| `StoreInit.cfg` | `InitIsRetried` | `db.go:837` "Initialization can retry on next sync" | does not repeat an initialization that failed early (`db.go:827`) |
| `VFSDisable.cfg` | `DisableEnds` | `vfs.go:1705` "returns error after timeout" | sends the timer's Broadcast once, without the lock (`vfs.go:1744`) |
| `VFSOverwrite.cfg` | `NothingOverwritten` | docs/VFS.md:286 "Conflict detection prevents overwrites" | uploads without a condition after its check (`vfs.go:1917`) |

What section 2 describes without a configuration (`AutoRecover`, the hypotheses of `NoStray` and
`RequestsReturn`, the integrity check after the rename) can be reproduced as described there.

## 6. Plan

In order:

1. Multi-level compaction, snapshots (`SnapshotReader` under `chkMu`) and snapshot
   retention, composed with the restore plan: whatever the interleaving, a plan
   exists for every TXID that is promised.
2. Heartbeat, `Store.Open` and `Store.Close`.
3. VFS: the SQL functions and the map of connections in `src/litestream-vfs.c`, hydration, `Truncate`, the compaction monitors of a writing VFS, and turning
   writes on over an existing replica.
4. Refinement: `ReplicaSync` as the abstraction of `WALSync`'s publication of files.
5. Proofs: the refinement of item 4 once it is stated, and the hypotheses of the theorems
   about `ReplicaSync`: how much of `ReplicaChain` is left with `AutoRecover`.

Not modelled, and not planned: the storage clients (thin wrappers of network services;
their contract is what `ReplicaSync` and `ResumableReader` assume of a backend), the
command line and configuration, MCP and logging, the v0.3 restore (reads a format
that is no longer written), SQLite itself beyond what `SQLiteWAL` and `VFSWrite`
assume of it (`src/sqlite3.h` and its companions are SQLite's own headers).
