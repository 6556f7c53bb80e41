------------------------------ MODULE WALSync ------------------------------
(***************************************************************************)
(* Litestream's DB.Sync (db.go): the application's WAL becomes a chain of  *)
(* level-0 LTX files, one per transaction ID.  The steps are the places    *)
(* where the code reads or writes a file or takes a SQLite lock, so the    *)
(* application may act between any two of them.  db.mu makes one call of   *)
(* Sync or Close run at a time.                                            *)
(***************************************************************************)
EXTENDS SQLiteWAL

CONSTANTS
    TruncatePageN,       \* frames that force a TRUNCATE checkpoint; 0 disables it
    MinCheckpointPageN,  \* frames that trigger a PASSIVE checkpoint
    TimeCheckpoints,     \* is CheckpointInterval set?
    WindowCommits,       \* may the application write between the sync that
                         \* precedes a checkpoint and the checkpoint itself?
    LosesReadLock,       \* may the read transaction end with its context, or not be taken again?
    MaxCheckpoints,      \* bound on Litestream's checkpoints
    MaxStops             \* bound on crashes and closes

ASSUME ThresholdAssumption ==
    TruncatePageN \in Nat /\ MinCheckpointPageN \in Nat \ {0}
ASSUME SyncSwitches ==
    TimeCheckpoints \in BOOLEAN /\ WindowCommits \in BOOLEAN /\ LosesReadLock \in BOOLEAN
ASSUME SyncBounds == MaxCheckpoints \in Nat /\ MaxStops \in Nat

VARIABLES
    ltx,       \* level-0 LTX files on disk; the index is the TXID
    pc,        \* where the running call of Sync is
    call,      \* local variables of that call
    toEnd,     \* db.syncedToWALEnd
    lastOff,   \* db.lastSyncedWALOffset; -1 before the first sync
    sinceChk,  \* db.syncedSinceCheckpoint
    nchk,      \* Litestream's checkpoints so far
    nstop      \* crashes and closes so far

dbVars == <<toEnd, lastOff, sinceChk>>
boundVars == <<nchk, nstop>>
syncVars == <<ltx, pc, call, dbVars, boundVars>>
vars == <<sqlVars, syncVars>>

NoInfo == [off |-> 0, salt |-> 0, snap |-> FALSE]
NoScan == [off |-> 0, size |-> 0, salt |-> 0, snap |-> FALSE, commit |-> 0, map |-> <<>>]

\* stage: the verifyAndSync under way, in Sync itself ("sync") or before or
\* after the checkpoint ("pre", "post").  hdr is the WAL header read before
\* the checkpoint, orig the logical WAL size before the sync.  began is a
\* ghost: the commits that existed when the call began.
NoCall == [stage |-> "sync", info |-> NoInfo, scan |-> NoScan, mode |-> "PASSIVE",
           hdr |-> 0, orig |-> 0, began |-> 0]

TXID == Len(ltx)

Init ==
    /\ SQLInit
    /\ ltx = <<>>
    /\ pc = "down"
    /\ call = NoCall
    /\ toEnd = FALSE
    /\ lastOff = -1
    /\ sinceChk = FALSE
    /\ nchk = 0
    /\ nstop = 0

-----------------------------------------------------------------------------
(* WALReader (wal_reader.go).                                              *)

\* Mutant: the last frame of the WAL is never read.
LastReadable_OffByOne(start, salt) ==
    Max({j \in start..(Len(wal) - 1) : \A i \in (start + 1)..j : wal[i].salt = salt} \cup {start})

\* The last frame a reader positioned after frame `start' can read: frames
\* are read in order until the salt differs or the file ends.
LastReadable(start, salt) ==
    Max({j \in start..Len(wal) : \A i \in (start + 1)..j : wal[i].salt = salt} \cup {start})

\* Mutant: frames count whether or not their transaction committed.
PageMap_Uncommitted(start, salt) ==
    LET last   == LastReadable(start, salt)
        cs     == (start + 1)..last
        pgs    == {wal[i].pg : i \in cs}
        newest == [p \in pgs |-> Max({i \in cs : wal[i].pg = p})]
    IN  IF pgs = {} THEN [map |-> <<>>, end |-> 0, commit |-> 0]
        ELSE [map |-> newest, end |-> last, commit |-> Max(pgs)]

\* PageMap: the newest committed version of every page after `start', the
\* end of the newest one and the database size; pages past that size are
\* dropped.  end is 0 when no page is left.
PageMap(start, salt) ==
    LET last   == LastReadable(start, salt)
        cs     == {i \in (start + 1)..last : wal[i].commit > 0}
        top    == Max(cs \cup {0})
        commit == IF cs = {} THEN 0 ELSE wal[top].commit
        pgs    == {p \in 1..commit : \E i \in (start + 1)..top : wal[i].pg = p}
        newest == [p \in pgs |-> Max({i \in (start + 1)..top : wal[i].pg = p})]
    IN  IF pgs = {} THEN [map |-> <<>>, end |-> 0, commit |-> 0]
        ELSE [map |-> newest, end |-> Max({newest[p] : p \in pgs}), commit |-> commit]

\* NewWALReaderWithOffset: the frame before the offset must carry the salt.
PrevFrameMatches(off, salt) == off <= Len(wal) /\ wal[off].salt = salt

\* FrameSaltsUntil: salts up to and including the first frame with `until'.
FrameSaltsUntil(until) ==
    {wal[i].salt : i \in {j \in 1..Len(wal) : \A k \in 1..(j - 1) : wal[k].salt # until}}

-----------------------------------------------------------------------------
(* verify: where the next sync must start.                                 *)

LastLTX == ltx[TXID]

\* lastPageMatch: the last frame of the previous sync is still in the WAL.
LastPageMatch(off) ==
    LET f == wal[off]
    IN  /\ f.salt = LastLTX.salt
        /\ f.pg \in DOMAIN LastLTX.pages
        /\ LastLTX.pages[f.pg] = f.val

DetectFullCheckpoint == FrameSaltsUntil(LastLTX.salt) \ {hsalt, LastLTX.salt} # {}

Resume(off, salt) == [off |-> off, salt |-> salt, snap |-> FALSE]
Snapshot(off, salt) == [off |-> off, salt |-> salt, snap |-> TRUE]

\* The result of verify; it also clears db.syncedToWALEnd on the expected
\* truncation (ClearsToEnd).
VerifyInfo ==
    LET off   == LastLTX.off + LastLTX.size
        salt  == LastLTX.salt
        match == hsalt = salt
    IN  CASE TXID = 0                -> Snapshot(0, 0)
          [] TXID > 0 /\ off > WalSize /\ toEnd  -> Resume(0, hsalt)
          [] TXID > 0 /\ off > WalSize /\ ~toEnd -> Snapshot(off, salt)
          [] TXID > 0 /\ off = WalSize           -> Resume(off, salt)
          [] TXID > 0 /\ off < WalSize /\ off <= 1 ->
                 IF match THEN Resume(off, salt) ELSE Snapshot(off, salt)
          [] TXID > 0 /\ off < WalSize /\ off > 1 ->
                 IF ~LastPageMatch(off) THEN Snapshot(off, salt)
                 ELSE IF match THEN Resume(off, salt)
                 ELSE IF DetectFullCheckpoint THEN Snapshot(0, hsalt)
                 ELSE Resume(0, hsalt)

ClearsToEnd == TXID > 0 /\ LastLTX.off + LastLTX.size > WalSize /\ toEnd

\* verify fails when it must read the header of a WAL without one.
VerifyFails == TXID > 0 /\ hsalt = 0 /\ ClearsToEnd

-----------------------------------------------------------------------------
(* One call of Sync.                                                       *)

Goto(l) == pc' = l

\* Mutant: the transaction that held the write lock is left open.
Return_KeepsLock ==
    /\ pc' = "idle"
    /\ call' = NoCall
    /\ UNCHANGED wlock

\* The call returns: its local variables are gone, and the transaction that
\* held the write lock is rolled back.
Return ==
    /\ pc' = "idle"
    /\ call' = NoCall
    /\ wlock' = IF wlock = "litestream" THEN "none" ELSE wlock

\* The UPDATE of _litestream_seq: a transaction on page 1.
SeqWrite ==
    /\ wlock = "none"
    /\ \E r \in {FALSE, MayRestart} : WriteFrame(1, Len(Current), r)
    /\ hist' = Append(hist, Changed(1, nval, Len(Current), Current))
    /\ UNCHANGED <<dbfile, wlock, pend, napp>>

\* ensureWALExists: a WAL without a header gets its first frame.
EnsureWALExists == IF hsalt = 0 THEN SeqWrite ELSE UNCHANGED <<fileVars, txnVars, wlock>>

\* Sync, up to ensureWALExists.
SyncStart ==
    /\ pc = "idle"
    /\ Goto("verify")
    /\ call' = [NoCall EXCEPT !.began = Len(hist)]
    /\ EnsureWALExists
    /\ UNCHANGED <<rtx, ltx, dbVars, boundVars>>

\* verifyAndSync, up to the result of verify.
Verify ==
    /\ pc = "verify"
    /\ toEnd' = (toEnd /\ ~ClearsToEnd)
    /\ \/ VerifyFails /\ Return
       \/ /\ ~VerifyFails
          /\ Goto("scan")
          /\ call' = [call EXCEPT !.info = VerifyInfo,
                                  !.orig = IF call.stage # "sync" THEN call.orig
                                           ELSE IF lastOff = -1 THEN WalSize ELSE lastOff]
          /\ UNCHANGED wlock
    /\ UNCHANGED <<fileVars, txnVars, rtx, ltx, lastOff, sinceChk, boundVars>>

\* What follows a sync that wrote a file (synced) or had nothing to write.
AfterSync(synced) ==
    \/ /\ call.stage = "sync"
       /\ Goto("decide")
       /\ sinceChk' = (sinceChk \/ synced)
       /\ call' = [call EXCEPT !.info = NoInfo, !.scan = NoScan]
       /\ UNCHANGED wlock
    \/ /\ call.stage = "pre"
       /\ Goto("release")
       /\ call' = [call EXCEPT !.info = NoInfo, !.scan = NoScan]
       /\ UNCHANGED <<sinceChk, wlock>>
    \/ /\ call.stage = "post"
       /\ sinceChk' = FALSE
       /\ Return

\* Mutants: the offset of the LTX file not moved back with the reader; the
\* database size taken from the file although the WAL commits another one.
ScanWAL_StaleOffset ==
    LET info  == call.info
        reset == info.off > 0 /\ ~PrevFrameMatches(info.off, info.salt)
        off   == IF reset THEN 0 ELSE info.off
        salt  == IF off = 0 THEN hsalt ELSE info.salt
        m     == PageMap(off, salt)
    IN  [off |-> info.off, size |-> IF m.end > 0 THEN m.end - info.off ELSE 0,
         salt |-> salt, snap |-> info.snap, map |-> m.map,
         commit |-> IF m.commit > 0 THEN m.commit ELSE Len(dbfile)]

ScanWAL_FileSize ==
    LET info  == call.info
        reset == info.off > 0 /\ ~PrevFrameMatches(info.off, info.salt)
        off   == IF reset THEN 0 ELSE info.off
        salt  == IF off = 0 THEN hsalt ELSE info.salt
        m     == PageMap(off, salt)
    IN  [off |-> off, size |-> IF m.end > 0 THEN m.end - off ELSE 0,
         salt |-> salt, snap |-> info.snap, map |-> m.map, commit |-> Len(dbfile)]

\* sync, up to the page map.  A mismatch of the previous frame moves the
\* offset back to the header and leaves the snapshotting flag alone.
ScanWAL ==
    LET info  == call.info
        reset == info.off > 0 /\ ~PrevFrameMatches(info.off, info.salt)
        off   == IF reset THEN 0 ELSE info.off
        salt  == IF off = 0 THEN hsalt ELSE info.salt
        m     == PageMap(off, salt)
    IN  [off |-> off, size |-> IF m.end > 0 THEN m.end - off ELSE 0,
         salt |-> salt, snap |-> info.snap, map |-> m.map,
         commit |-> IF m.commit > 0 THEN m.commit ELSE Len(dbfile)]

Scan ==
    /\ pc = "scan"
    /\ \/ hsalt = 0 /\ Return /\ UNCHANGED sinceChk
       \/ /\ hsalt # 0
          /\ ~ScanWAL.snap /\ ScanWAL.size = 0
          /\ AfterSync(FALSE)
       \/ /\ hsalt # 0
          /\ ScanWAL.snap \/ ScanWAL.size # 0
          /\ Goto("write")
          /\ call' = [call EXCEPT !.scan = ScanWAL, !.info = NoInfo]
          /\ UNCHANGED <<wlock, sinceChk>>
    /\ UNCHANGED <<fileVars, txnVars, rtx, ltx, toEnd, lastOff, boundVars>>

\* writeLTXFromDB or writeLTXFromWAL.  Pages are read from the files as they
\* are now, at the offsets of the page map.
WrittenPages(scan) ==
    IF scan.snap
    THEN [p \in 1..scan.commit |->
            IF p \in DOMAIN scan.map THEN wal[scan.map[p]].val ELSE dbfile[p]]
    ELSE [p \in DOMAIN scan.map |-> wal[scan.map[p]].val]

\* A page beyond the end of its file is a read error.
Readable(scan) ==
    /\ \A p \in DOMAIN scan.map : scan.map[p] <= Len(wal)
    /\ scan.snap => \A p \in 1..scan.commit : p \in DOMAIN scan.map \/ p <= Len(dbfile)

\* Mutant: the offset of the frame before the one the reader started at.
NewLTX_OffByOne(scan) ==
    [off |-> scan.off - 1, size |-> scan.size, salt |-> scan.salt,
     snap |-> scan.snap, commit |-> scan.commit, pages |-> WrittenPages(scan)]

\* The LTX file sync encodes: its header fields and its pages.
NewLTX(scan) ==
    [off |-> scan.off, size |-> scan.size, salt |-> scan.salt,
     snap |-> scan.snap, commit |-> scan.commit, pages |-> WrittenPages(scan)]

\* sync, from the temporary file to the caches: the rename publishes the
\* next TXID.
WriteLTX ==
    /\ pc = "write"
    /\ LET scan == call.scan
           end  == scan.off + scan.size
       IN  \/ /\ Readable(scan)
              /\ ltx' = Append(ltx, NewLTX(scan))
              /\ lastOff' = end
              /\ toEnd' = (end = WalSize)
              /\ AfterSync(TRUE)
           \/ /\ ~Readable(scan)
              /\ Return
              /\ UNCHANGED <<ltx, dbVars>>
    /\ UNCHANGED <<fileVars, txnVars, rtx, boundVars>>

\* checkpointIfNeeded: the modes the thresholds allow, "" for none.  The
\* interval of a time-based checkpoint may or may not have passed.
CheckpointModes ==
    IF TruncatePageN > 0 /\ call.orig >= TruncatePageN THEN {"TRUNCATE"}
    ELSE IF lastOff >= MinCheckpointPageN THEN {"PASSIVE"}
    ELSE IF TimeCheckpoints /\ sinceChk /\ lastOff > 1 THEN {"", "PASSIVE"}
    ELSE {""}

\* The end of Sync.  A snapshot holding chkMu makes TryLock fail, and the
\* call ends without a checkpoint.
SyncEnd ==
    /\ pc = "decide"
    /\ Return
    /\ UNCHANGED <<fileVars, txnVars, rtx, ltx, dbVars, boundVars>>

\* checkpoint, up to its first verifyAndSync.
CheckpointStart ==
    /\ pc = "decide"
    /\ nchk < MaxCheckpoints
    /\ hsalt # 0
    /\ \E m \in CheckpointModes \ {""} :
          call' = [call EXCEPT !.stage = "pre", !.mode = m, !.hdr = hsalt]
    /\ nchk' = nchk + 1
    /\ Goto("verify")
    /\ UNCHANGED <<sqlVars, ltx, dbVars, nstop>>

-----------------------------------------------------------------------------
(* execCheckpoint and the rest of checkpoint.                              *)

ReleaseReadLock ==
    /\ pc = "release"
    /\ rtx' = NoRead
    /\ \/ Goto("pragma") /\ UNCHANGED <<call, wlock>>
       \/ LosesReadLock /\ Return
    /\ UNCHANGED <<fileVars, txnVars, ltx, dbVars, boundVars>>

\* PRAGMA wal_checkpoint.  Readers or the writer of the application may hold
\* it back (busy), and the statement itself may fail.
Pragma ==
    /\ pc = "pragma"
    /\ pc' \in {"acquire", "acquireFailed"}
    /\ \/ UNCHANGED sqlVars
       \/ /\ nbf < mx
          /\ Backfill(mx)
          /\ UNCHANGED <<wal, hsalt, gen, mx, nval, txnVars, rtx, wlock>>
       \/ /\ call.mode = "TRUNCATE"
          /\ wlock = "none"
          /\ TruncateWAL
    /\ UNCHANGED <<ltx, call, dbVars, boundVars>>

\* A read transaction on a fully checkpointed WAL takes read mark 0.
ReadMark == IF nbf = mx THEN 0 ELSE mx

\* acquireReadLock of execCheckpoint, and the deferred one that follows an error.
\* Either may fail; the error of the deferred one is dropped.
AcquireReadLock ==
    /\ \/ rtx' = ReadMark
       \/ LosesReadLock /\ rtx' = NoRead
    /\ \/ pc = "acquire" /\ rtx' # NoRead /\ Goto("seq") /\ UNCHANGED <<call, wlock>>
       \/ pc \in {"acquire", "acquireFailed"} /\ Return
    /\ UNCHANGED <<fileVars, txnVars, ltx, dbVars, boundVars>>

\* The write that follows a checkpoint; it fails if the lock stays taken.
CheckpointSeq ==
    /\ pc = "seq"
    /\ \/ SeqWrite /\ Goto("compare") /\ UNCHANGED call
       \/ wlock # "none" /\ Return /\ UNCHANGED <<fileVars, txnVars>>
    /\ UNCHANGED <<rtx, ltx, dbVars, boundVars>>

\* The WAL was not restarted, or the write lock is taken for the last copy.
CompareHeader ==
    /\ pc = "compare"
    /\ \/ /\ hsalt = call.hdr
          /\ sinceChk' = FALSE
          /\ Return
       \/ /\ hsalt # call.hdr /\ hsalt # 0
          /\ wlock = "none"
          /\ wlock' = "litestream"
          /\ call' = [call EXCEPT !.stage = "post"]
          /\ Goto("verify")
          /\ UNCHANGED sinceChk
       \/ /\ hsalt # call.hdr
          /\ hsalt = 0 \/ wlock # "none"
          /\ Return
          /\ UNCHANGED sinceChk
    /\ UNCHANGED <<fileVars, txnVars, rtx, ltx, toEnd, lastOff, boundVars>>

-----------------------------------------------------------------------------
(* Life cycle.                                                             *)

\* init: the long-running read transaction is opened, and the WAL must have
\* a header.  (The tables init creates exist already.)
InitDB ==
    /\ pc = "down"
    /\ rtx' = ReadMark
    /\ EnsureWALExists
    /\ Goto("idle")
    /\ UNCHANGED <<ltx, call, dbVars, boundVars>>

\* Close after its last Sync: the DB value, and the flags in it, survive.
Close ==
    /\ pc = "idle"
    /\ nstop < MaxStops
    /\ nstop' = nstop + 1
    /\ Goto("down")
    /\ rtx' = NoRead
    /\ UNCHANGED <<fileVars, txnVars, wlock, ltx, call, dbVars, nchk>>

\* The process dies: only the files survive.
Crash ==
    /\ pc # "down"
    /\ nstop < MaxStops
    /\ nstop' = nstop + 1
    /\ Goto("down")
    /\ rtx' = NoRead
    /\ wlock' = IF wlock = "litestream" THEN "none" ELSE wlock
    /\ call' = NoCall
    /\ toEnd' = FALSE
    /\ lastOff' = -1
    /\ sinceChk' = FALSE
    /\ UNCHANGED <<fileVars, txnVars, ltx, nchk>>

\* The read transaction ends with the context it was begun under: a request's,
\* or the DB's own, which Close cancels before its last Sync.
ContextEnds ==
    /\ LosesReadLock /\ rtx # NoRead
    /\ rtx' = NoRead
    /\ UNCHANGED <<fileVars, txnVars, wlock, syncVars>>

\* Between the last read of the WAL and the checkpoint nothing in the code
\* holds the application back.
Window == call.stage = "pre" /\ pc \in {"write", "release", "pragma"}

App ==
    /\ Window => WindowCommits
    /\ AppNext
    /\ UNCHANGED syncVars

SyncStep ==
    \/ InitDB \/ SyncStart \/ Verify \/ Scan \/ WriteLTX \/ SyncEnd
    \/ CheckpointStart \/ ReleaseReadLock \/ Pragma \/ AcquireReadLock \/ CheckpointSeq \/ CompareHeader

Next == App \/ SyncStep \/ ContextEnds \/ Close \/ Crash

Spec == Init /\ [][Next]_vars

\* ENABLED <<SyncStep>>_vars, which TLC evaluates slowly: only a write to a WAL
\* without a header has to wait, for the writer of the application.
CanStep == pc \in {"down", "idle"} /\ hsalt = 0 => wlock = "none"

\* DB.monitor calls Sync on a ticker for as long as the process runs: this is
\* WF_vars(SyncStep).
FairSpec == Spec /\ ([]<>~CanStep \/ []<><<SyncStep>>_vars)

-----------------------------------------------------------------------------
(* Properties.                                                             *)

PCs == {"down", "idle", "verify", "scan", "write", "decide", "release", "pragma",
        "acquire", "acquireFailed", "seq", "compare"}

\* Shape of the state: db.go's DB fields, syncInfo and the LTX header fields.
TypeOK ==
    /\ pc \in PCs
    /\ call.stage \in {"sync", "pre", "post"}
    /\ call.mode \in {"PASSIVE", "TRUNCATE"}
    /\ call.info.off \in Nat /\ call.scan.off \in Nat
    /\ toEnd \in BOOLEAN /\ sinceChk \in BOOLEAN
    /\ lastOff \in Nat \cup {-1}
    /\ rtx \in Nat \cup {NoRead}
    /\ nbf \in 0..mx /\ mx \in 0..Len(wal)
    /\ \A i \in 1..Len(wal) : wal[i] \in Frame
    /\ \A i \in 1..TXID : ltx[i].off \in Nat /\ DOMAIN ltx[i].pages \subseteq Pages

\* The database a restore of TXID n yields: every file applied in order.
Restored(n) ==
    [p \in 1..ltx[n].commit |->
        LET k == Max({i \in 1..n : p \in DOMAIN ltx[i].pages} \cup {0})
        IN  IF k = 0 THEN 0 ELSE ltx[k].pages[p]]

\* Which commit the chain up to n reproduces; 0 if none.
CommitOf(n) == Max({k \in 1..Len(hist) : hist[k] = Restored(n)} \cup {0})

\* Every prefix of the LTX chain restores to a state the application
\* committed, and later files to later states: sync (db.go) never loses or
\* mixes transactions.
ChainIsHistory ==
    \A n \in 1..TXID : /\ CommitOf(n) > 0
                       /\ n > 1 => CommitOf(n - 1) <= CommitOf(n)

\* A call of Sync that got past its sync has replicated everything that was
\* committed when the call began.
SyncCatchesUp ==
    pc = "decide" => TXID > 0 /\ CommitOf(TXID) >= call.began

\* What the long-running read transaction is for: a file whose pages are
\* read while the read mark is held takes them all from one committed state,
\* whatever the application writes, checkpoints or rolls back meanwhile.
MarkedReadIsConsistent ==
    [][Len(ltx') > Len(ltx) /\ rtx > 0 =>
          LET f == ltx'[Len(ltx')]
          IN  \E k \in 1..Len(hist) :
                 /\ f.snap => DOMAIN hist[k] = DOMAIN f.pages
                 /\ \A p \in DOMAIN f.pages : p \in DOMAIN hist[k] /\ hist[k][p] = f.pages[p]
      ]_vars

\* The assertion in sync: the scanned WAL never ends before the offset.
WalSizeNotNegative == call.scan.size >= 0

\* The write lock that checkpoint takes for its last copy never outlives the
\* call, whatever fails on the way: the application would stay locked out.
WriteLockReturned ==
    wlock = "litestream" => call.stage = "post" /\ pc \in {"verify", "scan", "write"}

\* Under the fairness below, the chain keeps reaching the current state of
\* the database: once the application pauses, everything is replicated.
KeepsCatchingUp == []<>(TXID > 0 /\ Restored(TXID) = Current)

-----------------------------------------------------------------------------
(* What db.go says and does not keep.                                      *)

\* execCheckpoint takes the read lock again on its way out, also on an early
\* return.
ReadLockTakenAgain ==
    [][/\ pc \in {"acquire", "acquireFailed"}
       /\ pc' \in {"seq", "idle"}
       => rtx' # NoRead]_vars

\* The database as it was before the first transaction of the current WAL.
BeforeWAL == hist[Len(hist) - Cardinality({i \in 1..mx : wal[i].commit > 0})]

\* verify finds the last page it replicated in a WAL with another salt.
Vouches(off) ==
    /\ pc = "verify" /\ TXID > 0 /\ off > 1 /\ off < WalSize
    /\ LastPageMatch(off) /\ hsalt # LastLTX.salt

\* If it then goes on incrementally, the WAL has not been overwritten: nothing
\* of the one before was missed.
LastPageVouches ==
    [][Vouches(LastLTX.off + LastLTX.size) /\ pc' = "scan" /\ ~call'.info.snap
          => Restored(TXID) = BeforeWAL]_vars

=============================================================================
