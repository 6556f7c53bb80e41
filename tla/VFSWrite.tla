------------------------------ MODULE VFSWrite ------------------------------
(***************************************************************************)
(* The connections of one write-enabled VFS (vfs.go).  SQLite's thread of  *)
(* each connection locks, writes and unlocks; syncLoop uploads the dirty   *)
(* pages of ended transactions as the next level-0 file; writes are turned *)
(* off and on at run time, by one call at a time; the file is closed.      *)
(* f.mu of a connection is held during an upload and given up while one    *)
(* waits on f.cond; the connections share only vfs.writeFile,              *)
(* vfs.lastSyncedTXID and the replica.                                     *)
(*                                                                         *)
(* The content of a page is the transaction that wrote it last, 0 for an   *)
(* empty page.  f.pendingTXID is expectedTXID + 1 throughout.              *)
(***************************************************************************)
EXTENDS Integers, Sequences, FiniteSets

CONSTANTS
    Conn,        \* the connections
    Page,        \* the pages
    NoConn,      \* no connection holds the write intent
    WithTimeout, \* does SetWriteEnabledWithTimeout get a timeout?
    MaxTx,       \* bound on the write transactions
    MaxFaults    \* bound on the failed requests

ASSUME VFSWriteAssumption ==
    /\ NoConn \notin Conn
    /\ WithTimeout \in BOOLEAN
    /\ MaxTx \in Nat /\ MaxFaults \in Nat

Tx == 1..MaxTx
Content == {0} \cup Tx

VARIABLES
    remote,        \* the level-0 files of the replica: the content of their pages
    status,        \* per transaction: "none", "open", "committed" or "rolledback"
    writeFile,     \* vfs.writeFile
    lastSyncedTXID,\* vfs.lastSyncedTXID
    lockType,      \* f.lockType
    want,          \* the lock SQLite's thread is asking for, "NONE" if it is not in Lock
    inTransaction, \* f.inTransaction
    tx,            \* the connection's write transaction, 0 for none
    page,          \* what the connection reads for each page
    saved,         \* what its journal holds
    dirty,         \* the keys of f.dirty
    expectedTXID,  \* f.expectedTXID
    writeEnabled,  \* f.writeEnabled
    disabling,     \* f.disabling: a call that turns writes off is under way
    waiter,        \* that call: "none", "loop" (it holds f.mu and looks at the transaction),
                   \* "waiting" (in f.cond.Wait) or "woken" (it wants f.mu back)
    timer,         \* its timer and watcher goroutine: "off", "running" or "fired"
    overdue,       \* its deadline has passed
    sync,          \* syncToRemoteWithLock: "no", "check" or "upload"
    caller,        \* who called it: "none", "loop", "disable" or "close"
    closed,        \* Close has been called
    faults         \* requests that failed so far

shared == <<remote, writeFile, lastSyncedTXID>>
sqlite == <<status, lockType, want, inTransaction, tx, page, saved>>
call == <<waiter, timer, overdue>>
mode == <<writeEnabled, disabling, call, closed>>
upload == <<sync, caller>>
vars == <<remote, status, writeFile, lastSyncedTXID, lockType, want, inTransaction, tx,
          page, saved, dirty, expectedTXID, writeEnabled, disabling, waiter, timer,
          overdue, sync, caller, closed, faults>>

\* openNewDatabase, on every connection.
Init ==
    /\ remote = <<>>
    /\ status = [n \in Tx |-> "none"]
    /\ writeFile = NoConn
    /\ lastSyncedTXID = 0
    /\ lockType = [c \in Conn |-> "NONE"]
    /\ want = [c \in Conn |-> "NONE"]
    /\ inTransaction = [c \in Conn |-> FALSE]
    /\ tx = [c \in Conn |-> 0]
    /\ page = [c \in Conn |-> [p \in Page |-> 0]]
    /\ saved = [c \in Conn |-> [p \in Page |-> 0]]
    /\ dirty = [c \in Conn |-> {}]
    /\ expectedTXID = [c \in Conn |-> 0]
    /\ writeEnabled = [c \in Conn |-> TRUE]
    /\ disabling = [c \in Conn |-> FALSE]
    /\ waiter = [c \in Conn |-> "none"]
    /\ timer = [c \in Conn |-> "off"]
    /\ overdue = [c \in Conn |-> FALSE]
    /\ sync = [c \in Conn |-> "no"]
    /\ caller = [c \in Conn |-> "none"]
    /\ closed = [c \in Conn |-> FALSE]
    /\ faults = 0

-----------------------------------------------------------------------------
\* SQLite's thread.

\* f.mu is free, and the thread is not inside Lock.
Free(c) == sync[c] = "no" /\ waiter[c] # "loop" /\ ~closed[c]
Ready(c) == Free(c) /\ want[c] = "NONE"

LockShared(c) ==
    /\ Ready(c) /\ lockType[c] = "NONE"
    /\ lockType' = [lockType EXCEPT ![c] = "SHARED"]
    /\ UNCHANGED <<shared, status, want, inTransaction, tx, page, saved, dirty,
                   expectedTXID, mode, upload, faults>>

\* SQLite calls Lock with RESERVED to begin writing and with EXCLUSIVE before
\* it writes to the file.
AskLock(c) ==
    /\ Ready(c)
    /\ \/ lockType[c] = "SHARED" /\ want' = [want EXCEPT ![c] = "RESERVED"]
       \/ lockType[c] = "RESERVED" /\ want' = [want EXCEPT ![c] = "EXCLUSIVE"]
    /\ UNCHANGED <<shared, status, lockType, inTransaction, tx, page, saved, dirty,
                   expectedTXID, mode, upload, faults>>

\* Lock waits on f.cond while writes are being turned off.
MayLock(c) == Free(c) /\ want[c] # "NONE" /\ ~disabling[c]

\* Writes are off (ReadOnlyError), or another connection writes (BusyError).
LockRefused(c) ==
    /\ MayLock(c)
    /\ \/ ~writeEnabled[c]
       \/ ~inTransaction[c] /\ writeFile \notin {NoConn, c}
    /\ want' = [want EXCEPT ![c] = "NONE"]
    /\ UNCHANGED <<shared, status, lockType, inTransaction, tx, page, saved, dirty,
                   expectedTXID, mode, upload, faults>>

\* Mutant: the write intent of another connection is overwritten.
LockReserved_IgnoresHolder(c) ==
    /\ MayLock(c) /\ writeEnabled[c] /\ ~inTransaction[c]
    /\ \E n \in Tx :
          /\ status[n] = "none" /\ \A m \in 1..(n - 1) : status[m] # "none"
          /\ status' = [status EXCEPT ![n] = "open"]
          /\ tx' = [tx EXCEPT ![c] = n]
    /\ writeFile' = c
    /\ inTransaction' = [inTransaction EXCEPT ![c] = TRUE]
    /\ lockType' = [lockType EXCEPT ![c] = want[c]]
    /\ want' = [want EXCEPT ![c] = "NONE"]
    /\ saved' = [saved EXCEPT ![c] = page[c]]
    /\ UNCHANGED <<remote, lastSyncedTXID, expectedTXID, page, dirty, mode, upload, faults>>

\* Lock begins a write transaction: it takes vfs.writeFile, and a connection
\* without dirty pages takes over the last TXID another one has uploaded.
LockReserved(c) ==
    /\ MayLock(c) /\ writeEnabled[c] /\ ~inTransaction[c]
    /\ writeFile \in {NoConn, c}
    /\ \E n \in Tx :
          /\ status[n] = "none" /\ \A m \in 1..(n - 1) : status[m] # "none"
          /\ status' = [status EXCEPT ![n] = "open"]
          /\ tx' = [tx EXCEPT ![c] = n]
    /\ writeFile' = c
    /\ expectedTXID' = [expectedTXID EXCEPT ![c] =
          IF lastSyncedTXID > @ /\ dirty[c] = {} THEN lastSyncedTXID ELSE @]
    /\ inTransaction' = [inTransaction EXCEPT ![c] = TRUE]
    /\ lockType' = [lockType EXCEPT ![c] = want[c]]
    /\ want' = [want EXCEPT ![c] = "NONE"]
    /\ saved' = [saved EXCEPT ![c] = page[c]]
    /\ UNCHANGED <<remote, lastSyncedTXID, page, dirty, mode, upload, faults>>

\* A further lock of a transaction that has begun.
LockExclusive(c) ==
    /\ MayLock(c) /\ writeEnabled[c] /\ inTransaction[c]
    /\ lockType' = [lockType EXCEPT ![c] = want[c]]
    /\ want' = [want EXCEPT ![c] = "NONE"]
    /\ UNCHANGED <<shared, status, inTransaction, tx, page, saved, dirty,
                   expectedTXID, mode, upload, faults>>

\* WriteAt: into the write buffer.
WriteAt(c, p) ==
    /\ Ready(c) /\ lockType[c] = "EXCLUSIVE" /\ writeEnabled[c]
    /\ page' = [page EXCEPT ![c][p] = tx[c]]
    /\ dirty' = [dirty EXCEPT ![c] = @ \cup {p}]
    /\ UNCHANGED <<shared, status, lockType, want, inTransaction, tx, saved,
                   expectedTXID, mode, upload, faults>>

\* Mutant: the end of a transaction is not broadcast.
EndTx_Silent(c) ==
    /\ inTransaction' = [inTransaction EXCEPT ![c] = FALSE]
    /\ writeFile' = IF writeFile = c THEN NoConn ELSE writeFile
    /\ lockType' = [lockType EXCEPT ![c] = "SHARED"]
    /\ tx' = [tx EXCEPT ![c] = 0]
    /\ saved' = [saved EXCEPT ![c] = [p \in Page |-> 0]]
    /\ UNCHANGED <<remote, lastSyncedTXID, want, dirty, expectedTXID, mode, upload, faults>>

\* f.cond.Broadcast, as the call that turns writes off meets it: only a call
\* that is in Wait by then is woken.
Broadcast(c) == waiter' = [waiter EXCEPT ![c] = IF @ = "waiting" THEN "woken" ELSE @]

\* Unlock to SHARED at the end of a write transaction.
EndTx(c) ==
    /\ inTransaction' = [inTransaction EXCEPT ![c] = FALSE]
    /\ writeFile' = IF writeFile = c THEN NoConn ELSE writeFile
    /\ lockType' = [lockType EXCEPT ![c] = "SHARED"]
    /\ tx' = [tx EXCEPT ![c] = 0]
    /\ saved' = [saved EXCEPT ![c] = [p \in Page |-> 0]]
    /\ Broadcast(c)
    /\ UNCHANGED <<remote, lastSyncedTXID, want, dirty, expectedTXID, writeEnabled, disabling,
                   timer, overdue, closed, upload, faults>>

\* SQLite deletes its journal, and unlocks.
Commit(c) ==
    /\ Ready(c) /\ lockType[c] = "EXCLUSIVE" /\ inTransaction[c]
    /\ status' = [status EXCEPT ![tx[c]] = "committed"]
    /\ EndTx(c)
    /\ UNCHANGED page

\* SQLite writes the pages of its journal back, and unlocks: they stay dirty.
Rollback(c) ==
    /\ Ready(c) /\ inTransaction[c]
    /\ status' = [status EXCEPT ![tx[c]] = "rolledback"]
    /\ page' = [page EXCEPT ![c] = saved[c]]
    /\ EndTx(c)

UnlockNone(c) ==
    /\ Ready(c) /\ lockType[c] = "SHARED"
    /\ lockType' = [lockType EXCEPT ![c] = "NONE"]
    /\ UNCHANGED <<shared, status, want, inTransaction, tx, page, saved, dirty,
                   expectedTXID, mode, upload, faults>>

-----------------------------------------------------------------------------
\* syncToRemoteWithLock.

StartSync(c, who) ==
    /\ sync' = [sync EXCEPT ![c] = "check"]
    /\ caller' = [caller EXCEPT ![c] = who]

\* Mutant: an open transaction does not keep Sync away.
Sync_InTransaction(c) ==
    /\ Free(c) /\ writeEnabled[c] /\ dirty[c] # {}
    /\ StartSync(c, "loop")
    /\ UNCHANGED <<shared, sqlite, dirty, expectedTXID, mode, faults>>

\* VFSFile.Sync: on the ticker of syncLoop, and by SQLite.
Sync(c) ==
    /\ Free(c) /\ writeEnabled[c] /\ dirty[c] # {} /\ ~inTransaction[c]
    /\ StartSync(c, "loop")
    /\ UNCHANGED <<shared, sqlite, dirty, expectedTXID, mode, faults>>

\* What the caller does with the result.
EndSync(c, ok) ==
    /\ sync' = [sync EXCEPT ![c] = "no"]
    /\ caller' = [caller EXCEPT ![c] = "none"]
    /\ disabling' = [disabling EXCEPT ![c] = IF caller[c] = "disable" THEN FALSE ELSE @]
    /\ writeEnabled' = [writeEnabled EXCEPT ![c] = IF caller[c] = "disable" /\ ok THEN FALSE ELSE @]
    /\ closed' = [closed EXCEPT ![c] = (caller[c] = "close")]
    /\ UNCHANGED call

\* checkForConflict: nothing beyond expectedTXID on the replica.
CheckPasses(c) ==
    /\ sync[c] = "check" /\ Len(remote) <= expectedTXID[c]
    /\ sync' = [sync EXCEPT ![c] = "upload"]
    /\ UNCHANGED <<shared, sqlite, dirty, expectedTXID, mode, caller, faults>>

CheckConflicts(c) ==
    /\ sync[c] = "check" /\ Len(remote) > expectedTXID[c]
    /\ EndSync(c, FALSE)
    /\ UNCHANGED <<shared, sqlite, dirty, expectedTXID, faults>>

\* createLTXFromDirty, stored as file expectedTXID + 1.
Store(c) ==
    LET file == [p \in Page |-> IF p \in dirty[c] THEN page[c][p] ELSE 0]
        t    == expectedTXID[c] + 1
    IN  remote' = [u \in 1..(IF t > Len(remote) THEN t ELSE Len(remote)) |->
                      IF u = t THEN file ELSE remote[u]]

Upload(c) ==
    /\ sync[c] = "upload"
    /\ Store(c)
    /\ expectedTXID' = [expectedTXID EXCEPT ![c] = @ + 1]
    /\ lastSyncedTXID' = IF expectedTXID[c] + 1 > lastSyncedTXID
                         THEN expectedTXID[c] + 1 ELSE lastSyncedTXID
    /\ dirty' = [dirty EXCEPT ![c] = {}]
    /\ EndSync(c, TRUE)
    /\ UNCHANGED <<sqlite, writeFile, faults>>

\* Mutant: the TXID is taken before the file is stored.
RequestFails_CountsTXID(c) ==
    /\ faults < MaxFaults /\ sync[c] # "no"
    /\ \/ UNCHANGED remote
       \/ sync[c] = "upload" /\ Store(c)
    /\ expectedTXID' = [expectedTXID EXCEPT ![c] = IF sync[c] = "upload" THEN @ + 1 ELSE @]
    /\ faults' = faults + 1
    /\ EndSync(c, FALSE)
    /\ UNCHANGED <<sqlite, writeFile, lastSyncedTXID, dirty>>

\* A request fails: the listing, or the upload before or after the file is
\* stored.
RequestFails(c) ==
    /\ faults < MaxFaults /\ sync[c] # "no"
    /\ \/ UNCHANGED remote
       \/ sync[c] = "upload" /\ Store(c)
    /\ faults' = faults + 1
    /\ EndSync(c, FALSE)
    /\ UNCHANGED <<sqlite, writeFile, lastSyncedTXID, dirty, expectedTXID>>

-----------------------------------------------------------------------------
\* SetWriteEnabledWithTimeout and Close.

\* The timer starts, and its goroutine.  f.mu is held from here on.
Disable(c) ==
    /\ Free(c) /\ writeEnabled[c] /\ ~disabling[c]
    /\ disabling' = [disabling EXCEPT ![c] = TRUE]
    /\ waiter' = [waiter EXCEPT ![c] = "loop"]
    /\ timer' = [timer EXCEPT ![c] = IF WithTimeout THEN "running" ELSE "off"]
    /\ UNCHANGED <<shared, sqlite, dirty, expectedTXID, writeEnabled, overdue, closed,
                   upload, faults>>

\* The watcher's only Broadcast, sent without f.mu.  The timer was started
\* before the deadline was computed, so it may come first.
TimerFires(c) ==
    /\ timer[c] = "running"
    /\ timer' = [timer EXCEPT ![c] = "fired"]
    /\ Broadcast(c)
    /\ UNCHANGED <<shared, sqlite, dirty, expectedTXID, writeEnabled, disabling, overdue,
                   closed, upload, faults>>

DeadlinePasses(c) ==
    /\ timer[c] # "off" /\ ~overdue[c]
    /\ overdue' = [overdue EXCEPT ![c] = TRUE]
    /\ UNCHANGED <<shared, sqlite, dirty, expectedTXID, writeEnabled, disabling, waiter, timer,
                   closed, upload, faults>>

\* A transaction is open and the deadline has not passed: Wait gives f.mu up.
DisableWaits(c) ==
    /\ waiter[c] = "loop" /\ inTransaction[c] /\ ~overdue[c]
    /\ waiter' = [waiter EXCEPT ![c] = "waiting"]
    /\ UNCHANGED <<shared, sqlite, dirty, expectedTXID, writeEnabled, disabling, timer, overdue,
                   closed, upload, faults>>

\* Wait returns once it has f.mu again.
DisableResumes(c) ==
    /\ Free(c) /\ waiter[c] = "woken"
    /\ waiter' = [waiter EXCEPT ![c] = "loop"]
    /\ UNCHANGED <<shared, sqlite, dirty, expectedTXID, writeEnabled, disabling, timer, overdue,
                   closed, upload, faults>>

\* The loop is over, and with it the watcher.
Return(c) ==
    /\ waiter' = [waiter EXCEPT ![c] = "none"]
    /\ timer' = [timer EXCEPT ![c] = "off"]
    /\ overdue' = [overdue EXCEPT ![c] = FALSE]

\* Mutant: nobody waits for the open transaction, only for its sync.
DisableProceeds_NoWait(c) ==
    /\ waiter[c] = "loop"
    /\ Return(c)
    /\ IF dirty[c] # {} /\ ~inTransaction[c]
       THEN StartSync(c, "disable") /\ UNCHANGED <<writeEnabled, disabling>>
       ELSE /\ writeEnabled' = [writeEnabled EXCEPT ![c] = FALSE]
            /\ disabling' = [disabling EXCEPT ![c] = FALSE]
            /\ UNCHANGED upload
    /\ UNCHANGED <<shared, sqlite, dirty, expectedTXID, closed, faults>>

\* No transaction is open: sync what is dirty, then turn writes off.
DisableProceeds(c) ==
    /\ waiter[c] = "loop" /\ ~inTransaction[c]
    /\ Return(c)
    /\ IF dirty[c] # {}
       THEN StartSync(c, "disable") /\ UNCHANGED <<writeEnabled, disabling>>
       ELSE /\ writeEnabled' = [writeEnabled EXCEPT ![c] = FALSE]
            /\ disabling' = [disabling EXCEPT ![c] = FALSE]
            /\ UNCHANGED upload
    /\ UNCHANGED <<shared, sqlite, dirty, expectedTXID, closed, faults>>

\* The deadline has passed and the transaction is still open.
DisableTimesOut(c) ==
    /\ waiter[c] = "loop" /\ inTransaction[c] /\ overdue[c]
    /\ Return(c)
    /\ disabling' = [disabling EXCEPT ![c] = FALSE]
    /\ UNCHANGED <<shared, sqlite, dirty, expectedTXID, writeEnabled, closed, upload, faults>>

Enable(c) ==
    /\ Free(c) /\ ~writeEnabled[c]
    /\ writeEnabled' = [writeEnabled EXCEPT ![c] = TRUE]
    /\ UNCHANGED <<shared, sqlite, dirty, expectedTXID, disabling, call, closed, upload, faults>>

\* SQLite has unlocked before it closes the file.  What is dirty is uploaded
\* once more; if that fails it is lost.
Close(c) ==
    /\ Ready(c) /\ lockType[c] = "NONE" /\ ~disabling[c]
    /\ IF writeEnabled[c] /\ dirty[c] # {}
       THEN StartSync(c, "close") /\ UNCHANGED closed
       ELSE closed' = [closed EXCEPT ![c] = TRUE] /\ UNCHANGED upload
    /\ UNCHANGED <<shared, sqlite, dirty, expectedTXID, writeEnabled, disabling, call, faults>>

-----------------------------------------------------------------------------
Step(c) ==
    \/ LockShared(c) \/ AskLock(c) \/ LockRefused(c) \/ LockReserved(c) \/ LockExclusive(c)
    \/ \E p \in Page : WriteAt(c, p)
    \/ Commit(c) \/ Rollback(c) \/ UnlockNone(c)
    \/ Sync(c) \/ CheckPasses(c) \/ CheckConflicts(c) \/ Upload(c) \/ RequestFails(c)
    \/ Disable(c) \/ TimerFires(c) \/ DeadlinePasses(c)
    \/ DisableWaits(c) \/ DisableResumes(c) \/ DisableProceeds(c) \/ DisableTimesOut(c)
    \/ Enable(c) \/ Close(c)

Next == \E c \in Conn : Step(c)

Spec == Init /\ [][Next]_vars

\* Litestream's own steps are taken, and time passes.  A woken call competes for
\* f.mu with syncLoop, and Go's mutex does not starve a waiter.  Nothing is
\* assumed of SQLite's thread: a transaction may stay open for ever.
Fairness ==
    \A c \in Conn :
        /\ WF_vars(CheckPasses(c) \/ CheckConflicts(c))
        /\ WF_vars(Upload(c))
        /\ WF_vars(DisableWaits(c) \/ DisableProceeds(c) \/ DisableTimesOut(c))
        /\ WF_vars(TimerFires(c))
        /\ WF_vars(DeadlinePasses(c))
        /\ SF_vars(DisableResumes(c))

FairSpec == Spec /\ Fairness

-----------------------------------------------------------------------------
\* Shape of the state.  No connection counts a TXID as its own, and the VFS
\* none as synced, that is not on the replica.
TypeOK ==
    /\ remote \in Seq([Page -> Content])
    /\ status \in [Tx -> {"none", "open", "committed", "rolledback"}]
    /\ writeFile \in Conn \cup {NoConn}
    /\ lastSyncedTXID \in 0..Len(remote)
    /\ lockType \in [Conn -> {"NONE", "SHARED", "RESERVED", "EXCLUSIVE"}]
    /\ want \in [Conn -> {"NONE", "RESERVED", "EXCLUSIVE"}]
    /\ inTransaction \in [Conn -> BOOLEAN]
    /\ tx \in [Conn -> Content]
    /\ page \in [Conn -> [Page -> Content]]
    /\ saved \in [Conn -> [Page -> Content]]
    /\ dirty \in [Conn -> SUBSET Page]
    /\ expectedTXID \in [Conn -> 0..Len(remote)]
    /\ writeEnabled \in [Conn -> BOOLEAN]
    /\ disabling \in [Conn -> BOOLEAN]
    /\ waiter \in [Conn -> {"none", "loop", "waiting", "woken"}]
    /\ timer \in [Conn -> {"off", "running", "fired"}]
    /\ overdue \in [Conn -> BOOLEAN]
    /\ sync \in [Conn -> {"no", "check", "upload"}]
    /\ caller \in [Conn -> {"none", "loop", "disable", "close"}]
    /\ closed \in [Conn -> BOOLEAN]
    /\ faults \in 0..MaxFaults

\* At most one connection of the VFS is in a write transaction, whatever writes
\* are turned off, refused or given up meanwhile: vfs.writeFile names it.
SingleWriter ==
    \A c \in Conn :
        /\ inTransaction[c] => writeFile = c
        /\ lockType[c] \in {"RESERVED", "EXCLUSIVE"} => inTransaction[c]

\* Uploads happen beside the transactions: no page of an open or a rolled back
\* one reaches the replica, although SQLite writes into the same buffer before
\* it commits and rolls back by writing.
OnlyCommittedUploads ==
    \A t \in DOMAIN remote : \A p \in Page :
        remote[t][p] # 0 => status[remote[t][p]] = "committed"

\* Once writes are off, nothing is left to upload and no transaction is open:
\* turning them off waited for the transaction and for its upload, and no other
\* transaction began in between.
DisabledIsClean ==
    \A c \in Conn : ~writeEnabled[c] => dirty[c] = {} /\ ~inTransaction[c]

\* No wake-up is lost: a call that sleeps until the transaction ends sleeps only
\* while one is open, whose end will wake it.  inTransaction is tested and Wait
\* entered under f.mu, under which a transaction ends and broadcasts; what the
\* timer does to the call in between changes nothing about it.
WakeUpIsOwed == \A c \in Conn : waiter[c] = "waiting" => inTransaction[c]

-----------------------------------------------------------------------------
(* What vfs.go and docs/VFS.md say and the code does not keep.             *)

\* A call that turns writes off with a timeout returns.  It need not: the one
\* Broadcast of its timer may come before the deadline, or before it is in Wait.
DisableEnds == \A c \in Conn : disabling[c] ~> ~disabling[c]

\* The conflict check keeps uploads of other connections from being overwritten.
\* Files stored between the check and the upload are: the upload is not
\* conditional.
NothingOverwritten ==
    [][\A t \in DOMAIN remote : t \in DOMAIN remote' /\ remote'[t] = remote[t]]_vars

=============================================================================
