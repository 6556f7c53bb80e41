--------------------------- MODULE VFSWriteProofs ---------------------------
(***************************************************************************)
(* The write mode of the VFS, for every set of connections and pages and   *)
(* any number of transactions and failed requests.                         *)
(***************************************************************************)
EXTENDS VFSWrite, SequenceTheorems, TLAPS

\* f.inTransaction and the lock go together, and f.mu, held during an upload,
\* keeps transactions from beginning.
LockInv ==
    \A c \in Conn :
        /\ inTransaction[c] => lockType[c] \in {"RESERVED", "EXCLUSIVE"}
        /\ sync[c] # "no" => ~inTransaction[c]

\* An open transaction can still be committed or rolled back.
TxInv == \A c \in Conn : inTransaction[c] => tx[c] \in Tx /\ status[tx[c]] = "open"

Committed(v) == v # 0 => status[v] = "committed"

\* A connection reads committed pages, besides those its own open transaction
\* has written, and its journal holds committed ones.
PageInv ==
    \A c \in Conn : \A p \in Page :
        /\ Committed(page[c][p]) \/ (inTransaction[c] /\ page[c][p] = tx[c])
        /\ inTransaction[c] => Committed(saved[c][p])

IInv ==
    /\ TypeOK /\ SingleWriter /\ DisabledIsClean /\ OnlyCommittedUploads
    /\ LockInv /\ TxInv /\ PageInv

-----------------------------------------------------------------------------

LEMMA InitHolds == Init => IInv
<1> SUFFICES ASSUME Init PROVE IInv
  OBVIOUS
<1>1. TypeOK
  BY VFSWriteAssumption DEF Init, TypeOK, Content, Tx
<1>2. SingleWriter /\ DisabledIsClean /\ OnlyCommittedUploads /\ LockInv /\ TxInv /\ PageInv
  BY DEF Init, SingleWriter, DisabledIsClean, OnlyCommittedUploads, LockInv, TxInv, PageInv,
     Committed
<1> QED
  BY <1>1, <1>2 DEF IInv

\* Steps that touch neither the transactions nor the pages nor the replica.
LEMMA DataKeeps ==
    ASSUME IInv, UNCHANGED <<remote, status, inTransaction, tx, page, saved>>
    PROVE  TxInv' /\ PageInv' /\ OnlyCommittedUploads'
BY DEF IInv, TxInv, PageInv, Committed, OnlyCommittedUploads

-----------------------------------------------------------------------------
(* SQLite's thread.                                                        *)

LEMMA LockSharedKeeps == ASSUME IInv, NEW c \in Conn, LockShared(c) PROVE IInv'
<1>1. TypeOK'
  BY DEF IInv, TypeOK, LockShared, Ready, Free, shared, sqlite, mode, call, upload
<1>2. SingleWriter' /\ LockInv' /\ DisabledIsClean'
  BY DEF IInv, TypeOK, SingleWriter, LockInv, DisabledIsClean, LockShared, Ready, Free, shared,
     sqlite, mode, call, upload
<1> QED
  BY <1>1, <1>2, DataKeeps DEF IInv, LockShared, shared, sqlite, mode, call, upload

LEMMA AskLockKeeps == ASSUME IInv, NEW c \in Conn, AskLock(c) PROVE IInv'
<1>1. TypeOK'
  BY DEF IInv, TypeOK, AskLock, Ready, shared, sqlite, mode, call, upload
<1>2. SingleWriter' /\ LockInv' /\ DisabledIsClean'
  BY DEF IInv, TypeOK, SingleWriter, LockInv, DisabledIsClean, AskLock, Ready, shared, sqlite,
     mode, call, upload
<1> QED
  BY <1>1, <1>2, DataKeeps DEF IInv, AskLock, shared, sqlite, mode, call, upload

LEMMA LockRefusedKeeps == ASSUME IInv, NEW c \in Conn, LockRefused(c) PROVE IInv'
<1>1. TypeOK'
  BY DEF IInv, TypeOK, LockRefused, MayLock, shared, sqlite, mode, call, upload
<1>2. SingleWriter' /\ LockInv' /\ DisabledIsClean'
  BY DEF IInv, TypeOK, SingleWriter, LockInv, DisabledIsClean, LockRefused, MayLock, shared,
     sqlite, mode, call, upload
<1> QED
  BY <1>1, <1>2, DataKeeps DEF IInv, LockRefused, shared, sqlite, mode, call, upload

LEMMA LockExclusiveKeeps == ASSUME IInv, NEW c \in Conn, LockExclusive(c) PROVE IInv'
<1>1. TypeOK'
  BY DEF IInv, TypeOK, LockExclusive, MayLock, shared, sqlite, mode, call, upload
<1>2. SingleWriter' /\ LockInv' /\ DisabledIsClean'
  BY DEF IInv, TypeOK, SingleWriter, LockInv, DisabledIsClean, LockExclusive, MayLock, shared,
     sqlite, mode, call, upload
<1> QED
  BY <1>1, <1>2, DataKeeps DEF IInv, LockExclusive, shared, sqlite, mode, call, upload

LEMMA UnlockNoneKeeps == ASSUME IInv, NEW c \in Conn, UnlockNone(c) PROVE IInv'
<1>1. TypeOK'
  BY DEF IInv, TypeOK, UnlockNone, Ready, shared, sqlite, mode, call, upload
<1>2. SingleWriter' /\ LockInv' /\ DisabledIsClean'
  BY DEF IInv, TypeOK, SingleWriter, LockInv, DisabledIsClean, UnlockNone, Ready, shared, sqlite,
     mode, call, upload
<1> QED
  BY <1>1, <1>2, DataKeeps DEF IInv, UnlockNone, shared, sqlite, mode, call, upload

\* Nobody else is in a transaction when one begins.
LEMMA LockReservedKeeps == ASSUME IInv, NEW c \in Conn, LockReserved(c) PROVE IInv'
<1>1. PICK n \in Tx : /\ status[n] = "none"
                      /\ status' = [status EXCEPT ![n] = "open"]
                      /\ tx' = [tx EXCEPT ![c] = n]
  BY DEF LockReserved
<1>2. \A d \in Conn : inTransaction'[d] <=> inTransaction[d] \/ d = c
  BY DEF IInv, TypeOK, LockReserved
<1>3. \A d \in Conn : ~inTransaction[d]
  BY VFSWriteAssumption DEF IInv, SingleWriter, LockReserved
<1>4. TypeOK'
  BY <1>1 DEF IInv, TypeOK, Content, LockReserved, MayLock, mode, call, upload
<1>5. SingleWriter' /\ LockInv' /\ DisabledIsClean'
  BY <1>2, <1>3 DEF IInv, TypeOK, SingleWriter, LockInv, DisabledIsClean, LockReserved, MayLock,
     Free, mode, call, upload
<1>6. TxInv'
  BY <1>1, <1>2, <1>3 DEF IInv, TypeOK, TxInv, LockReserved
<1>7. PageInv' /\ OnlyCommittedUploads'
  BY <1>1, <1>2, <1>3
  DEF IInv, TypeOK, Content, PageInv, Committed, OnlyCommittedUploads, LockReserved
<1> QED
  BY <1>4, <1>5, <1>6, <1>7 DEF IInv

LEMMA WriteAtKeeps == ASSUME IInv, NEW c \in Conn, NEW p \in Page, WriteAt(c, p) PROVE IInv'
<1>1. TypeOK'
  BY DEF IInv, TypeOK, WriteAt, shared, mode, call, upload
<1>2. SingleWriter' /\ LockInv' /\ DisabledIsClean' /\ TxInv' /\ OnlyCommittedUploads'
  BY DEF IInv, TypeOK, SingleWriter, LockInv, DisabledIsClean, TxInv, OnlyCommittedUploads,
     WriteAt, shared, mode, call, upload
<1>3. PageInv'
  BY DEF IInv, TypeOK, SingleWriter, PageInv, Committed, WriteAt, shared
<1> QED
  BY <1>1, <1>2, <1>3 DEF IInv

\* The end of a transaction: its status changes, and its pages with it.
LEMMA EndTxKeeps ==
    ASSUME IInv, NEW c \in Conn, inTransaction[c], Free(c), EndTx(c),
           NEW s \in {"committed", "rolledback"}, status' = [status EXCEPT ![tx[c]] = s],
           page' = IF s = "committed" THEN page ELSE [page EXCEPT ![c] = saved[c]]
    PROVE  IInv'
<1>1. \A d \in Conn : inTransaction[d] => d = c
  BY DEF IInv, SingleWriter
<1>2. \A d \in Conn : ~inTransaction'[d]
  BY <1>1 DEF IInv, TypeOK, EndTx
<1>3. \A v \in Tx : status[v] = "committed" => status'[v] = "committed"
  BY DEF IInv, TypeOK, TxInv
<1>4. TypeOK'
  BY DEF IInv, TypeOK, Content, EndTx, Broadcast, upload
<1>5. SingleWriter' /\ LockInv' /\ DisabledIsClean'
  BY <1>2 DEF IInv, TypeOK, SingleWriter, LockInv, DisabledIsClean, EndTx, upload
<1>6. TxInv'
  BY <1>2 DEF TxInv
<1>7. ASSUME NEW d \in Conn, NEW p \in Page PROVE Committed(page[d][p])'
  <2>1. page[d][p] \in Content /\ saved[d][p] \in Content
    BY DEF IInv, TypeOK
  <2>2. CASE d # c
    BY <1>1, <1>3, <2>1, <2>2 DEF IInv, TypeOK, Content, PageInv, Committed
  <2>3. CASE d = c /\ s = "committed"
    BY <1>3, <2>1, <2>3 DEF IInv, TypeOK, TxInv, Content, PageInv, Committed
  <2>4. CASE d = c /\ s = "rolledback"
    BY <1>3, <2>1, <2>4 DEF IInv, TypeOK, Content, PageInv, Committed
  <2> QED
    BY <2>2, <2>3, <2>4
<1>8. PageInv'
  BY <1>2, <1>7 DEF PageInv
<1>9. OnlyCommittedUploads'
  BY <1>3 DEF IInv, TypeOK, Content, OnlyCommittedUploads, EndTx
<1> QED
  BY <1>4, <1>5, <1>6, <1>8, <1>9 DEF IInv

-----------------------------------------------------------------------------
(* Uploads.                                                                *)

LEMMA SyncKeeps == ASSUME IInv, NEW c \in Conn, Sync(c) PROVE IInv'
<1>1. TypeOK'
  BY DEF IInv, TypeOK, Sync, StartSync, shared, sqlite, mode, call, upload
<1>2. SingleWriter' /\ LockInv' /\ DisabledIsClean'
  BY DEF IInv, TypeOK, SingleWriter, LockInv, DisabledIsClean, Sync, StartSync, shared, sqlite,
     mode, call, upload
<1> QED
  BY <1>1, <1>2, DataKeeps DEF IInv, Sync, shared, sqlite, mode, call, upload

LEMMA CheckPassesKeeps == ASSUME IInv, NEW c \in Conn, CheckPasses(c) PROVE IInv'
<1>1. TypeOK'
  BY DEF IInv, TypeOK, CheckPasses, shared, sqlite, mode, call, upload
<1>2. SingleWriter' /\ LockInv' /\ DisabledIsClean'
  BY DEF IInv, TypeOK, SingleWriter, LockInv, DisabledIsClean, CheckPasses, shared, sqlite, mode,
     call, upload
<1> QED
  BY <1>1, <1>2, DataKeeps DEF IInv, CheckPasses, shared, sqlite, mode, call, upload

\* What the end of a sync does to the flags, when the dirty pages that stay
\* behind are the ones of a failed sync.
LEMMA EndSyncKeeps ==
    ASSUME IInv, NEW c \in Conn, NEW ok \in BOOLEAN, sync[c] # "no", EndSync(c, ok),
           UNCHANGED sqlite,
           dirty' = IF ok THEN [dirty EXCEPT ![c] = {}] ELSE dirty, UNCHANGED writeFile
    PROVE  /\ writeEnabled' \in [Conn -> BOOLEAN] /\ disabling' \in [Conn -> BOOLEAN]
           /\ closed' \in [Conn -> BOOLEAN]
           /\ sync' \in [Conn -> {"no", "check", "upload"}]
           /\ caller' \in [Conn -> {"none", "loop", "disable", "close"}]
           /\ dirty' \in [Conn -> SUBSET Page]
           /\ SingleWriter' /\ LockInv' /\ DisabledIsClean'
<1>1. closed' \in [Conn -> BOOLEAN]
  <2>1. (caller[c] = "close") \in BOOLEAN
    OBVIOUS
  <2> HIDE DEF IInv
  <2>2. closed \in [Conn -> BOOLEAN]
    BY DEF IInv, TypeOK
  <2> QED
    BY <2>1, <2>2, Zenon DEF EndSync
<1>2. writeEnabled' \in [Conn -> BOOLEAN] /\ disabling' \in [Conn -> BOOLEAN]
  BY DEF IInv, TypeOK, EndSync
<1>3. /\ sync' \in [Conn -> {"no", "check", "upload"}]
      /\ caller' \in [Conn -> {"none", "loop", "disable", "close"}]
      /\ dirty' \in [Conn -> SUBSET Page]
  BY DEF IInv, TypeOK, EndSync
<1>4. SingleWriter' /\ LockInv'
  BY DEF IInv, TypeOK, SingleWriter, LockInv, EndSync, sqlite
<1>5. DisabledIsClean'
  BY DEF IInv, TypeOK, LockInv, DisabledIsClean, EndSync, sqlite
<1> QED
  BY <1>1, <1>2, <1>3, <1>4, <1>5

LEMMA CheckConflictsKeeps == ASSUME IInv, NEW c \in Conn, CheckConflicts(c) PROVE IInv'
<1>1. SingleWriter' /\ LockInv' /\ DisabledIsClean'
  BY EndSyncKeeps DEF CheckConflicts, shared
<1>2. TypeOK'
  BY EndSyncKeeps DEF IInv, TypeOK, CheckConflicts, EndSync, call, shared, sqlite
<1> QED
  BY <1>1, <1>2, DataKeeps DEF IInv, CheckConflicts, shared, sqlite

\* A file stored holds committed pages: f.mu keeps transactions away.
LEMMA StoreKeeps ==
    ASSUME IInv, NEW c \in Conn, sync[c] = "upload", Store(c), UNCHANGED status
    PROVE  /\ remote' \in Seq([Page -> Content])
           /\ Len(remote') >= Len(remote) /\ Len(remote') >= expectedTXID[c] + 1
           /\ OnlyCommittedUploads'
<1> DEFINE file == [p \in Page |-> IF p \in dirty[c] THEN page[c][p] ELSE 0]
           t == expectedTXID[c] + 1
           n == IF t > Len(remote) THEN t ELSE Len(remote)
<1>1. remote \in Seq([Page -> Content]) /\ expectedTXID[c] \in 0..Len(remote)
  BY DEF IInv, TypeOK
<1>2. Len(remote) \in Nat /\ t \in 1..(Len(remote) + 1) /\ n \in Nat /\ n \in {t, Len(remote)}
  BY <1>1
<1>3. file \in [Page -> Content]
  BY DEF IInv, TypeOK, Content
<1>4. remote' = [u \in 1..n |-> IF u = t THEN file ELSE remote[u]]
  BY DEF Store
<1> HIDE DEF file, n
<1>5. remote' \in [1..n -> [Page -> Content]]
  BY <1>1, <1>2, <1>3, <1>4
<1>6. remote' \in Seq([Page -> Content])
  BY <1>2, <1>5, SeqDef
<1>7. Len(remote') = n
  BY <1>2, <1>5, <1>6, LenProperties
<1>8. n >= Len(remote) /\ n >= t
  BY <1>1, <1>2 DEF n
<1>9. \A p \in Page : Committed(file[p])
  BY DEF file, IInv, TypeOK, LockInv, PageInv, Committed
<1>10. OnlyCommittedUploads'
  <2> SUFFICES ASSUME NEW u \in DOMAIN remote', NEW p \in Page, remote'[u][p] # 0
               PROVE  status'[remote'[u][p]] = "committed"
    BY DEF OnlyCommittedUploads
  <2>1. u \in 1..n
    BY <1>5
  <2>2. CASE u = t
    BY <1>4, <1>9, <2>1, <2>2 DEF Committed
  <2>3. CASE u # t
    <3>1. u \in DOMAIN remote /\ remote'[u] = remote[u]
      BY <1>1, <1>2, <1>4, <2>1, <2>3, LenProperties
    <3> QED
      BY <3>1 DEF IInv, OnlyCommittedUploads
  <2> QED
    BY <2>2, <2>3
<1> QED
  BY <1>6, <1>7, <1>8, <1>10

LEMMA UploadKeeps == ASSUME IInv, NEW c \in Conn, Upload(c) PROVE IInv'
<1>1. /\ remote' \in Seq([Page -> Content])
      /\ Len(remote') >= Len(remote) /\ Len(remote') >= expectedTXID[c] + 1
      /\ OnlyCommittedUploads'
  BY StoreKeeps DEF Upload, sqlite
<1>2. TxInv' /\ PageInv'
  BY DEF IInv, TxInv, PageInv, Committed, Upload, sqlite
<1>3. Len(remote) \in Nat /\ Len(remote') \in Nat
  BY <1>1, LenProperties DEF IInv, TypeOK
<1>4. /\ expectedTXID' \in [Conn -> 0..Len(remote')]
      /\ lastSyncedTXID' \in 0..Len(remote')
  BY <1>1, <1>3 DEF IInv, TypeOK, Upload, EndSync
<1>5. SingleWriter' /\ LockInv' /\ DisabledIsClean' /\ TypeOK'
  BY <1>1, <1>4, EndSyncKeeps DEF IInv, TypeOK, Upload, EndSync, call, sqlite
<1> QED
  BY <1>1, <1>2, <1>5 DEF IInv

\* The file may be stored although the request fails.
LEMMA RequestFailsKeeps == ASSUME IInv, NEW c \in Conn, RequestFails(c) PROVE IInv'
<1>1. /\ remote' \in Seq([Page -> Content])
      /\ Len(remote') >= Len(remote)
      /\ OnlyCommittedUploads'
  <2>1. CASE remote' = remote
    <3>1. Len(remote') >= Len(remote)
      BY <2>1, LenProperties DEF IInv, TypeOK
    <3> QED
      BY <2>1, <3>1 DEF IInv, TypeOK, OnlyCommittedUploads, RequestFails, sqlite
  <2>2. CASE sync[c] = "upload" /\ Store(c)
    BY <2>2, StoreKeeps DEF RequestFails, sqlite
  <2> QED
    BY <2>1, <2>2 DEF RequestFails
<1>2. TxInv' /\ PageInv'
  BY DEF IInv, TxInv, PageInv, Committed, RequestFails, sqlite
<1>3. Len(remote) \in Nat /\ Len(remote') \in Nat
  BY <1>1, LenProperties DEF IInv, TypeOK
<1>4. /\ expectedTXID' \in [Conn -> 0..Len(remote')]
      /\ lastSyncedTXID' \in 0..Len(remote')
  BY <1>1, <1>3 DEF IInv, TypeOK, RequestFails, EndSync
<1>5. faults' \in 0..MaxFaults
  BY VFSWriteAssumption DEF IInv, TypeOK, RequestFails
<1>6. SingleWriter' /\ LockInv' /\ DisabledIsClean' /\ TypeOK'
  BY <1>1, <1>4, <1>5, EndSyncKeeps DEF IInv, TypeOK, RequestFails, EndSync, call, sqlite
<1> QED
  BY <1>1, <1>2, <1>6 DEF IInv

-----------------------------------------------------------------------------
(* Turning writes off and on, and Close.                                   *)

\* The call's own fields.
CallTyped ==
    /\ waiter \in [Conn -> {"none", "loop", "waiting", "woken"}]
    /\ timer \in [Conn -> {"off", "running", "fired"}]
    /\ overdue \in [Conn -> BOOLEAN]

LEMMA ReturnTyped == ASSUME IInv, NEW c \in Conn, Return(c) PROVE CallTyped'
<1>1. /\ waiter' \in [Conn -> {"none", "loop", "waiting", "woken"}]
      /\ timer' \in [Conn -> {"off", "running", "fired"}]
  BY DEF IInv, TypeOK, Return
<1>2. overdue' \in [Conn -> BOOLEAN]
  BY DEF IInv, TypeOK, Return
<1> QED
  BY <1>1, <1>2 DEF CallTyped

\* The fields these steps set, and the others.
ModeTyped ==
    /\ writeEnabled \in [Conn -> BOOLEAN]
    /\ disabling \in [Conn -> BOOLEAN]
    /\ closed \in [Conn -> BOOLEAN]
    /\ sync \in [Conn -> {"no", "check", "upload"}]
    /\ caller \in [Conn -> {"none", "loop", "disable", "close"}]

LEMMA RestTyped ==
    ASSUME IInv, CallTyped', ModeTyped', UNCHANGED <<shared, sqlite, dirty, expectedTXID, faults>>
    PROVE  TypeOK'
BY DEF IInv, TypeOK, CallTyped, ModeTyped, shared, sqlite

LEMMA DisableKeeps == ASSUME IInv, NEW c \in Conn, Disable(c) PROVE IInv'
<1>1. TypeOK'
  BY DEF IInv, TypeOK, Disable, shared, sqlite, mode, call, upload
<1>2. SingleWriter' /\ LockInv' /\ DisabledIsClean'
  BY DEF IInv, TypeOK, SingleWriter, LockInv, DisabledIsClean, Disable, shared, sqlite, mode,
     call, upload
<1> QED
  BY <1>1, <1>2, DataKeeps DEF IInv, Disable, shared, sqlite, mode, call, upload

\* What only the call that waits is touched by.
LEMMA CallKeeps ==
    ASSUME IInv, NEW c \in Conn,
           TimerFires(c) \/ DeadlinePasses(c) \/ DisableWaits(c) \/ DisableResumes(c)
    PROVE  IInv'
<1>1. TypeOK'
  <2>1. CallTyped /\ waiter \in [Conn -> {"none", "loop", "waiting", "woken"}]
    BY DEF IInv, TypeOK, CallTyped
  <2>2. CallTyped'
    <3>1. CASE TimerFires(c)
      BY <2>1, <3>1 DEF CallTyped, TimerFires, Broadcast
    <3>2. CASE DeadlinePasses(c)
      BY <2>1, <3>2 DEF CallTyped, DeadlinePasses
    <3>3. CASE DisableWaits(c) \/ DisableResumes(c)
      BY <2>1, <3>3 DEF CallTyped, DisableWaits, DisableResumes
    <3> QED
      BY <3>1, <3>2, <3>3
  <2>3. ModeTyped'
    BY DEF IInv, TypeOK, ModeTyped, TimerFires, DeadlinePasses, DisableWaits, DisableResumes, upload
  <2>4. UNCHANGED <<shared, sqlite, dirty, expectedTXID, faults>>
    BY DEF TimerFires, DeadlinePasses, DisableWaits, DisableResumes
  <2> QED
    BY <2>2, <2>3, <2>4, RestTyped
<1>2. SingleWriter' /\ LockInv' /\ DisabledIsClean'
  BY DEF IInv, SingleWriter, LockInv, DisabledIsClean, TimerFires, DeadlinePasses, DisableWaits,
     DisableResumes, shared, sqlite, upload
<1>3. UNCHANGED <<remote, status, inTransaction, tx, page, saved>>
  BY DEF TimerFires, DeadlinePasses, DisableWaits, DisableResumes, shared, sqlite
<1> QED
  BY <1>1, <1>2, <1>3, DataKeeps DEF IInv

LEMMA DisableTimesOutKeeps == ASSUME IInv, NEW c \in Conn, DisableTimesOut(c) PROVE IInv'
<1>1. TypeOK'
  <2>1. disabling' \in [Conn -> BOOLEAN]
    BY DEF IInv, TypeOK, DisableTimesOut
  <2> QED
    BY <2>1, ReturnTyped, RestTyped DEF IInv, TypeOK, ModeTyped, DisableTimesOut, upload
<1>2. SingleWriter' /\ LockInv' /\ DisabledIsClean'
  BY DEF IInv, SingleWriter, LockInv, DisabledIsClean, DisableTimesOut, shared, sqlite, upload
<1> QED
  BY <1>1, <1>2, DataKeeps DEF IInv, DisableTimesOut, shared, sqlite, upload

LEMMA EnableKeeps == ASSUME IInv, NEW c \in Conn, Enable(c) PROVE IInv'
<1>1. TypeOK'
  <2>1. ModeTyped'
    <3>1. ModeTyped
      BY DEF IInv, TypeOK, ModeTyped
    <3> QED
      BY <3>1 DEF ModeTyped, Enable, mode, upload
  <2>2. CallTyped'
    BY DEF IInv, TypeOK, CallTyped, Enable, call
  <2> QED
    BY <2>1, <2>2, RestTyped DEF Enable
<1>2. SingleWriter' /\ LockInv' /\ DisabledIsClean'
  BY DEF IInv, TypeOK, SingleWriter, LockInv, DisabledIsClean, Enable, Free, shared, sqlite,
     mode, call, upload
<1> QED
  BY <1>1, <1>2, DataKeeps DEF IInv, Enable, shared, sqlite, mode, call, upload

LEMMA CloseKeeps == ASSUME IInv, NEW c \in Conn, Close(c) PROVE IInv'
<1>1. TypeOK'
  <2>1. ModeTyped'
    <3>1. ModeTyped
      BY DEF IInv, TypeOK, ModeTyped
    <3> QED
      BY <3>1 DEF ModeTyped, Close, StartSync, mode, upload
  <2>2. CallTyped'
    BY DEF IInv, TypeOK, CallTyped, Close, call
  <2> QED
    BY <2>1, <2>2, RestTyped DEF Close
<1>2. SingleWriter' /\ LockInv' /\ DisabledIsClean'
  BY DEF IInv, TypeOK, SingleWriter, LockInv, DisabledIsClean, Close, StartSync, Ready, Free,
     shared, sqlite, mode, call, upload
<1> QED
  BY <1>1, <1>2, DataKeeps DEF IInv, Close, shared, sqlite, mode, call, upload

LEMMA DisableProceedsKeeps == ASSUME IInv, NEW c \in Conn, DisableProceeds(c) PROVE IInv'
<1>1. CASE dirty[c] # {}
  <2>1. TypeOK'
    <3>1. ModeTyped
      BY DEF IInv, TypeOK, ModeTyped
    <3>2. ModeTyped'
      BY <1>1, <3>1 DEF ModeTyped, DisableProceeds, StartSync
    <3> QED
      BY <3>2, ReturnTyped, RestTyped DEF DisableProceeds
  <2>2. SingleWriter' /\ LockInv' /\ DisabledIsClean'
    BY <1>1 DEF IInv, TypeOK, SingleWriter, LockInv, DisabledIsClean, DisableProceeds, StartSync,
       shared, sqlite
  <2> QED
    BY <2>1, <2>2, DataKeeps DEF IInv, DisableProceeds, shared, sqlite
<1>2. CASE dirty[c] = {}
  <2>1. TypeOK'
    <3>1. writeEnabled' \in [Conn -> BOOLEAN] /\ disabling' \in [Conn -> BOOLEAN]
      BY <1>2 DEF IInv, TypeOK, DisableProceeds
    <3> QED
      BY <1>2, <3>1, ReturnTyped, RestTyped DEF IInv, TypeOK, ModeTyped, DisableProceeds, upload
  <2>2. SingleWriter' /\ LockInv'
    BY <1>2 DEF IInv, SingleWriter, LockInv, DisableProceeds, shared, sqlite, upload
  <2>3. \A d \in Conn : ~writeEnabled'[d] => d = c \/ ~writeEnabled[d]
    BY <1>2 DEF IInv, TypeOK, DisableProceeds
  <2>4. DisabledIsClean'
    BY <1>2, <2>3 DEF IInv, DisabledIsClean, DisableProceeds, sqlite
  <2> QED
    BY <2>1, <2>2, <2>4, DataKeeps DEF IInv, DisableProceeds, shared, sqlite
<1> QED
  BY <1>1, <1>2

-----------------------------------------------------------------------------

LEMMA StepKeeps == IInv /\ [Next]_vars => IInv'
<1> SUFFICES ASSUME IInv, [Next]_vars PROVE IInv'
  OBVIOUS
<1>1. CASE UNCHANGED vars
  <2>1. TypeOK' /\ SingleWriter' /\ LockInv' /\ DisabledIsClean'
    BY <1>1 DEF IInv, TypeOK, SingleWriter, LockInv, DisabledIsClean, vars
  <2> QED
    BY <1>1, <2>1, DataKeeps DEF IInv, vars
<1>2. ASSUME NEW c \in Conn, Step(c) PROVE IInv'
  <2>1. CASE Commit(c)
    BY <2>1, EndTxKeeps DEF Commit, Ready
  <2>2. CASE Rollback(c)
    BY <2>2, EndTxKeeps DEF Rollback, Ready
  <2>3. CASE \E p \in Page : WriteAt(c, p)
    BY <2>3, WriteAtKeeps
  <2>4. CASE \/ LockShared(c) \/ AskLock(c) \/ LockRefused(c) \/ LockReserved(c) \/ LockExclusive(c)
             \/ UnlockNone(c)
    BY <2>4, LockSharedKeeps, AskLockKeeps, LockRefusedKeeps, LockReservedKeeps, LockExclusiveKeeps,
       UnlockNoneKeeps
  <2>5. CASE Sync(c) \/ CheckPasses(c) \/ CheckConflicts(c) \/ Upload(c) \/ RequestFails(c)
    BY <2>5, SyncKeeps, CheckPassesKeeps, CheckConflictsKeeps, UploadKeeps, RequestFailsKeeps
  <2>6. CASE Disable(c) \/ DisableProceeds(c) \/ DisableTimesOut(c) \/ Enable(c) \/ Close(c)
    BY <2>6, DisableKeeps, DisableProceedsKeeps, DisableTimesOutKeeps, EnableKeeps, CloseKeeps
  <2>7. CASE TimerFires(c) \/ DeadlinePasses(c) \/ DisableWaits(c) \/ DisableResumes(c)
    BY <2>7, CallKeeps
  <2> QED
    BY <1>2, <2>1, <2>2, <2>3, <2>4, <2>5, <2>6, <2>7 DEF Step
<1> QED
  BY <1>1, <1>2 DEF Next

\* The inductive invariant, from which the theorems below follow.
LEMMA Invariant == Spec => []IInv
BY InitHolds, StepKeeps, PTL DEF Spec

\* Shape of the fields; no connection of vfs.go counts a TXID that is not on
\* the replica.
THEOREM WriteTyped == Spec => []TypeOK
BY Invariant, PTL DEF IInv

\* vfs.writeFile keeps write transactions apart, for any number of connections.
THEOREM OneWriter == Spec => []SingleWriter
BY Invariant, PTL DEF IInv

\* syncToRemoteWithLock uploads pages of committed transactions only.
THEOREM UploadsCommitted == Spec => []OnlyCommittedUploads
BY Invariant, PTL DEF IInv

\* SetWriteEnabledWithTimeout leaves nothing to upload behind.
THEOREM DisabledClean == Spec => []DisabledIsClean
BY Invariant, PTL DEF IInv

-----------------------------------------------------------------------------

\* Only Wait puts the call to sleep, in an open transaction, and the end of that
\* transaction is the end of the sleep.
LEMMA StepKeepsOwed ==
    ASSUME TypeOK, WakeUpIsOwed, NEW c \in Conn, Step(c)
    PROVE  WakeUpIsOwed'
<1> USE DEF WakeUpIsOwed
<1> waiter \in [Conn -> {"none", "loop", "waiting", "woken"}] /\ inTransaction \in [Conn -> BOOLEAN]
  BY DEF TypeOK
<1>1. CASE LockReserved(c)
  BY <1>1 DEF LockReserved, mode, call, upload
<1>2. CASE Commit(c) \/ Rollback(c)
  <2>1. /\ waiter' = [waiter EXCEPT ![c] = IF @ = "waiting" THEN "woken" ELSE @]
        /\ inTransaction' = [inTransaction EXCEPT ![c] = FALSE]
    BY <1>2 DEF Commit, Rollback, EndTx, Broadcast
  <2>2. waiter'[c] # "waiting"
    BY <2>1
  <2>3. \A d \in Conn \ {c} : waiter'[d] = waiter[d] /\ inTransaction'[d] = inTransaction[d]
    BY <2>1
  <2> QED
    BY <2>2, <2>3
<1>3. CASE Disable(c) \/ DisableWaits(c) \/ DisableResumes(c)
  BY <1>3 DEF Disable, DisableWaits, DisableResumes, sqlite, upload
<1>4. CASE TimerFires(c)
  BY <1>4 DEF TimerFires, Broadcast, sqlite, upload
<1>5. CASE DisableProceeds(c) \/ DisableTimesOut(c)
  BY <1>5 DEF DisableProceeds, DisableTimesOut, Return, sqlite, upload
<1>6. CASE UNCHANGED <<waiter, inTransaction>>
  BY <1>6
<1>7. CASE LockShared(c) \/ AskLock(c) \/ LockRefused(c) \/ LockExclusive(c) \/ UnlockNone(c)
  BY <1>6, <1>7 DEF LockShared, AskLock, LockRefused, LockExclusive, UnlockNone, shared, sqlite,
     mode, call, upload
<1>8. CASE \E p \in Page : WriteAt(c, p)
  BY <1>6, <1>8 DEF WriteAt, mode, call, upload
<1>9. CASE Sync(c) \/ CheckPasses(c) \/ CheckConflicts(c) \/ Upload(c) \/ RequestFails(c)
  BY <1>6, <1>9 DEF Sync, StartSync, CheckPasses, CheckConflicts, Upload, RequestFails, EndSync,
     sqlite, mode, call, upload
<1>10. CASE DeadlinePasses(c) \/ Enable(c) \/ Close(c)
  BY <1>6, <1>10 DEF DeadlinePasses, Enable, Close, sqlite, call, upload
<1> QED
  BY <1>1, <1>2, <1>3, <1>4, <1>5, <1>7, <1>8, <1>9, <1>10 DEF Step

\* The call that turns writes off never sleeps beyond the transaction it waits
\* for (SetWriteEnabledWithTimeout and VFSFile.Unlock), whatever its timer does.
THEOREM NoWakeUpLost == Spec => []WakeUpIsOwed
<1>1. Init => WakeUpIsOwed
  BY DEF Init, WakeUpIsOwed
<1>2. TypeOK /\ WakeUpIsOwed /\ [Next]_vars => WakeUpIsOwed'
  <2>1. CASE UNCHANGED vars
    BY <2>1 DEF vars, sqlite, mode, call, upload, WakeUpIsOwed
  <2> QED
    BY <2>1, StepKeepsOwed DEF Next
<1> QED
  BY <1>1, <1>2, WriteTyped, PTL DEF Spec

=============================================================================
