--------------------------- MODULE WALSyncProofs ---------------------------
(***************************************************************************)
(* Proofs about WALSync.                                                   *)
(***************************************************************************)
EXTENDS WALSync, WellFoundedInduction, TLAPS

\* The local variables of a call always include the stage.
HasStage == "stage" \in DOMAIN call

LockInv == HasStage /\ WriteLockReturned

\* A step of the application leaves Litestream's read transaction alone, and
\* takes the write lock only when nobody holds it.
LEMMA AppKeepsLocks ==
    ASSUME AppNext
    PROVE  /\ rtx' = rtx
           /\ wlock' = "litestream" => wlock = "litestream"
BY DEF AppNext, AppSpill, AppCommitOpen, AppCommit, AppRollback, AppCheckpoint, AppTruncate, TruncateWAL

\* ensureWALExists leaves the write lock as it was.
LEMMA EnsureKeepsLocks ==
    ASSUME EnsureWALExists
    PROVE  wlock' = wlock
BY DEF EnsureWALExists, SeqWrite

\* The write lock Litestream takes for the last copy of a checkpoint is given
\* back on every path (db.go: checkpoint rolls its transaction back with a
\* defer), whatever the application, a failure or a crash does in between.
THEOREM LocksHold == Spec => []WriteLockReturned
  <1>1. Init => LockInv
    BY DEF Init, SQLInit, LockInv, HasStage, WriteLockReturned, NoCall
  <1>2. LockInv /\ [Next]_vars => LockInv'
    <2> SUFFICES ASSUME LockInv, [Next]_vars PROVE LockInv'
      OBVIOUS
    <2> USE DEF LockInv, HasStage, NoCall, WriteLockReturned
    <2>1. CASE App
      BY <2>1, AppKeepsLocks DEF App, syncVars
    <2>2. CASE InitDB
      BY <2>2, EnsureKeepsLocks DEF InitDB, Goto
    <2>3. CASE SyncStart
      BY <2>3, EnsureKeepsLocks DEF SyncStart, Goto
    <2>4. CASE Verify
      BY <2>4 DEF Verify, Goto, Return
    <2>5. CASE Scan
      BY <2>5 DEF Scan, AfterSync, Goto, Return
    <2>6. CASE WriteLTX
      BY <2>6 DEF WriteLTX, AfterSync, Goto, Return
    <2>7. CASE SyncEnd
      BY <2>7 DEF SyncEnd, Return
    <2>8. CASE CheckpointStart
      BY <2>8 DEF CheckpointStart, Goto, sqlVars
    <2>9. CASE ReleaseReadLock
      BY <2>9 DEF ReleaseReadLock, Goto, Return
    <2>10. CASE Pragma
      BY <2>10 DEF Pragma, TruncateWAL, sqlVars
    <2>11. CASE AcquireReadLock
      BY <2>11 DEF AcquireReadLock, Return, Goto
    <2>12. CASE CheckpointSeq
      BY <2>12 DEF CheckpointSeq, SeqWrite, Goto, Return
    <2>13. CASE CompareHeader
      BY <2>13 DEF CompareHeader, Goto, Return
    <2>14. CASE ContextEnds
      BY <2>14 DEF ContextEnds, syncVars
    <2>15. CASE Close
      BY <2>15 DEF Close, Goto
    <2>16. CASE Crash
      BY <2>16 DEF Crash, Goto
    <2>17. CASE UNCHANGED vars
      BY <2>17 DEF vars, sqlVars, syncVars
    <2>18. QED
      BY <2>1, <2>2, <2>3, <2>4, <2>5, <2>6, <2>7, <2>8, <2>9, <2>10, <2>11, <2>12,
         <2>13, <2>14, <2>15, <2>16, <2>17 DEF Next, SyncStep
  <1>3. LockInv => WriteLockReturned
    BY DEF LockInv
  <1>4. QED
    BY <1>1, <1>2, <1>3, PTL DEF Spec

-----------------------------------------------------------------------------
(* The shape of the state.                                                 *)

\* The database: its pages, each with a value.
Database == {s \in Seq(Nat) : Len(s) \in Pages}

\* SQLite's files and locks.  A WAL without a header is empty; the frames of
\* the open transaction follow the committed ones, and the transaction holds
\* the write lock.
SQLTypes ==
    /\ dbfile \in Database
    /\ wal \in Seq(Frame)
    /\ hsalt \in Nat /\ gen \in Nat /\ nval \in Nat /\ mx \in Nat /\ nbf \in Nat
    /\ nbf <= mx /\ pend \in {0, 1} /\ mx + pend <= Len(wal)
    /\ hsalt = 0 => mx + pend = 0
    /\ rtx \in Nat \cup {NoRead}
    /\ wlock \in {"none", "app", "litestream"}
    /\ pend = 1 <=> wlock = "app"
    /\ hist \in Seq(Database) /\ hist # <<>>
    /\ napp \in Nat

\* What verify and sync pass on, and the files they write.
InfoType == [off : Nat, salt : Nat, snap : BOOLEAN]
PageTable == UNION {[S -> Nat] : S \in SUBSET Pages}
FrameTable == UNION {[S -> Nat \ {0}] : S \in SUBSET Pages}
ScanType == [off : Nat, size : Nat, salt : Nat, snap : BOOLEAN, commit : 0..MaxPages, map : FrameTable]
LTXType == [off : Nat, size : Nat, salt : Nat, snap : BOOLEAN, commit : 0..MaxPages, pages : PageTable]
CallType ==
    [stage : {"sync", "pre", "post"}, info : InfoType, scan : ScanType, mode : {"PASSIVE", "TRUNCATE"},
     hdr : Nat, orig : Int, began : Nat]

SyncTypes ==
    /\ ltx \in Seq(LTXType)
    /\ pc \in PCs
    /\ call \in CallType
    /\ toEnd \in BOOLEAN /\ sinceChk \in BOOLEAN
    /\ lastOff \in Nat \cup {-1}

TypeInv == SQLTypes /\ SyncTypes

-----------------------------------------------------------------------------
(* The largest element of a set.                                           *)

LEMMA NatHasLeast ==
    ASSUME NEW T \in SUBSET Nat, T # {}
    PROVE  \E x \in T : \A y \in T : x <= y
<1>1. PICK x \in T : \A y \in T : ~(<<y, x>> \in OpToRel(<, Nat))
  BY WFMin, NatLessThanWellFounded, Zenon
<1>2. \A y \in T : ~(y < x)
  <2>1. \A y \in T : y \in Nat /\ x \in Nat
    OBVIOUS
  <2>2. ASSUME NEW y \in T, y < x PROVE <<y, x>> \in OpToRel(<, Nat)
    BY <2>1, <2>2 DEF OpToRel
  <2> QED
    BY <1>1, <2>2
<1> QED
  BY <1>2

\* Max, which is a CHOOSE, is the greatest element of a set that has a bound.
LEMMA MaxIsIn ==
    ASSUME NEW S \in SUBSET Nat, S # {}, NEW n \in Nat, \A y \in S : y <= n
    PROVE  /\ Max(S) \in S
           /\ \A y \in S : y <= Max(S)
<1> DEFINE T == {b \in Nat : \A y \in S : y <= b}
<1>1. PICK b \in T : \A x \in T : b <= x
  <2>1. n \in T
    OBVIOUS
  <2> HIDE DEF T
  <2> QED
    BY <2>1, NatHasLeast DEF T
<1>2. b \in S
  <2> SUFFICES ASSUME b \notin S PROVE FALSE
    OBVIOUS
  <2>1. b # 0
    <3>1. PICK y \in S : y \in Nat /\ y <= b
      OBVIOUS
    <3> QED
      BY <3>1
  <2>2. b - 1 \in T
    BY <2>1
  <2> QED
    BY <1>1, <2>2
<1>3. \E x \in S : \A y \in S : x >= y
  BY <1>2
<1>4. Max(S) \in S /\ \A y \in S : Max(S) >= y
  BY <1>3, Zenon DEF Max
<1> QED
  BY <1>4

LEMMA MaxIs == ASSUME NEW S \in SUBSET Nat, NEW n \in S, \A y \in S : y <= n PROVE Max(S) = n
<1>1. n \in Nat /\ S # {}
  OBVIOUS
<1>2. Max(S) \in S /\ \A y \in S : y <= Max(S)
  BY <1>1, MaxIsIn
<1>3. PICK m \in S : m = Max(S) /\ n <= m /\ m <= n
  BY <1>2
<1>4. m \in Nat
  OBVIOUS
<1> QED
  BY <1>1, <1>3, <1>4

-----------------------------------------------------------------------------
(* SQLite.                                                                 *)

LEMMA CurrentType == ASSUME SQLTypes PROVE Current \in Database /\ Len(Current) \in Pages
BY DEF SQLTypes, Current, Database

LEMMA ChangedType ==
    ASSUME NEW p \in Pages, NEW v \in Nat, NEW n \in Pages, NEW old \in Database
    PROVE  Changed(p, v, n, old) \in Database /\ Len(Changed(p, v, n, old)) = n
<1>1. n \in Nat /\ old \in Seq(Nat)
  BY MaxPagesAssumption DEF Pages, Database
<1>2. Changed(p, v, n, old) \in [1..n -> Nat]
  BY <1>1 DEF Changed
<1> HIDE DEF Changed
<1> QED
  BY <1>1, <1>2 DEF Database

LEMMA WriteFrameTypes ==
    ASSUME SQLTypes, NEW p \in Pages, NEW c \in 0..MaxPages, NEW r \in BOOLEAN, r => pend = 0,
           WriteFrame(p, c, r)
    PROVE  /\ wal' \in Seq(Frame)
           /\ hsalt' \in Nat \ {0} /\ gen' \in Nat /\ nval' \in Nat /\ mx' \in Nat /\ nbf' \in Nat
           /\ nbf' <= mx' /\ mx' <= Len(wal')
           /\ c = 0 /\ pend = 0 => mx' + 1 <= Len(wal')
<1> DEFINE fresh == r \/ hsalt = 0
           salt  == IF fresh THEN gen + 1 ELSE hsalt
           slot  == (IF fresh THEN 0 ELSE mx) + pend + 1
           frame == [pg |-> p, val |-> nval, salt |-> salt, commit |-> c]
           n     == IF slot > Len(wal) THEN slot ELSE Len(wal)
<1>1. slot \in Nat /\ slot >= 1 /\ n \in Nat /\ slot <= n /\ Len(wal) <= n /\ n <= Len(wal) + 1
  BY DEF SQLTypes
<1>2. frame \in Frame /\ salt \in Nat \ {0}
  BY DEF SQLTypes, Frame, Value
<1>3. /\ hsalt' = salt /\ gen' = (IF fresh THEN gen + 1 ELSE gen) /\ nval' = nval + 1
      /\ mx' = (IF c > 0 THEN slot ELSE IF fresh THEN 0 ELSE mx)
      /\ nbf' = IF fresh THEN 0 ELSE nbf
      /\ wal' = [i \in 1..n |-> IF i = slot THEN frame ELSE wal[i]]
  BY DEF WriteFrame
<1>4. wal' \in Seq(Frame) /\ Len(wal') = n
  <2> HIDE DEF n, slot, frame
  <2>1. \A i \in 1..Len(wal) : wal[i] \in Frame
    BY DEF SQLTypes
  <2>2. \A i \in 1..n : i # slot => i \in 1..Len(wal)
    <3> USE DEF n
    <3> QED
      BY <1>1 DEF SQLTypes
  <2>3. wal' \in [1..n -> Frame]
    BY <1>2, <1>3, <2>1, <2>2
  <2> QED
    BY <1>1, <2>3
<1>5. gen' \in Nat /\ nval' \in Nat
  BY <1>3 DEF SQLTypes
<1>6. mx' \in Nat /\ nbf' \in Nat /\ nbf' <= mx' /\ mx' <= n /\ (c = 0 /\ pend = 0 => mx' + 1 <= n)
  BY <1>1, <1>3 DEF SQLTypes
<1>7. hsalt' = salt
  BY <1>3
<1> HIDE DEF n, slot, salt, frame, fresh
<1> QED
  BY <1>2, <1>4, <1>5, <1>6, <1>7

\* The write of a whole transaction of one frame.
LEMMA CommitTypes ==
    ASSUME SQLTypes, NEW p \in Pages, NEW n \in Pages, wlock = "none",
           \E r \in {FALSE, MayRestart} : WriteFrame(p, n, r),
           hist' = Append(hist, Changed(p, nval, n, Current)), napp' \in Nat,
           rtx' \in Nat \cup {NoRead}, UNCHANGED <<dbfile, wlock, pend>>
    PROVE  SQLTypes'
<1>1. PICK r \in BOOLEAN : WriteFrame(p, n, r) /\ (r => pend = 0)
  BY DEF MayRestart
<1>2. n \in 0..MaxPages
  BY MaxPagesAssumption DEF Pages
<1>3. hist' \in Seq(Database) /\ hist' # <<>>
  BY CurrentType, ChangedType DEF SQLTypes
<1>4. pend = 0
  BY DEF SQLTypes
<1>5. /\ wal' \in Seq(Frame)
      /\ hsalt' \in Nat \ {0} /\ gen' \in Nat /\ nval' \in Nat /\ mx' \in Nat /\ nbf' \in Nat
      /\ nbf' <= mx' /\ mx' <= Len(wal')
  BY <1>1, <1>2, WriteFrameTypes
<1>6. mx' + pend' <= Len(wal') /\ (hsalt' = 0 => mx' + pend' = 0)
  <2>1. pend' = 0 /\ hsalt' # 0
    BY <1>4, <1>5
  <2>2. PICK m \in Nat : m = mx' /\ m <= Len(wal')
    BY <1>5, Zenon
  <2>3. m + 0 = m
    OBVIOUS
  <2> QED
    BY <2>1, <2>2, <2>3, Zenon
<1> QED
  BY <1>3, <1>5, <1>6 DEF SQLTypes


\* A checkpoint stays within the pages of the database.
LEMMA BackfillTypes ==
    ASSUME SQLTypes, NEW to \in Nat, to <= mx, Backfill(to)
    PROVE  dbfile' \in Database /\ nbf' = to
<1> DEFINE new == {i \in (nbf + 1)..to : wal[i].pg <= Len(Current)}
           S == {Len(dbfile)} \cup {wal[i].pg : i \in new}
           n == IF to = mx THEN Len(Current) ELSE Max(S)
           Index(p) == {i \in new : wal[i].pg = p}
           f == [p \in 1..n |-> IF Index(p) # {} THEN wal[Max(Index(p))].val
                                ELSE IF p <= Len(dbfile) THEN dbfile[p] ELSE 0]
<1>1. new \subseteq 1..Len(wal)
  BY DEF SQLTypes
<1>2. n \in Pages
  <2>1. Len(Current) \in Pages
    BY CurrentType
  <2>2. S \subseteq Pages /\ S # {}
    <3>1. \A i \in new : wal[i] \in Frame
      <4> HIDE DEF new
      <4> QED
        BY <1>1 DEF SQLTypes
    <3>2. \A i \in new : wal[i].pg \in Pages
      <4> HIDE DEF new
      <4> QED
        BY <3>1 DEF Frame
    <3>3. Len(dbfile) \in Pages
      BY DEF SQLTypes, Database
    <3> HIDE DEF new
    <3> QED
      BY <3>2, <3>3
  <2>3. S \in SUBSET Nat /\ \A y \in S : y <= MaxPages
    BY <2>2, MaxPagesAssumption DEF Pages
  <2>4. Max(S) \in S
    <3> HIDE DEF S
    <3> QED
      BY <2>2, <2>3, MaxIsIn, MaxPagesAssumption
  <2> HIDE DEF S
  <2> QED
    BY <2>1, <2>2, <2>4
<1>3. ASSUME NEW p \in 1..n, Index(p) # {} PROVE wal[Max(Index(p))].val \in Nat
  <2>1. Index(p) \in SUBSET Nat /\ \A y \in Index(p) : y <= Len(wal)
    BY <1>1 DEF SQLTypes
  <2>2. Max(Index(p)) \in Index(p)
    <3>1. Len(wal) \in Nat
      BY DEF SQLTypes
    <3> DEFINE I == Index(p)
    <3>2. I \in SUBSET Nat /\ I # {} /\ \A y \in I : y <= Len(wal)
      BY <1>3, <2>1
    <3> HIDE DEF I
    <3>3. Max(I) \in I
      BY <3>1, <3>2, MaxIsIn
    <3> QED
      BY <3>3 DEF I
  <2>3. Max(Index(p)) \in 1..Len(wal)
    <3>1. Index(p) \subseteq new
      OBVIOUS
    <3> HIDE DEF Index, new
    <3> QED
      BY <1>1, <2>2, <3>1
  <2>4. wal[Max(Index(p))] \in Frame
    <3> HIDE DEF Index
    <3> QED
      BY <2>3 DEF SQLTypes
  <2> HIDE DEF Index
  <2> QED
    BY <2>4 DEF Frame, Value
<1>4. dbfile' = f /\ nbf' = to
  BY DEF Backfill
<1>5. f \in [1..n -> Nat]
  <2>1. ASSUME NEW p \in 1..n, Index(p) = {}
        PROVE  (IF p <= Len(dbfile) THEN dbfile[p] ELSE 0) \in Nat
    <3>1. n \in Nat /\ dbfile \in Seq(Nat)
      <4>1. n \in Nat
        BY <1>2, MaxPagesAssumption DEF Pages
      <4>2. dbfile \in Seq(Nat)
        <5> HIDE DEF n, Index
        <5> QED
          BY DEF SQLTypes, Database
      <4> QED
        BY <4>1, <4>2, Zenon
    <3> HIDE DEF n, Index
    <3> QED
      BY <3>1
  <2> HIDE DEF n, Index
  <2> QED
    BY <1>3, <2>1
<1>6. n \in Nat
  BY <1>2, MaxPagesAssumption DEF Pages
<1> HIDE DEF n, f
<1> QED
  BY <1>2, <1>4, <1>5, <1>6 DEF Database

LEMMA TruncateTypes == ASSUME SQLTypes, wlock = "none", TruncateWAL PROVE SQLTypes'
<1>1. dbfile' \in Database
  BY CurrentType DEF TruncateWAL
<1>2. pend = 0
  BY DEF SQLTypes
<1> QED
  BY <1>1, <1>2 DEF SQLTypes, TruncateWAL, txnVars

LEMMA AppTypes == ASSUME SQLTypes, AppNext PROVE SQLTypes'
<1>1. ASSUME NEW p \in Pages, AppSpill(p) PROVE SQLTypes'
  <2>1. PICK r \in BOOLEAN : WriteFrame(p, 0, r) /\ (r => pend = 0)
    BY <1>1 DEF AppSpill, MayRestart
  <2>2. 0 \in 0..MaxPages /\ pend = 0
    BY <1>1, MaxPagesAssumption DEF AppSpill, SQLTypes
  <2>3. /\ wal' \in Seq(Frame)
        /\ hsalt' \in Nat \ {0} /\ gen' \in Nat /\ nval' \in Nat /\ mx' \in Nat /\ nbf' \in Nat
        /\ nbf' <= mx' /\ mx' + 1 <= Len(wal')
    BY <2>1, <2>2, WriteFrameTypes
  <2>4. /\ wlock' = "app" /\ pend' = 1 /\ napp' \in Nat
        /\ dbfile' = dbfile /\ rtx' = rtx /\ hist' = hist
    BY <1>1 DEF AppSpill, SQLTypes
  <2>5. /\ dbfile \in Database /\ rtx \in Nat \cup {NoRead}
        /\ hist \in Seq(Database) /\ hist # <<>>
    BY DEF SQLTypes
  <2> QED
    BY <2>3, <2>4, <2>5 DEF SQLTypes
<1>2. ASSUME NEW p \in Pages, NEW n \in Pages, AppCommitOpen(p, n) PROVE SQLTypes'
  <2>1. pend = 1 /\ mx + 1 \in 1..Len(wal)
    BY <1>2 DEF AppCommitOpen, SQLTypes
  <2>2. n \in 0..MaxPages
    BY MaxPagesAssumption DEF Pages
  <2>3. /\ wal' \in Seq(Frame)
        /\ hsalt' \in Nat \ {0} /\ gen' \in Nat /\ nval' \in Nat /\ mx' \in Nat /\ nbf' \in Nat
        /\ nbf' <= mx' /\ mx' <= Len(wal')
    BY <1>2, <2>2, WriteFrameTypes DEF AppCommitOpen
  <2>4. wal[mx + 1].pg \in Pages /\ wal[mx + 1].val \in Nat
    <3>1. wal[mx + 1] \in Frame
      BY <2>1 DEF SQLTypes
    <3> QED
      BY <3>1 DEF Frame, Value
  <2>5. Changed(wal[mx + 1].pg, wal[mx + 1].val, Len(Current), Current) \in Database
    BY <2>4, CurrentType, ChangedType
  <2>6. hist' \in Seq(Database) /\ hist' # <<>>
    <3>1. nval \in Nat
      BY DEF SQLTypes
    <3>2. \A old \in Database : Changed(p, nval, n, old) \in Database
      BY <3>1, ChangedType
    <3> QED
      BY <1>2, <2>5, <3>2 DEF AppCommitOpen, SQLTypes
  <2>7. /\ wlock' = "none" /\ pend' = 0 /\ napp' = napp
        /\ dbfile' = dbfile /\ rtx' = rtx
    BY <1>2 DEF AppCommitOpen
  <2>8. dbfile \in Database /\ rtx \in Nat \cup {NoRead} /\ napp \in Nat
    BY DEF SQLTypes
  <2>9. mx' + pend' <= Len(wal') /\ pend' \in {0, 1} /\ (hsalt' = 0 => mx' + pend' = 0)
    <3>1. mx' \in Nat /\ mx' <= Len(wal') /\ hsalt' # 0
      BY <2>3
    <3>2. pend' = 0
      BY <2>7
    <3>3. \A a \in Nat : a + 0 = a
      OBVIOUS
    <3>4. mx' + pend' = mx'
      BY <3>1, <3>2, <3>3, Zenon
    <3> QED
      BY <3>1, <3>2, <3>4
  <2>10. wlock' \in {"none", "app", "litestream"} /\ (pend' = 1 <=> wlock' = "app")
    BY <2>7
  <2> QED
    BY <2>3, <2>6, <2>7, <2>8, <2>9, <2>10 DEF SQLTypes
<1>3. ASSUME NEW p \in Pages, NEW n \in Pages, AppCommit(p, n) PROVE SQLTypes'
  <2>1. /\ wlock = "none" /\ \E r \in {FALSE, MayRestart} : WriteFrame(p, n, r)
        /\ hist' = Append(hist, Changed(p, nval, n, Current))
        /\ UNCHANGED <<dbfile, wlock, pend>>
    BY <1>3 DEF AppCommit
  <2>2. napp' \in Nat /\ rtx' \in Nat \cup {NoRead}
    BY <1>3 DEF AppCommit, SQLTypes
  <2> QED
    BY <2>1, <2>2, CommitTypes
<1>4. CASE AppRollback
  BY <1>4 DEF AppRollback, SQLTypes, fileVars
<1>5. CASE AppCheckpoint
  <2>1. PICK safe \in Nat : safe <= mx /\ Backfill(safe)
    BY <1>5 DEF AppCheckpoint, SQLTypes
  <2>2. dbfile' \in Database /\ nbf' = safe
    BY <2>1, BackfillTypes
  <2> QED
    BY <1>5, <2>1, <2>2 DEF AppCheckpoint, SQLTypes
<1>6. CASE AppTruncate
  BY <1>6, TruncateTypes DEF AppTruncate
<1> QED
  BY <1>1, <1>2, <1>3, <1>4, <1>5, <1>6 DEF AppNext

LEMMA SeqWriteTypes == ASSUME SQLTypes, SeqWrite, rtx' \in Nat \cup {NoRead} PROVE SQLTypes'
<1>1. 1 \in Pages
  BY MaxPagesAssumption DEF Pages
<1> QED
  BY <1>1, CurrentType, CommitTypes DEF SeqWrite, SQLTypes

LEMMA EnsureTypes == ASSUME SQLTypes, EnsureWALExists, rtx' \in Nat \cup {NoRead} PROVE SQLTypes'
<1>1. CASE hsalt = 0
  BY <1>1, SeqWriteTypes DEF EnsureWALExists
<1>2. CASE hsalt # 0
  BY <1>2 DEF EnsureWALExists, fileVars, txnVars, SQLTypes
<1> QED
  BY <1>1, <1>2

-----------------------------------------------------------------------------
(* Reading the WAL.                                                        *)

\* The reader stops inside the WAL, or where it started.
LEMMA LastReadableIs ==
    ASSUME SQLTypes, NEW start \in Nat, NEW salt
    PROVE  LET last == LastReadable(start, salt)
           IN  /\ last \in Nat /\ start <= last
               /\ last > start => last <= Len(wal) /\ \A i \in (start + 1)..last : wal[i].salt = salt
<1> DEFINE S == {j \in start..Len(wal) : \A i \in (start + 1)..j : wal[i].salt = salt} \cup {start}
           last == LastReadable(start, salt)
           b == start + Len(wal)
<1>1. Len(wal) \in Nat
  BY DEF SQLTypes
<1>2. S \in SUBSET Nat /\ S # {} /\ b \in Nat /\ \A y \in S : y <= b
  BY <1>1
<1>3. last = Max(S)
  BY Zenon DEF LastReadable
<1>4. last \in S /\ \A y \in S : y <= last
  <2> HIDE DEF S, b, last
  <2> QED
    BY <1>2, <1>3, MaxIsIn
<1>5. start \in S
  OBVIOUS
<1> HIDE DEF last
<1> QED
  BY <1>1, <1>4, <1>5 DEF last

\* The page map names frames of the WAL after the offset, and the size of
\* the database a transaction committed.
LEMMA PageMapIs ==
    ASSUME SQLTypes, NEW start \in Nat, NEW salt
    PROVE  LET m == PageMap(start, salt)
           IN  /\ m.map \in FrameTable
               /\ m.end \in Nat /\ (m.end > 0 => m.end > start)
               /\ m.commit \in 0..MaxPages
<1> DEFINE last   == LastReadable(start, salt)
           cs     == {i \in (start + 1)..last : wal[i].commit > 0}
           top    == Max(cs \cup {0})
           commit == IF cs = {} THEN 0 ELSE wal[top].commit
           Index(p) == {i \in (start + 1)..top : wal[i].pg = p}
           pgs    == {p \in 1..commit : \E i \in (start + 1)..top : wal[i].pg = p}
           newest == [p \in pgs |-> Max(Index(p))]
           E      == {newest[p] : p \in pgs}
           m      == PageMap(start, salt)
<1>1. last \in Nat /\ start <= last /\ (last > start => last <= Len(wal)) /\ Len(wal) \in Nat
  BY LastReadableIs DEF SQLTypes
<1>2. cs \subseteq 1..Len(wal)
  <2> HIDE DEF last
  <2> QED
    BY <1>1
<1>3. top \in cs \cup {0}
  <2> DEFINE T == cs \cup {0}
  <2>1. T \in SUBSET Nat /\ T # {} /\ \A y \in T : y <= Len(wal)
    <3> HIDE DEF cs
    <3> QED
      BY <1>1, <1>2
  <2> HIDE DEF T
  <2>2. Max(T) \in T
    BY <1>1, <2>1, MaxIsIn
  <2> QED
    BY <2>2 DEF T
<1>4. top \in Nat /\ top <= Len(wal)
  <2> HIDE DEF cs, top
  <2> QED
    BY <1>1, <1>2, <1>3
<1>5. commit \in 0..MaxPages
  <2>1. CASE cs = {}
    BY <2>1, MaxPagesAssumption
  <2>2. CASE cs # {}
    <3>1. top \in cs
      <4>1. \A y \in cs : y <= top
        <5> DEFINE T == cs \cup {0}
        <5>1. T \in SUBSET Nat /\ T # {} /\ \A y \in T : y <= Len(wal)
          <6> HIDE DEF cs
          <6> QED
            BY <1>1, <1>2
        <5> HIDE DEF T
        <5>2. \A y \in T : y <= Max(T)
          BY <1>1, <5>1, MaxIsIn
        <5> QED
          BY <5>2 DEF T
      <4> HIDE DEF cs, top
      <4>2. PICK y \in cs : y \in 1..Len(wal) /\ y <= top
        BY <1>2, <2>2, <4>1
      <4>3. top # 0
        BY <4>2
      <4> QED
        BY <1>3, <4>3
    <3>2. top \in 1..Len(wal)
      <4> HIDE DEF cs, top
      <4> QED
        BY <1>2, <3>1
    <3>3. wal[top] \in Frame
      <4> HIDE DEF top
      <4> QED
        BY <3>2 DEF SQLTypes
    <3>4. wal[top].commit \in 0..MaxPages
      <4> HIDE DEF top
      <4> QED
        BY <3>3 DEF Frame
    <3> HIDE DEF cs, top
    <3> QED
      BY <2>2, <3>4
  <2> QED
    BY <2>1, <2>2
<1>6. ASSUME NEW p \in pgs PROVE Max(Index(p)) \in Index(p)
  <2> DEFINE I == Index(p)
  <2>1. I \in SUBSET Nat /\ I # {} /\ \A y \in I : y <= Len(wal)
    <3> HIDE DEF top, commit
    <3> QED
      BY <1>1, <1>4
  <2> HIDE DEF I
  <2>2. Max(I) \in I
    BY <1>1, <2>1, MaxIsIn
  <2> QED
    BY <2>2 DEF I
<1>7. ASSUME NEW p \in pgs PROVE newest[p] \in Nat /\ newest[p] > start /\ newest[p] <= Len(wal)
  <2>1. newest[p] = Max(Index(p))
    <3> HIDE DEF Index, pgs
    <3> QED
      OBVIOUS
  <2>2. Index(p) \subseteq (start + 1)..top
    OBVIOUS
  <2> HIDE DEF Index, newest, top, pgs
  <2> QED
    BY <1>1, <1>4, <1>6, <2>1, <2>2
<1>8. pgs \subseteq Pages
  <2> HIDE DEF commit, top
  <2> QED
    BY <1>5, MaxPagesAssumption DEF Pages
<1>9. CASE pgs = {}
  <2>1. m = [map |-> <<>>, end |-> 0, commit |-> 0]
    BY <1>9, Zenon DEF PageMap
  <2>2. <<>> \in [{} -> Nat \ {0}]
    OBVIOUS
  <2>3. {} \in SUBSET Pages
    OBVIOUS
  <2>4. <<>> \in FrameTable
    BY <2>2, <2>3 DEF FrameTable
  <2> HIDE DEF m
  <2> QED
    BY <2>1, <2>4, MaxPagesAssumption DEF m
<1>10. CASE pgs # {}
  <2>1. m = [map |-> newest, end |-> Max(E), commit |-> commit]
    BY <1>10, Zenon DEF PageMap
  <2>2. newest \in [pgs -> Nat \ {0}]
    <3>1. \A p \in pgs : newest[p] \in Nat \ {0}
      <4> HIDE DEF newest, pgs
      <4> QED
        BY <1>7
    <3>2. newest = [p \in pgs |-> newest[p]]
      <4> HIDE DEF pgs, Index
      <4> QED
        OBVIOUS
    <3> HIDE DEF newest, pgs
    <3> QED
      BY <3>1, <3>2
  <2>3. newest \in FrameTable
    <3> HIDE DEF newest, pgs
    <3> QED
      BY <1>8, <2>2 DEF FrameTable
  <2>4. Max(E) \in E /\ \A y \in E : y \in Nat /\ y > start
    <3>1. E \in SUBSET Nat /\ E # {} /\ \A y \in E : y <= Len(wal) /\ y > start
      <4> HIDE DEF newest, pgs
      <4> QED
        BY <1>7, <1>10
    <3> HIDE DEF E
    <3> QED
      BY <1>1, <3>1, MaxIsIn
  <2>5. m.map = newest /\ m.end = Max(E) /\ m.commit = commit
    <3> HIDE DEF newest, E, commit, m
    <3> QED
      BY <2>1
  <2> HIDE DEF newest, E, commit, m
  <2>6. m.map \in FrameTable /\ m.end \in Nat /\ (m.end > 0 => m.end > start) /\ m.commit \in 0..MaxPages
    BY <1>5, <2>3, <2>4, <2>5
  <2> QED
    BY <2>6 DEF m
<1> QED
  BY <1>9, <1>10

LEMMA LastLTXType == ASSUME TypeInv, TXID # 0 PROVE LastLTX \in LTXType /\ TXID \in Nat
BY DEF TypeInv, SyncTypes, TXID, LastLTX

\* What verify can answer once there is a file.
LEMMA VerifyCases ==
    ASSUME TypeInv, TXID # 0, NEW off, off = LastLTX.off + LastLTX.size
    PROVE  /\ off > WalSize => VerifyInfo \in {Resume(0, hsalt), Snapshot(off, LastLTX.salt)}
           /\ off = WalSize => VerifyInfo = Resume(off, LastLTX.salt)
           /\ off < WalSize /\ off <= 1 =>
                 VerifyInfo = IF hsalt = LastLTX.salt THEN Resume(off, LastLTX.salt) ELSE Snapshot(off, LastLTX.salt)
           /\ off < WalSize /\ off > 1 =>
                 VerifyInfo = IF ~LastPageMatch(off) THEN Snapshot(off, LastLTX.salt)
                              ELSE IF hsalt = LastLTX.salt THEN Resume(off, LastLTX.salt)
                              ELSE IF DetectFullCheckpoint THEN Snapshot(0, hsalt)
                              ELSE Resume(0, hsalt)
           /\ off \in Nat /\ LastLTX.salt \in Nat /\ WalSize \in Int
<1>1. WalSize \in Int /\ toEnd \in BOOLEAN /\ TXID \in Nat
  BY DEF TypeInv, SQLTypes, SyncTypes, WalSize, TXID
<1>2. off \in Nat /\ LastLTX.salt \in Nat
  BY LastLTXType DEF LTXType
<1>3. TXID > 0 /\ ~(TXID = 0)
  BY <1>1
<1>4. CASE off > WalSize
  <2>1. ~(off = WalSize) /\ ~(off < WalSize)
    BY <1>1, <1>2, <1>4
  <2>2. VerifyInfo \in {Resume(0, hsalt), Snapshot(off, LastLTX.salt)}
    BY <1>3, <1>4, <2>1, Zenon DEF VerifyInfo
  <2> QED
    BY <1>1, <1>2, <2>1, <2>2
<1>5. CASE off = WalSize
  <2>1. ~(off > WalSize) /\ ~(off < WalSize)
    BY <1>1, <1>2, <1>5
  <2>2. VerifyInfo = Resume(off, LastLTX.salt)
    BY <1>3, <1>5, <2>1, Zenon DEF VerifyInfo
  <2> QED
    BY <1>1, <1>2, <2>1, <2>2
<1>6. CASE off < WalSize /\ off <= 1
  <2>1. ~(off > WalSize) /\ ~(off = WalSize) /\ ~(off > 1)
    BY <1>1, <1>2, <1>6
  <2>2. VerifyInfo = IF hsalt = LastLTX.salt THEN Resume(off, LastLTX.salt) ELSE Snapshot(off, LastLTX.salt)
    BY <1>3, <1>6, <2>1, Zenon DEF VerifyInfo
  <2> QED
    BY <1>1, <1>2, <2>1, <2>2
<1>7. CASE off < WalSize /\ off > 1
  <2>1. ~(off > WalSize) /\ ~(off = WalSize) /\ ~(off <= 1)
    BY <1>1, <1>2, <1>7
  <2>2. VerifyInfo = IF ~LastPageMatch(off) THEN Snapshot(off, LastLTX.salt)
                     ELSE IF hsalt = LastLTX.salt THEN Resume(off, LastLTX.salt)
                     ELSE IF DetectFullCheckpoint THEN Snapshot(0, hsalt)
                     ELSE Resume(0, hsalt)
    BY <1>3, <1>7, <2>1, Zenon DEF VerifyInfo
  <2> QED
    BY <1>1, <1>2, <2>1, <2>2
<1> QED
  BY <1>1, <1>2, <1>4, <1>5, <1>6, <1>7

LEMMA VerifyNone == ASSUME TXID = 0 PROVE VerifyInfo = Snapshot(0, 0)
<1>1. ~(TXID > 0)
  OBVIOUS
<1> QED
  BY <1>1, Zenon DEF VerifyInfo

LEMMA VerifyInfoType == ASSUME TypeInv PROVE VerifyInfo \in InfoType
<1>1. \A o \in Nat, t \in Nat : Resume(o, t) \in InfoType /\ Snapshot(o, t) \in InfoType
  BY DEF Resume, Snapshot, InfoType
<1>2. hsalt \in Nat
  BY DEF TypeInv, SQLTypes
<1>3. CASE TXID = 0
  BY <1>1, <1>3, VerifyNone
<1>4. CASE TXID # 0
  <2>1. PICK off : off = LastLTX.off + LastLTX.size
    OBVIOUS
  <2>2. off \in Nat /\ LastLTX.salt \in Nat /\ WalSize \in Int
    BY <1>4, <2>1, VerifyCases
  <2>3. VerifyInfo \in {Resume(0, hsalt), Snapshot(off, LastLTX.salt), Resume(off, LastLTX.salt), Snapshot(0, hsalt)}
    <3>1. CASE off > WalSize
      BY <1>4, <2>1, <3>1, VerifyCases
    <3>2. CASE off = WalSize
      BY <1>4, <2>1, <3>2, VerifyCases
    <3>3. CASE off < WalSize /\ off <= 1
      BY <1>4, <2>1, <3>3, VerifyCases
    <3>4. CASE off < WalSize /\ off > 1
      BY <1>4, <2>1, <3>4, VerifyCases
    <3> QED
      BY <2>2, <3>1, <3>2, <3>3, <3>4
  <2> QED
    BY <1>1, <1>2, <2>2, <2>3
<1> QED
  BY <1>3, <1>4

\* What sync finds: the WAL never ends before the offset it reads from.
LEMMA ScanWALType == ASSUME TypeInv PROVE ScanWAL \in ScanType
<1> DEFINE info  == call.info
           reset == info.off > 0 /\ ~PrevFrameMatches(info.off, info.salt)
           off   == IF reset THEN 0 ELSE info.off
           salt  == IF off = 0 THEN hsalt ELSE info.salt
           m     == PageMap(off, salt)
           size  == IF m.end > 0 THEN m.end - off ELSE 0
           commit == IF m.commit > 0 THEN m.commit ELSE Len(dbfile)
<1>1. info \in InfoType
  BY DEF TypeInv, SyncTypes, CallType
<1>2. off \in Nat /\ salt \in Nat /\ info.snap \in BOOLEAN
  BY <1>1 DEF InfoType, TypeInv, SQLTypes
<1>3. /\ m.map \in FrameTable
      /\ m.end \in Nat /\ (m.end > 0 => m.end > off)
      /\ m.commit \in 0..MaxPages
  <2> HIDE DEF off, salt
  <2> QED
    BY <1>2, PageMapIs DEF TypeInv
<1>4. size \in Nat
  <2> HIDE DEF off, m
  <2> QED
    BY <1>2, <1>3
<1>5. commit \in 0..MaxPages
  <2>1. Len(dbfile) \in 0..MaxPages
    BY MaxPagesAssumption DEF TypeInv, SQLTypes, Database, Pages
  <2> HIDE DEF m
  <2> QED
    BY <1>3, <2>1
<1>6. ScanWAL = [off |-> off, size |-> size, salt |-> salt, snap |-> info.snap, map |-> m.map, commit |-> commit]
  BY Zenon DEF ScanWAL
<1> HIDE DEF off, size, salt, m, commit, info
<1> QED
  BY <1>2, <1>3, <1>4, <1>5, <1>6 DEF ScanType

\* The pages of a readable file are values of the WAL or of the database.
LEMMA NewLTXType == ASSUME TypeInv, NEW scan \in ScanType, Readable(scan) PROVE NewLTX(scan) \in LTXType
<1>1. PICK S \in SUBSET Pages : scan.map \in [S -> Nat \ {0}]
  BY DEF ScanType, FrameTable
<1>2. \A p \in S : wal[scan.map[p]].val \in Nat
  <2> SUFFICES ASSUME NEW p \in S PROVE wal[scan.map[p]].val \in Nat
    OBVIOUS
  <2>1. scan.map[p] \in Nat \ {0} /\ scan.map[p] <= Len(wal)
    BY <1>1 DEF Readable
  <2>2. wal[scan.map[p]] \in Frame
    BY <2>1 DEF TypeInv, SQLTypes
  <2> QED
    BY <2>2 DEF Frame, Value
<1>3. DOMAIN scan.map = S
  BY <1>1
<1>4. scan.commit \in 0..MaxPages
  BY DEF ScanType
<1>5. WrittenPages(scan) \in PageTable
  <2>1. CASE ~scan.snap
    <3>1. WrittenPages(scan) = [p \in S |-> wal[scan.map[p]].val]
      BY <1>3, <2>1 DEF WrittenPages
    <3>2. WrittenPages(scan) \in [S -> Nat]
      BY <1>2, <3>1
    <3> QED
      BY <3>2 DEF PageTable
  <2>2. CASE scan.snap
    <3> DEFINE D == 1..scan.commit
               Val(p) == IF p \in S THEN wal[scan.map[p]].val ELSE dbfile[p]
    <3>1. WrittenPages(scan) = [p \in D |-> Val(p)]
      BY <1>3, <2>2 DEF WrittenPages
    <3>2. D \in SUBSET Pages
      BY <1>4, MaxPagesAssumption DEF Pages
    <3>3. ASSUME NEW p \in D PROVE Val(p) \in Nat
      <4>1. CASE p \in S
        BY <1>2, <4>1
      <4>2. CASE p \notin S
        <5>1. p \in 1..Len(dbfile)
          BY <1>3, <1>4, <2>2, <4>2 DEF Readable
        <5>2. dbfile[p] \in Nat
          BY <5>1 DEF TypeInv, SQLTypes, Database
        <5> QED
          BY <4>2, <5>2
      <4> QED
        BY <4>1, <4>2
    <3> HIDE DEF D, Val
    <3>4. WrittenPages(scan) \in [D -> Nat]
      BY <3>1, <3>3
    <3> QED
      BY <3>2, <3>4 DEF PageTable
  <2> QED
    BY <2>1, <2>2
<1>6. scan.off \in Nat /\ scan.size \in Nat /\ scan.salt \in Nat /\ scan.snap \in BOOLEAN
  BY DEF ScanType
<1> QED
  BY <1>4, <1>5, <1>6 DEF NewLTX, LTXType

-----------------------------------------------------------------------------
(* The types of a call of Sync.                                            *)

LEMMA NoCallType == NoCall \in CallType /\ NoScan \in ScanType /\ NoInfo \in InfoType
<1>1. <<>> \in [{} -> Nat \ {0}] /\ {} \in SUBSET Pages
  OBVIOUS
<1>2. <<>> \in FrameTable
  BY <1>1 DEF FrameTable
<1>3. NoScan \in ScanType
  BY <1>2, MaxPagesAssumption DEF NoScan, ScanType
<1>4. NoInfo \in InfoType
  BY DEF NoInfo, InfoType
<1> QED
  BY <1>3, <1>4 DEF NoCall, CallType

\* Each way call may change keeps its type.
LEMMA CallKeeps ==
    ASSUME call \in CallType
    PROVE  /\ \A n \in Nat : [NoCall EXCEPT !.began = n] \in CallType
           /\ \A i \in InfoType, o \in Int : [call EXCEPT !.info = i, !.orig = o] \in CallType
           /\ \A s \in ScanType : [call EXCEPT !.scan = s, !.info = NoInfo] \in CallType
           /\ [call EXCEPT !.info = NoInfo, !.scan = NoScan] \in CallType
           /\ \A m \in {"PASSIVE", "TRUNCATE"}, h \in Nat : [call EXCEPT !.stage = "pre", !.mode = m, !.hdr = h] \in CallType
           /\ [call EXCEPT !.stage = "post"] \in CallType
BY NoCallType DEF CallType

LEMMA AfterSyncTypes ==
    ASSUME call \in CallType, sinceChk \in BOOLEAN, NEW synced \in BOOLEAN, AfterSync(synced)
    PROVE  call' \in CallType /\ sinceChk' \in BOOLEAN /\ pc' \in PCs
BY CallKeeps, NoCallType DEF AfterSync, Goto, Return, PCs

\* Rolling back Litestream's transaction leaves SQLite's state as it was.
LEMMA SQLKeeps ==
    ASSUME SQLTypes, UNCHANGED <<fileVars, txnVars>>, rtx' \in Nat \cup {NoRead},
           wlock' = wlock \/ wlock' = IF wlock = "litestream" THEN "none" ELSE wlock
    PROVE  SQLTypes'
BY DEF SQLTypes, fileVars, txnVars

LEMMA InitTypes == Init => TypeInv
<1> SUFFICES ASSUME Init PROVE TypeInv
  OBVIOUS
<1>1. <<0>> \in Database
  BY MaxPagesAssumption DEF Database, Pages
<1>2. SQLTypes
  BY <1>1 DEF Init, SQLInit, SQLTypes
<1>3. SyncTypes
  <2>1. ltx = <<>> /\ pc = "down" /\ call = NoCall /\ toEnd = FALSE /\ lastOff = -1 /\ sinceChk = FALSE
    BY DEF Init
  <2>2. ltx \in Seq(LTXType)
    BY <2>1
  <2>3. pc \in PCs
    BY <2>1 DEF PCs
  <2>4. call \in CallType
    BY <2>1, NoCallType
  <2> QED
    BY <2>1, <2>2, <2>3, <2>4 DEF SyncTypes
<1> QED
  BY <1>2, <1>3 DEF TypeInv

LEMMA StepTypes == TypeInv /\ [Next]_vars => TypeInv'
<1> SUFFICES ASSUME TypeInv, [Next]_vars PROVE TypeInv'
  OBVIOUS
<1>1. SQLTypes /\ SyncTypes
  BY DEF TypeInv
<1>2. /\ call \in CallType /\ toEnd \in BOOLEAN /\ sinceChk \in BOOLEAN /\ lastOff \in Nat \cup {-1}
      /\ ltx \in Seq(LTXType) /\ pc \in PCs
      /\ hsalt \in Nat /\ WalSize \in Int /\ Len(hist) \in Nat /\ rtx \in Nat \cup {NoRead} /\ ReadMark \in Nat
  BY <1>1 DEF SQLTypes, SyncTypes, WalSize, ReadMark
<1>3. CASE App
  BY <1>1, <1>3, AppTypes DEF App, TypeInv, SyncTypes, syncVars, dbVars, boundVars
<1>4. CASE InitDB
  <2>1. SQLTypes'
    BY <1>1, <1>2, <1>4, EnsureTypes DEF InitDB
  <2>2. SyncTypes'
    BY <1>1, <1>4 DEF InitDB, Goto, SyncTypes, PCs, dbVars
  <2> QED
    BY <2>1, <2>2 DEF TypeInv
<1>5. CASE SyncStart
  <2>1. SQLTypes'
    BY <1>1, <1>2, <1>5, EnsureTypes DEF SyncStart
  <2>2. SyncTypes'
    BY <1>1, <1>2, <1>5, CallKeeps DEF SyncStart, Goto, SyncTypes, PCs, dbVars
  <2> QED
    BY <2>1, <2>2 DEF TypeInv
<1>6. CASE Verify
  <2>1. SQLTypes'
    BY <1>1, <1>2, <1>6, SQLKeeps DEF Verify, Return
  <2>2. call' \in CallType /\ pc' \in PCs
    <3>1. CASE VerifyFails /\ Return
      BY <3>1, NoCallType DEF Return, PCs
    <3>2. CASE ~(VerifyFails /\ Return)
      <4> DEFINE o == IF call.stage # "sync" THEN call.orig ELSE IF lastOff = -1 THEN WalSize ELSE lastOff
      <4>1. o \in Int
        BY <1>2 DEF CallType
      <4> HIDE DEF o
      <4>2. call' = [call EXCEPT !.info = VerifyInfo, !.orig = o] /\ pc' = "scan"
        BY <1>6, <3>2 DEF Verify, Goto, o
      <4> QED
        BY <1>2, <4>1, <4>2, VerifyInfoType, CallKeeps DEF PCs
    <3> QED
      BY <3>1, <3>2
  <2>3. toEnd' \in BOOLEAN
    BY <1>6 DEF Verify
  <2> QED
    BY <1>1, <1>6, <2>1, <2>2, <2>3 DEF Verify, TypeInv, SyncTypes
<1>7. CASE Scan
  <2>1. SQLTypes'
    BY <1>1, <1>2, <1>7, SQLKeeps DEF Scan, Return, AfterSync
  <2>2. call' \in CallType /\ sinceChk' \in BOOLEAN /\ pc' \in PCs
    <3>1. CASE Return /\ UNCHANGED sinceChk
      BY <1>2, <3>1, NoCallType DEF Return, PCs
    <3>2. CASE AfterSync(FALSE)
      BY <1>2, <3>2, AfterSyncTypes
    <3>3. CASE Goto("write") /\ call' = [call EXCEPT !.scan = ScanWAL, !.info = NoInfo] /\ UNCHANGED sinceChk
      BY <1>2, <3>3, ScanWALType, CallKeeps DEF Goto, PCs
    <3> QED
      BY <1>7, <3>1, <3>2, <3>3 DEF Scan
  <2> QED
    BY <1>1, <1>7, <2>1, <2>2 DEF Scan, TypeInv, SyncTypes
<1>8. CASE WriteLTX
  <2>1. SQLTypes'
    BY <1>1, <1>2, <1>8, SQLKeeps DEF WriteLTX, Return, AfterSync
  <2>2. call.scan \in ScanType
    BY <1>2 DEF CallType
  <2>3. CASE /\ Readable(call.scan)
             /\ ltx' = Append(ltx, NewLTX(call.scan))
             /\ lastOff' = call.scan.off + call.scan.size
             /\ toEnd' = (call.scan.off + call.scan.size = WalSize)
             /\ AfterSync(TRUE)
    <3>1. ltx' \in Seq(LTXType)
      BY <1>2, <2>2, <2>3, NewLTXType
    <3>2. lastOff' \in Nat
      BY <2>2, <2>3 DEF ScanType
    <3>3. call' \in CallType /\ sinceChk' \in BOOLEAN /\ pc' \in PCs
      BY <1>2, <2>3, AfterSyncTypes
    <3>4. toEnd' \in BOOLEAN
      BY <2>3
    <3> QED
      BY <2>1, <3>1, <3>2, <3>3, <3>4 DEF TypeInv, SyncTypes
  <2>4. CASE Return /\ UNCHANGED <<ltx, dbVars>>
    BY <1>1, <2>1, <2>4, NoCallType DEF TypeInv, SyncTypes, dbVars, Return, PCs
  <2> QED
    BY <1>8, <2>3, <2>4 DEF WriteLTX
<1>9. CASE SyncEnd
  <2>1. SQLTypes'
    BY <1>1, <1>2, <1>9, SQLKeeps DEF SyncEnd, Return
  <2> QED
    BY <1>1, <1>9, <2>1, NoCallType DEF SyncEnd, Return, TypeInv, SyncTypes, dbVars, PCs
<1>10. CASE CheckpointStart
  <2>1. SQLTypes'
    BY <1>1, <1>2, <1>10, SQLKeeps DEF CheckpointStart, sqlVars
  <2>2. PICK m \in {"PASSIVE", "TRUNCATE"} : call' = [call EXCEPT !.stage = "pre", !.mode = m, !.hdr = hsalt]
    BY <1>10 DEF CheckpointStart, CheckpointModes
  <2>3. call' \in CallType
    BY <1>2, <2>2, CallKeeps
  <2> QED
    BY <1>1, <1>10, <2>1, <2>3 DEF CheckpointStart, Goto, TypeInv, SyncTypes, dbVars, PCs
<1>11. CASE ReleaseReadLock
  <2>1. SQLTypes'
    BY <1>1, <1>2, <1>11, SQLKeeps DEF ReleaseReadLock, Return
  <2> QED
    BY <1>1, <1>11, <2>1, NoCallType DEF ReleaseReadLock, Return, Goto, TypeInv, SyncTypes, dbVars, PCs
<1>12. CASE Pragma
  <2>1. SQLTypes'
    <3>1. CASE UNCHANGED sqlVars
      BY <1>1, <1>2, <3>1, SQLKeeps DEF sqlVars
    <3>2. CASE Backfill(mx) /\ UNCHANGED <<wal, hsalt, gen, mx, nval, txnVars, rtx, wlock>>
      <4>1. mx \in Nat /\ mx <= mx
        BY <1>1 DEF SQLTypes
      <4>2. dbfile' \in Database /\ nbf' = mx
        BY <1>1, <3>2, <4>1, BackfillTypes
      <4> QED
        BY <1>1, <3>2, <4>1, <4>2 DEF SQLTypes, txnVars
    <3>3. CASE wlock = "none" /\ TruncateWAL
      BY <1>1, <3>3, TruncateTypes
    <3> QED
      BY <1>12, <3>1, <3>2, <3>3 DEF Pragma
  <2> QED
    BY <1>1, <1>12, <2>1 DEF Pragma, TypeInv, SyncTypes, dbVars, PCs
<1>13. CASE AcquireReadLock
  <2>1. SQLTypes'
    BY <1>1, <1>2, <1>13, SQLKeeps DEF AcquireReadLock, Return
  <2> QED
    BY <1>1, <1>13, <2>1, NoCallType DEF AcquireReadLock, Return, Goto, TypeInv, SyncTypes, dbVars, PCs
<1>14. CASE CheckpointSeq
  <2>1. SQLTypes'
    <3>1. CASE SeqWrite
      BY <1>1, <1>2, <1>14, <3>1, SeqWriteTypes DEF CheckpointSeq
    <3>2. CASE ~SeqWrite
      BY <1>1, <1>2, <1>14, <3>2, SQLKeeps DEF CheckpointSeq, Return
    <3> QED
      BY <3>1, <3>2
  <2> QED
    BY <1>1, <1>14, <2>1, NoCallType DEF CheckpointSeq, Return, Goto, TypeInv, SyncTypes, dbVars, PCs
<1>15. CASE CompareHeader
  <2>1. SQLTypes'
    <3>1. CASE wlock = "none" /\ wlock' = "litestream"
      BY <1>1, <1>2, <1>15, <3>1 DEF CompareHeader, SQLTypes, fileVars, txnVars
    <3>2. CASE ~(wlock = "none" /\ wlock' = "litestream")
      BY <1>1, <1>2, <1>15, <3>2, SQLKeeps DEF CompareHeader, Return
    <3> QED
      BY <3>1, <3>2
  <2>2. call' \in CallType
    BY <1>2, <1>15, NoCallType, CallKeeps DEF CompareHeader, Return
  <2> QED
    BY <1>1, <1>15, <2>1, <2>2 DEF CompareHeader, Return, Goto, TypeInv, SyncTypes, PCs
<1>16. CASE Close
  <2>1. SQLTypes'
    BY <1>1, <1>2, <1>16, SQLKeeps DEF Close
  <2> QED
    BY <1>1, <1>16, <2>1 DEF Close, Goto, TypeInv, SyncTypes, dbVars, PCs
<1>17. CASE Crash
  <2>1. SQLTypes'
    BY <1>1, <1>2, <1>17, SQLKeeps DEF Crash
  <2> QED
    BY <1>1, <1>17, <2>1, NoCallType DEF Crash, Goto, TypeInv, SyncTypes, PCs
<1>18. CASE ContextEnds
  <2>1. SQLTypes'
    BY <1>1, <1>2, <1>18, SQLKeeps DEF ContextEnds
  <2> QED
    BY <1>1, <1>18, <2>1 DEF ContextEnds, TypeInv, SyncTypes, syncVars, dbVars
<1>19. CASE UNCHANGED vars
  BY <1>1, <1>19 DEF vars, sqlVars, fileVars, txnVars, syncVars, dbVars, TypeInv, SQLTypes, SyncTypes
<1> QED
  BY <1>3, <1>4, <1>5, <1>6, <1>7, <1>8, <1>9, <1>10, <1>11, <1>12, <1>13, <1>14, <1>15, <1>16, <1>17, <1>18, <1>19
  DEF Next, SyncStep

\* The state keeps its shape: in every file the offsets, the page numbers and
\* the frames of the WAL that sync works with are within bounds, whatever the
\* application and the checkpoints do between two steps of a call.
THEOREM TypesHold == Spec => []TypeOK
<1>1. TypeInv => TypeOK
  <2> SUFFICES ASSUME TypeInv PROVE TypeOK
    OBVIOUS
  <2>1. /\ pc \in PCs /\ call \in CallType /\ toEnd \in BOOLEAN /\ sinceChk \in BOOLEAN
        /\ lastOff \in Nat \cup {-1} /\ rtx \in Nat \cup {NoRead} /\ ltx \in Seq(LTXType) /\ wal \in Seq(Frame)
    BY DEF TypeInv, SQLTypes, SyncTypes
  <2>2. nbf \in 0..mx /\ mx \in 0..Len(wal)
    BY DEF TypeInv, SQLTypes
  <2>3. /\ call.stage \in {"sync", "pre", "post"} /\ call.mode \in {"PASSIVE", "TRUNCATE"}
        /\ call.info.off \in Nat /\ call.scan.off \in Nat
    BY <2>1 DEF CallType, InfoType, ScanType
  <2>4. \A i \in 1..TXID : ltx[i].off \in Nat /\ DOMAIN ltx[i].pages \subseteq Pages
    <3> SUFFICES ASSUME NEW i \in 1..TXID PROVE ltx[i].off \in Nat /\ DOMAIN ltx[i].pages \subseteq Pages
      OBVIOUS
    <3>1. ltx[i] \in LTXType
      BY <2>1 DEF TXID
    <3>2. PICK S \in SUBSET Pages : ltx[i].pages \in [S -> Nat]
      BY <3>1 DEF LTXType, PageTable
    <3> QED
      BY <3>1, <3>2 DEF LTXType
  <2> QED
    BY <2>1, <2>2, <2>3, <2>4 DEF TypeOK
<1> QED
  BY <1>1, InitTypes, StepTypes, PTL DEF Spec

\* The assertion in sync (db.go): the size of the WAL segment, the offset of
\* its last page's frame minus the offset the reader started at, is never
\* negative, also when verify's offset lies past the end of the WAL or the
\* reader was moved back to the header.
THEOREM SegmentSizes == Spec => []WalSizeNotNegative
<1>1. TypeInv => WalSizeNotNegative
  BY DEF TypeInv, SyncTypes, CallType, ScanType, WalSizeNotNegative
<1> QED
  BY <1>1, InitTypes, StepTypes, PTL DEF Spec

-----------------------------------------------------------------------------
(* Reading under the read mark.  Every switch may be on: the application   *)
(* restarts and truncates the WAL and checkpoints whenever it can, and the *)
(* read transaction may be lost.                                           *)

\* The end of the newest file.
LastEnd == LastLTX.off + LastLTX.size

LEMMA LastSame ==
    ASSUME ltx' = ltx
    PROVE  TXID' = TXID /\ LastLTX' = LastLTX /\ LastEnd' = LastEnd
BY DEF TXID, LastLTX, LastEnd

\* The frames of the current WAL carry its salt and those left from earlier
\* ones a smaller one; only frames that do not count lie behind mxFrame.
GenerationInv ==
    /\ hsalt <= gen
    /\ hsalt = 0 => wal = <<>>
    /\ hsalt # 0 => wal # <<>> /\ wal[1].salt = hsalt
    /\ \A i \in 1..Len(wal) :
          /\ wal[i].salt # 0 /\ wal[i].salt <= hsalt
          /\ i <= mx + pend => wal[i].salt = hsalt
          /\ i > mx /\ wal[i].salt = hsalt => wal[i].commit = 0
    /\ mx > 0 => wal[mx].commit = Len(Current) /\ wal[mx].pg <= Len(Current)
    /\ pend = 1 => wal[mx + 1].pg <= Len(Current)

\* The read mark is a frame count the WAL has reached, and a checkpoint of
\* Litestream's runs without one.
ReadMarkInv ==
    /\ rtx # NoRead => rtx <= mx
    /\ pc = "pragma" => rtx = NoRead

\* A page is that of its newest frame, and the database file has it if none
\* of its frames is still to be copied.
CopyInv ==
    /\ \A p \in 1..Len(Current) :
          /\ (\A i \in (nbf + 1)..mx : wal[i].pg # p) => p <= Len(dbfile) /\ dbfile[p] = Current[p]
          /\ \A i \in 1..mx : wal[i].pg = p /\ (\A j \in (i + 1)..mx : wal[j].pg # p) => Current[p] = wal[i].val
    /\ nbf = mx => Len(dbfile) = Len(Current)

\* The frame before offset e is one of the WAL with salt s.
At(e, s) == e > 0 /\ e <= Len(wal) /\ wal[e].salt = s

\* A file that ends at e of the WAL with salt s has the page of its last frame.
EndInv(e, s) ==
    /\ s # 0 /\ s <= gen
    /\ s = hsalt => e <= mx

LastInv ==
    TXID > 0 =>
        /\ EndInv(LastEnd, LastLTX.salt)
        /\ At(LastEnd, LastLTX.salt) => /\ wal[LastEnd].pg \in DOMAIN LastLTX.pages
                                        /\ LastLTX.pages[wal[LastEnd].pg] = wal[LastEnd].val

\* What verify found: a snapshot never starts behind a frame of its WAL, and
\* nothing follows the frame of an earlier WAL that a sync resumes at.
StartInv ==
    LET off == call.info.off  salt == call.info.salt
    IN  pc = "scan" /\ off > 0 =>
            /\ call.info.snap => salt # 0 /\ salt <= gen /\ salt # hsalt /\ ~At(off, salt)
            /\ ~call.info.snap /\ rtx > 0 /\ salt # hsalt /\ At(off, salt) => Len(wal) = off

\* What the scan found, and what of it stands until the file is written.
MapInv ==
    LET scan == call.scan  end == scan.off + scan.size
    IN  pc = "write" =>
            /\ EndInv(end, scan.salt)
            /\ At(end, scan.salt) => wal[end].pg \in DOMAIN scan.map /\ scan.map[wal[end].pg] = end
            /\ \A p \in DOMAIN scan.map : p <= scan.commit
            /\ rtx > 0 => \E k \in 1..Len(hist) :
                  /\ rtx = mx => k = Len(hist)
                  /\ scan.commit = Len(hist[k])
                  /\ \A p \in DOMAIN scan.map : scan.map[p] <= mx /\ wal[scan.map[p]].val = hist[k][p]
                  /\ scan.snap => \A p \in 1..scan.commit :
                        p \notin DOMAIN scan.map =>
                            /\ p <= Len(dbfile) /\ dbfile[p] = hist[k][p]
                            /\ \A i \in 1..rtx : wal[i].pg # p

MarkIInv == GenerationInv /\ ReadMarkInv /\ CopyInv /\ LastInv /\ StartInv /\ MapInv

-----------------------------------------------------------------------------
(* What SQLite does to the frames, the commits and the database file.      *)

\* A frame for page p is written as frame e, behind base committed frames.
WrittenAt(base, e, p, c) ==
    /\ e = base + pend + 1 /\ e >= 1 /\ e <= Len(wal) + 1
    /\ Len(wal') = IF e > Len(wal) THEN e ELSE Len(wal)
    /\ wal'[e] = [pg |-> p, val |-> nval, salt |-> hsalt', commit |-> c]
    /\ \A i \in 1..Len(wal') : i # e => i \in 1..Len(wal) /\ wal'[i] = wal[i]
    /\ mx' = IF c > 0 THEN e ELSE base
    /\ \/ hsalt # 0 /\ base = mx /\ nbf' = nbf /\ hsalt' = hsalt /\ gen' = gen
       \/ base = 0 /\ pend = 0 /\ nbf = mx /\ nbf' = 0 /\ rtx <= 0 /\ hsalt' = gen + 1 /\ gen' = gen + 1

\* Where a frame goes: behind the frames of this WAL, or to the start of a
\* new one, which the database file needs nothing of.
LEMMA FrameWritten ==
    ASSUME SQLTypes, GenerationInv, ReadMarkInv, NEW p \in Pages, NEW c \in 0..MaxPages,
           NEW r \in {FALSE, MayRestart}, WriteFrame(p, c, r)
    PROVE  \E base \in Nat, e \in Nat : WrittenAt(base, e, p, c)
<1> DEFINE fresh == r \/ hsalt = 0
           base == IF fresh THEN 0 ELSE mx
           e == base + pend + 1
           salt == IF fresh THEN gen + 1 ELSE hsalt
           frame == [pg |-> p, val |-> nval, salt |-> salt, commit |-> c]
           n == IF e > Len(wal) THEN e ELSE Len(wal)
<1>1. /\ mx \in Nat /\ pend \in {0, 1} /\ hsalt \in Nat /\ gen \in Nat /\ wal \in Seq(Frame) /\ Len(wal) \in Nat
      /\ nbf \in Nat /\ nbf <= mx /\ mx + pend <= Len(wal) /\ (hsalt = 0 => mx + pend = 0)
      /\ rtx \in Nat \cup {NoRead} /\ nval \in Nat
  BY DEF SQLTypes
<1>0. r \in BOOLEAN
  BY DEF MayRestart
<1>2. fresh => pend = 0 /\ nbf = mx /\ rtx <= 0
  <2>1. CASE hsalt = 0
    BY <1>1, <2>1 DEF ReadMarkInv, NoRead
  <2>2. CASE r
    BY <1>1, <2>2 DEF MayRestart
  <2> QED
    BY <2>1, <2>2
<1>3. base \in Nat /\ e \in Nat /\ e >= 1 /\ e <= Len(wal) + 1 /\ n \in Nat /\ e <= n /\ Len(wal) <= n
  BY <1>0, <1>1, <1>2
<1>4. /\ wal' = [i \in 1..n |-> IF i = e THEN frame ELSE wal[i]]
      /\ hsalt' = salt
      /\ gen' = (IF fresh THEN gen + 1 ELSE gen)
      /\ mx' = (IF c > 0 THEN e ELSE IF fresh THEN 0 ELSE mx)
      /\ nbf' = IF fresh THEN 0 ELSE nbf
  BY DEF WriteFrame
<1>5. \A i \in 1..n : i # e => i \in 1..Len(wal)
  <2> HIDE DEF e
  <2> QED
    BY <1>1, <1>3
<1>6. Len(wal') = n /\ wal'[e] = frame /\ \A i \in 1..n : i # e => wal'[i] = wal[i]
  <2>1. wal' \in [1..n -> Frame \cup {frame}]
    <3>1. \A i \in 1..n : i # e => wal[i] \in Frame
      <4> HIDE DEF n, e
      <4> QED
        BY <1>1, <1>5
    <3> HIDE DEF n, e, frame
    <3> QED
      BY <1>4, <3>1
  <2> HIDE DEF n, e, frame
  <2>2. Len(wal') = n
    BY <1>3, <2>1
  <2> QED
    BY <1>3, <1>4, <2>2
<1>7. frame = [pg |-> p, val |-> nval, salt |-> hsalt', commit |-> c]
  BY <1>4
<1>8. mx' = (IF c > 0 THEN e ELSE base)
  BY <1>4
<1>9. CASE fresh
  <2>1. base = 0 /\ pend = 0 /\ nbf = mx /\ nbf' = 0 /\ rtx <= 0 /\ hsalt' = gen + 1 /\ gen' = gen + 1
    BY <1>2, <1>4, <1>9
  <2> HIDE DEF n, frame, base
  <2> QED
    BY <1>3, <1>5, <1>6, <1>7, <1>8, <2>1 DEF n, WrittenAt
<1>10. CASE ~fresh
  <2>1. hsalt # 0 /\ base = mx /\ nbf' = nbf /\ hsalt' = hsalt /\ gen' = gen
    BY <1>4, <1>10
  <2> HIDE DEF n, frame, base
  <2> QED
    BY <1>3, <1>5, <1>6, <1>7, <1>8, <2>1 DEF n, WrittenAt
<1> QED
  BY <1>9, <1>10

\* What a step of SQLite leaves of the frames, for a file that was written
\* and for a call that has read some of them.
FramesKept ==
    /\ gen <= gen' /\ (hsalt' = hsalt \/ hsalt' = 0 \/ hsalt' > gen)
    /\ hsalt' = hsalt => mx <= mx'
    /\ \A i \in 1..Len(wal') : \/ i \in 1..Len(wal) /\ wal'[i] = wal[i]
                               \/ wal'[i].salt = hsalt' /\ (hsalt' = hsalt => i > mx)
    /\ rtx > 0 => hsalt' = hsalt /\ (Len(wal') = Len(wal) \/ At(Len(wal), hsalt))

\* What it leaves of the pages that a call under the read mark has still to read.
ReadKept ==
    rtx > 0 =>
        /\ \A i \in 1..mx : wal'[i] = wal[i]
        /\ Len(hist) <= Len(hist') /\ \A k \in 1..Len(hist) : hist'[k] = hist[k]
        /\ hist' = hist \/ mx' > mx
        /\ \A p \in Pages :
              p <= Len(dbfile) /\ (\A i \in 1..rtx : wal[i].pg # p) /\ (rtx = mx => p <= Len(Current))
                  => p <= Len(dbfile') /\ dbfile'[p] = dbfile[p]

StepKept == GenerationInv' /\ CopyInv' /\ FramesKept /\ ReadKept

\* A frame of an open transaction, or the last one of a transaction.
LEMMA FrameKeeps ==
    ASSUME SQLTypes, SQLTypes', GenerationInv, ReadMarkInv, NEW p \in Pages, NEW c \in 0..MaxPages,
           NEW r \in {FALSE, MayRestart}, WriteFrame(p, c, r),
           \/ c = 0 /\ pend = 0 /\ hist' = hist /\ p <= Len(Current)
           \/ c > 0 /\ pend' = 0 /\ p <= c /\ Len(Current') = c
    PROVE  GenerationInv' /\ FramesKept
<1>1. PICK base \in Nat, e \in Nat : WrittenAt(base, e, p, c)
  BY FrameWritten
<1>2. /\ e = base + pend + 1 /\ e >= 1 /\ e <= Len(wal) + 1
      /\ e > Len(wal) => Len(wal') = e
      /\ e <= Len(wal) => Len(wal') = Len(wal)
      /\ \A i \in 1..Len(wal') : i # e => i \in 1..Len(wal) /\ wal'[i] = wal[i]
      /\ mx' = (IF c > 0 THEN e ELSE base)
  BY <1>1 DEF WrittenAt
<1>3. /\ mx \in Nat /\ pend \in {0, 1} /\ hsalt \in Nat /\ gen \in Nat /\ Len(wal) \in Nat
      /\ mx + pend <= Len(wal) /\ (hsalt = 0 => mx + pend = 0) /\ c \in Nat /\ p \in Nat
      /\ rtx \in Nat \cup {NoRead} /\ nval \in Nat /\ hsalt <= gen
      /\ Len(wal') \in Nat /\ pend' \in {0, 1} /\ mx' \in Nat /\ hsalt' \in Nat
      /\ mx' + pend' <= Len(wal') /\ Len(Current) \in Nat /\ Len(Current') \in Nat
  <2>1. Len(Current) \in Nat /\ Len(Current') \in Nat
    <3>1. hist \in Seq(Database) /\ hist # <<>> /\ hist' \in Seq(Database) /\ hist' # <<>>
      BY DEF SQLTypes
    <3>2. Current \in Database /\ Current' \in Database
      BY <3>1 DEF Current
    <3> QED
      BY <3>2 DEF Database
  <2>2. p \in Nat /\ c \in Nat
    BY MaxPagesAssumption DEF Pages
  <2>3. Len(wal) \in Nat /\ Len(wal') \in Nat
    <3>1. wal \in Seq(Frame) /\ wal' \in Seq(Frame)
      BY DEF SQLTypes
    <3> QED
      BY <3>1
  <2> QED
    BY <2>1, <2>2, <2>3 DEF SQLTypes, GenerationInv
<1>4. wal'[e].pg = p /\ wal'[e].val = nval /\ wal'[e].salt = hsalt' /\ wal'[e].commit = c
  BY <1>1 DEF WrittenAt
<1>5. e \in 1..Len(wal') /\ Len(wal) <= Len(wal')
  BY <1>2, <1>3
<1>6. \A i \in 1..Len(wal) : /\ wal[i].salt \in Nat /\ wal[i].salt # 0 /\ wal[i].salt <= hsalt
                             /\ i <= mx + pend => wal[i].salt = hsalt
                             /\ i > mx /\ wal[i].salt = hsalt => wal[i].commit = 0
  <2>1. \A i \in 1..Len(wal) : wal[i] \in Frame
    <3>1. wal \in Seq(Frame)
      BY DEF SQLTypes
    <3> QED
      BY <3>1
  <2>2. \A i \in 1..Len(wal) : wal[i].salt \in Nat
    BY <2>1 DEF Frame
  <2> QED
    BY <2>2 DEF GenerationInv
<1>7. \/ hsalt # 0 /\ base = mx /\ hsalt' = hsalt /\ gen' = gen
      \/ base = 0 /\ pend = 0 /\ rtx <= 0 /\ hsalt' = gen + 1 /\ gen' = gen + 1
  BY <1>1 DEF WrittenAt
<1>8. c = 0 => mx' = base /\ pend = 0 /\ e = base + 1
  BY <1>2, <1>3
<1>9. c > 0 => mx' = e /\ pend' = 0
  BY <1>2, <1>3
<1>0. base = mx \/ (base = 0 /\ pend = 0)
  BY <1>7
<1>10. ASSUME NEW i \in 1..Len(wal')
       PROVE  /\ wal'[i].salt # 0 /\ wal'[i].salt <= hsalt'
              /\ i <= mx' + pend' => wal'[i].salt = hsalt'
              /\ i > mx' /\ wal'[i].salt = hsalt' => wal'[i].commit = 0
  <2>1. CASE i = e
    <3>1. hsalt' # 0
      BY <1>3, <1>7
    <3>2. wal'[i].salt = hsalt' /\ wal'[i].commit = c
      BY <1>4, <2>1
    <3>3. i > mx' => c = 0
      BY <1>3, <1>9, <2>1
    <3> QED
      BY <1>3, <3>1, <3>2, <3>3
  <2>2. CASE i # e
    <3>1. i \in 1..Len(wal) /\ wal'[i] = wal[i]
      BY <1>2, <2>2
    <3>2. wal[i].salt \in Nat /\ wal[i].salt # 0 /\ wal[i].salt <= hsalt
      BY <1>6, <3>1
    <3>3. CASE hsalt' = hsalt /\ base = mx
      <4>1. i <= mx' + pend' => i <= mx + pend
        <5>1. CASE c = 0
          <6>1. mx' = mx /\ e = mx + 1 /\ mx \in Nat /\ i \in Nat /\ pend \in Nat
            BY <1>3, <1>8, <3>3, <5>1
          <6>2. PICK q \in {0, 1} : q = pend'
            BY <1>3
          <6>3. i <= mx + q /\ i # e => i <= mx + pend
            BY <6>1
          <6> QED
            BY <2>2, <6>1, <6>2, <6>3
        <5>2. CASE c > 0
          BY <1>3, <1>9, <2>2, <3>3, <5>2, <1>2
        <5> QED
          BY <1>3, <5>1, <5>2
      <4>2. i > mx' => i > mx
        BY <1>2, <1>3, <1>8, <1>9, <3>3
      <4> QED
        BY <1>6, <3>1, <3>2, <3>3, <4>1, <4>2
    <3>4. CASE base = 0 /\ pend = 0 /\ hsalt' = gen + 1
      <4>1. wal[i].salt < hsalt'
        <5>1. hsalt \in Nat /\ gen \in Nat /\ hsalt <= gen
          BY <1>3, Zenon
        <5>2. PICK s \in Nat : s = wal[i].salt /\ s <= hsalt
          BY <3>2, Zenon
        <5>3. s < gen + 1
          BY <5>1, <5>2
        <5> QED
          BY <3>4, <5>2, <5>3, Zenon
      <4>2. ~(i <= mx' + pend')
        <5>1. CASE c = 0
          <6>1. mx' = 0 /\ e = 1 /\ i \in Nat /\ i >= 1
            BY <1>3, <1>8, <3>4, <5>1
          <6>2. PICK q \in {0, 1} : q = pend'
            BY <1>3
          <6>3. i # e => ~(i <= 0 + q)
            BY <6>1
          <6> QED
            BY <2>2, <6>1, <6>2, <6>3
        <5>2. CASE c > 0
          BY <1>3, <1>9, <2>2, <3>4, <5>2, <1>2
        <5> QED
          BY <1>3, <5>1, <5>2
      <4>3. PICK t \in Nat, s \in Nat : t = hsalt' /\ s = wal[i].salt
        BY <1>3, <3>2, Zenon
      <4>4. s < t
        BY <4>1, <4>3, Zenon
      <4>5. s <= t /\ s # t
        BY <4>4
      <4> QED
        BY <3>1, <3>2, <4>2, <4>3, <4>5, Zenon
    <3> QED
      BY <1>7, <3>3, <3>4
  <2> QED
    BY <2>1, <2>2
<1>11. hsalt' <= gen' /\ hsalt' # 0 /\ wal' # <<>>
  <2>1. Len(wal') # 0
    BY <1>3, <1>5
  <2>2. wal' # <<>>
    BY <2>1
  <2>3. gen \in Nat /\ hsalt <= gen
    BY <1>3
  <2>4. CASE hsalt # 0 /\ hsalt' = hsalt /\ gen' = gen
    BY <2>2, <2>3, <2>4, Zenon
  <2>5. CASE hsalt' = gen + 1 /\ gen' = gen + 1
    <3>1. gen + 1 <= gen + 1 /\ gen + 1 # 0
      BY <2>3
    <3> QED
      BY <2>2, <2>5, <3>1, Zenon
  <2> QED
    BY <1>7, <2>4, <2>5, Zenon
<1>12. wal'[1].salt = hsalt'
  <2>1. CASE e = 1
    BY <1>4, <2>1
  <2>2. CASE e # 1
    <3>1. base = mx /\ hsalt' = hsalt /\ hsalt # 0 /\ 1 \in 1..Len(wal')
      BY <1>2, <1>3, <1>5, <1>7, <2>2
    <3>2. wal'[1] = wal[1]
      BY <1>2, <2>2, <3>1
    <3> QED
      BY <3>1, <3>2 DEF GenerationInv
  <2> QED
    BY <2>1, <2>2
<1>13. mx' > 0 => wal'[mx'].commit = Len(Current') /\ wal'[mx'].pg <= Len(Current')
  <2>1. CASE c > 0
    BY <1>3, <1>4, <1>9, <2>1
  <2>2. CASE c = 0
    <3>1. Current' = Current
      BY <1>3, <2>2 DEF Current
    <3>2. CASE mx' > 0
      <4>1. mx' = mx /\ mx \in 1..Len(wal') /\ mx # e
        BY <1>2, <1>3, <1>5, <1>7, <1>8, <2>2, <3>2
      <4>2. wal'[mx] = wal[mx]
        BY <1>2, <4>1
      <4> QED
        BY <3>1, <3>2, <4>1, <4>2 DEF GenerationInv
    <3> QED
      BY <3>2
  <2> QED
    BY <1>3, <2>1, <2>2
<1>14. pend' = 1 => wal'[mx' + 1].pg <= Len(Current')
  <2>1. CASE c > 0
    BY <1>9, <2>1
  <2>2. CASE c = 0
    <3>1. Current' = Current /\ mx' + 1 = e /\ p <= Len(Current)
      BY <1>3, <1>8, <2>2 DEF Current
    <3> QED
      BY <1>4, <3>1
  <2> QED
    BY <1>3, <2>1, <2>2
<1>15. GenerationInv'
  BY <1>10, <1>11, <1>12, <1>13, <1>14 DEF GenerationInv
<1>16. gen <= gen' /\ (hsalt' = hsalt \/ hsalt' = 0 \/ hsalt' > gen) /\ (hsalt' = hsalt => base = mx /\ mx <= mx')
  <2>1. gen \in Nat /\ hsalt <= gen /\ mx \in Nat /\ pend \in Nat /\ gen + 1 \in Nat /\ gen <= gen
    BY <1>3
  <2>2. CASE hsalt' = hsalt /\ gen' = gen /\ base = mx
    <3>1. mx <= mx + pend + 1 /\ mx <= mx
      BY <2>1
    <3>2. CASE c > 0
      <4>1. mx' = mx + pend + 1
        BY <1>2, <2>2, <3>2, Zenon
      <4> QED
        BY <2>1, <2>2, <3>1, <4>1, Zenon
    <3>3. CASE ~(c > 0)
      <4>1. mx' = mx
        BY <1>2, <2>2, <3>3, Zenon
      <4> QED
        BY <2>1, <2>2, <3>1, <4>1, Zenon
    <3> QED
      BY <3>2, <3>3
  <2>3. CASE hsalt' = gen + 1 /\ gen' = gen + 1
    <3>1. gen <= gen + 1 /\ gen + 1 > gen /\ gen + 1 # hsalt
      BY <1>3
    <3> QED
      BY <2>3, <3>1, Zenon
  <2> QED
    BY <1>7, <2>2, <2>3, Zenon
<1>17. ASSUME NEW i \in 1..Len(wal')
       PROVE  \/ i \in 1..Len(wal) /\ wal'[i] = wal[i]
              \/ wal'[i].salt = hsalt' /\ (hsalt' = hsalt => i > mx)
  <2>1. CASE i = e
    BY <1>2, <1>3, <1>4, <1>16, <2>1
  <2>2. CASE i # e
    BY <1>2, <2>2
  <2> QED
    BY <2>1, <2>2
<1>18. ASSUME rtx > 0 PROVE hsalt' = hsalt /\ (Len(wal') = Len(wal) \/ At(Len(wal), hsalt))
  <2>1. hsalt # 0 /\ base = mx /\ hsalt' = hsalt /\ rtx \in Nat /\ rtx <= mx
    BY <1>3, <1>7, <1>18 DEF ReadMarkInv, NoRead
  <2>2. CASE Len(wal') # Len(wal)
    <3>1. Len(wal) > 0 /\ Len(wal) = mx + pend
      BY <1>2, <1>3, <1>18, <2>1, <2>2
    <3>2. Len(wal) \in 1..Len(wal) /\ Len(wal) <= mx + pend
      BY <1>3, <3>1
    <3>3. wal[Len(wal)].salt = hsalt
      BY <1>6, <3>2
    <3> QED
      BY <1>3, <2>1, <3>1, <3>3 DEF At
  <2> QED
    BY <2>1, <2>2
<1> QED
  BY <1>15, <1>16, <1>17, <1>18 DEF FramesKept

\* A read mark is set only while the WAL goes on, so a frame goes behind the
\* committed ones.
LEMMA WrittenBehind ==
    ASSUME SQLTypes, SQLTypes', ReadMarkInv, NEW base \in Nat, NEW e \in Nat, NEW p, NEW c \in Nat,
           WrittenAt(base, e, p, c), rtx > 0
    PROVE  /\ \A i \in 1..mx : wal'[i] = wal[i]
           /\ e > mx /\ base = mx
<1>1. /\ mx \in Nat /\ pend \in {0, 1} /\ rtx \in Nat \cup {NoRead} /\ Len(wal) \in Nat /\ mx + pend <= Len(wal)
  BY DEF SQLTypes
<1>2. base = mx /\ e = mx + pend + 1
  BY <1>1 DEF WrittenAt, NoRead
<1>3. e > mx
  BY <1>1, <1>2
<1>4. /\ \A i \in 1..Len(wal') : i # e => i \in 1..Len(wal) /\ wal'[i] = wal[i]
      /\ e > Len(wal) => Len(wal') = e
      /\ e <= Len(wal) => Len(wal') = Len(wal)
  BY DEF WrittenAt
<1>5. PICK n \in Nat : n = Len(wal')
  <2>1. wal' \in Seq(Frame)
    BY DEF SQLTypes
  <2> QED
    BY <2>1
<1>6. mx <= n
  BY <1>1, <1>3, <1>4, <1>5
<1>7. \A i \in 1..mx : i \in 1..n /\ i # e
  BY <1>1, <1>3, <1>6
<1> QED
  BY <1>2, <1>3, <1>4, <1>5, <1>7

\* A frame that does not commit changes no page.
LEMMA SpillKeeps ==
    ASSUME SQLTypes, SQLTypes', GenerationInv, ReadMarkInv, CopyInv, NEW p \in Pages, AppSpill(p)
    PROVE  StepKept
<1>1. PICK r \in {FALSE, MayRestart} : WriteFrame(p, 0, r)
  BY DEF AppSpill
<1>2. pend = 0 /\ hist' = hist /\ p <= Len(Current) /\ dbfile' = dbfile
  BY DEF AppSpill, SQLTypes
<1>3. 0 \in 0..MaxPages
  BY MaxPagesAssumption
<1>4. GenerationInv' /\ FramesKept
  BY <1>1, <1>2, <1>3, FrameKeeps
<1>5. PICK base \in Nat, e \in Nat : WrittenAt(base, e, p, 0)
  BY <1>1, <1>3, FrameWritten
<1>6. Current' = Current
  BY <1>2 DEF Current
<1>7. /\ mx' = base
      /\ \/ base = mx /\ nbf' = nbf
         \/ base = 0 /\ nbf = mx /\ nbf' = 0 /\ rtx <= 0
  BY <1>5 DEF WrittenAt
<1>8. mx \in Nat /\ nbf \in Nat /\ nbf <= mx /\ rtx \in Nat \cup {NoRead}
  BY DEF SQLTypes
<1>9. CASE base = mx /\ nbf' = nbf
  <2>1. e = mx + 1 /\ mx' = mx
    BY <1>2, <1>5, <1>7, <1>8, <1>9 DEF WrittenAt
  <2>2. \A i \in 1..mx : wal'[i] = wal[i]
    <3>1. \A i \in 1..Len(wal') : i # e => wal'[i] = wal[i]
      BY <1>5 DEF WrittenAt
    <3>2. PICK n \in Nat : n = Len(wal') /\ mx <= n
      <4>1. wal' \in Seq(Frame) /\ pend' \in {0, 1} /\ mx' + pend' <= Len(wal')
        BY DEF SQLTypes
      <4>2. PICK n \in Nat, q \in {0, 1} : n = Len(wal') /\ q = pend' /\ mx + q <= n
        <5>1. Len(wal') \in Nat
          BY <4>1
        <5> QED
          BY <2>1, <4>1, <5>1, Zenon
      <4>3. mx <= n
        BY <1>8, <4>2
      <4> QED
        BY <4>2, <4>3, Zenon
    <3>3. \A i \in 1..mx : i \in 1..n /\ i # e
      BY <1>8, <2>1, <3>2
    <3> QED
      BY <3>1, <3>2, <3>3
  <2>3. CopyInv'
    <3>1. ASSUME NEW q \in 1..Len(Current), \A i \in (nbf + 1)..mx : wal'[i].pg # q
          PROVE  q <= Len(dbfile) /\ dbfile[q] = Current[q]
      <4>1. \A i \in (nbf + 1)..mx : wal[i].pg # q
        BY <1>8, <2>2, <3>1
      <4> QED
        BY <4>1 DEF CopyInv
    <3>2. ASSUME NEW q \in 1..Len(Current), NEW i \in 1..mx, wal'[i].pg = q, \A j \in (i + 1)..mx : wal'[j].pg # q
          PROVE  Current[q] = wal'[i].val
      <4>1. wal'[i] = wal[i] /\ \A j \in (i + 1)..mx : wal[j].pg # q
        BY <1>8, <2>2, <3>2
      <4> QED
        BY <3>2, <4>1 DEF CopyInv
    <3>3. nbf' = nbf /\ mx' = mx /\ Current' = Current /\ dbfile' = dbfile
      BY <1>2, <1>6, <1>9, <2>1
    <3>4. nbf = mx => Len(dbfile) = Len(Current)
      BY DEF CopyInv
    <3> QED
      BY <3>1, <3>2, <3>3, <3>4 DEF CopyInv
  <2>4. ReadKept
    BY <1>2, <2>1, <2>2, <1>8 DEF ReadKept, SQLTypes
  <2> QED
    BY <1>4, <2>3, <2>4 DEF StepKept
<1>10. CASE base = 0 /\ nbf = mx /\ nbf' = 0 /\ rtx <= 0
  <2>1. mx' = 0 /\ nbf' = 0
    BY <1>7, <1>10
  <2>2. Len(dbfile) = Len(Current) /\ \A q \in 1..Len(Current) : q <= Len(dbfile) /\ dbfile[q] = Current[q]
    <3>1. \A i \in (nbf + 1)..mx : FALSE
      BY <1>8, <1>10
    <3> QED
      BY <1>10, <3>1 DEF CopyInv
  <2>3. \A i \in 1..0 : FALSE
    OBVIOUS
  <2>4. CopyInv'
    BY <1>2, <1>6, <2>1, <2>2, <2>3 DEF CopyInv
  <2>5. ReadKept
    BY <1>8, <1>10 DEF ReadKept, NoRead
  <2> QED
    BY <1>4, <2>4, <2>5 DEF StepKept
<1> QED
  BY <1>7, <1>9, <1>10

\* The last frame of a transaction, behind a spilled one or not, turns the
\* current state into t.
CommitsTo(t, p, c) ==
    /\ t \in Database /\ Len(t) = c /\ p \in 1..c /\ t[p] = nval
    /\ \A q \in 1..c : q # p =>
          /\ q <= Len(Current)
          /\ pend = 1 /\ wal[mx + 1].pg = q => t[q] = wal[mx + 1].val
          /\ ~(pend = 1 /\ wal[mx + 1].pg = q) => t[q] = Current[q]

LEMMA CommitKeeps ==
    ASSUME SQLTypes, SQLTypes', GenerationInv, ReadMarkInv, CopyInv, NEW p \in Pages, NEW c \in Pages,
           NEW r \in {FALSE, MayRestart}, WriteFrame(p, c, r), NEW t, CommitsTo(t, p, c),
           hist' = Append(hist, t), dbfile' = dbfile, pend' = 0
    PROVE  StepKept
<1>1. c \in 0..MaxPages /\ c \in Nat /\ c > 0 /\ p \in Nat /\ p <= c
  BY MaxPagesAssumption DEF Pages, CommitsTo
<1>2. t \in Database /\ Len(t) = c /\ t[p] = nval
  BY DEF CommitsTo
<1>3. /\ Len(hist) \in Nat /\ Len(hist') = Len(hist) + 1 /\ Current' = t
      /\ \A k \in 1..Len(hist) : hist'[k] = hist[k]
  <2>1. hist \in Seq(Database) /\ hist # <<>>
    BY DEF SQLTypes
  <2>2. Len(hist') = Len(hist) + 1 /\ hist'[Len(hist) + 1] = t /\ \A k \in 1..Len(hist) : hist'[k] = hist[k]
    BY <1>2, <2>1
  <2> QED
    BY <2>1, <2>2 DEF Current
<1>4. GenerationInv' /\ FramesKept
  BY <1>1, <1>2, <1>3, FrameKeeps
<1>5. PICK base \in Nat, e \in Nat : WrittenAt(base, e, p, c)
  BY <1>1, FrameWritten
<1>6. /\ mx \in Nat /\ nbf \in Nat /\ nbf <= mx /\ rtx \in Nat \cup {NoRead} /\ pend \in {0, 1}
      /\ mx + pend <= Len(wal) /\ Len(wal) \in Nat
  BY DEF SQLTypes
<1>7. /\ mx' = e /\ e = base + pend + 1
      /\ wal'[e].pg = p /\ wal'[e].val = nval
      /\ \A i \in 1..Len(wal') : i # e => wal'[i] = wal[i]
      /\ \/ base = mx /\ nbf' = nbf
         \/ base = 0 /\ pend = 0 /\ nbf = mx /\ nbf' = 0 /\ rtx <= 0
  BY <1>1, <1>5 DEF WrittenAt
<1>8. \A i \in 1..(e - 1) : wal'[i] = wal[i]
  <2>1. PICK n \in Nat : n = Len(wal') /\ e <= n
    <3>1. wal' \in Seq(Frame)
      BY DEF SQLTypes
    <3>2. e > Len(wal) => Len(wal') = e
      BY <1>5 DEF WrittenAt
    <3>3. e <= Len(wal) => Len(wal') = Len(wal)
      BY <1>5 DEF WrittenAt
    <3> QED
      BY <1>6, <3>1, <3>2, <3>3
  <2>2. \A i \in 1..(e - 1) : i \in 1..n /\ i # e
    BY <2>1
  <2> QED
    BY <1>7, <2>1, <2>2
<1>9. /\ nbf' < e
      /\ nbf' \in Nat
      /\ e \in Nat /\ e >= 1
  BY <1>6, <1>7
<1>10. ASSUME NEW q \in 1..c, \A i \in (nbf' + 1)..e : wal'[i].pg # q
       PROVE  q <= Len(dbfile) /\ dbfile[q] = t[q]
  <2>1. q # p
    <3>1. PICK b \in Nat : b = nbf' /\ b < e
      BY <1>9
    <3>2. e \in (b + 1)..e
      <4>1. e \in Nat /\ b < e
        BY <1>9, <3>1, Zenon
      <4>2. b + 1 <= e
        BY <4>1
      <4> QED
        BY <4>1, <4>2
    <3> QED
      BY <1>7, <1>10, <3>1, <3>2
  <2>2. q <= Len(Current) /\ q \in 1..Len(Current)
    <3>1. Len(Current) \in Nat
      BY CurrentType, MaxPagesAssumption DEF Pages
    <3> QED
      BY <2>1, <3>1 DEF CommitsTo
  <2>3. CASE base = mx /\ nbf' = nbf
    <3>1. \A i \in (nbf + 1)..mx : wal[i].pg # q
      <4>1. \A i \in (nbf + 1)..mx : i \in (nbf + 1)..e /\ i \in 1..(e - 1)
        BY <1>6, <1>7, <2>3
      <4> QED
        BY <1>8, <1>10, <2>3, <4>1
    <3>2. ~(pend = 1 /\ wal[mx + 1].pg = q)
      <4>1. ASSUME pend = 1 PROVE mx + 1 \in (nbf + 1)..e /\ mx + 1 \in 1..(e - 1)
        BY <1>6, <1>7, <2>3, <4>1
      <4> QED
        BY <1>8, <1>10, <2>3, <4>1
    <3>3. t[q] = Current[q]
      BY <2>1, <3>2 DEF CommitsTo
    <3> QED
      BY <2>2, <3>1, <3>3 DEF CopyInv
  <2>4. CASE pend = 0 /\ nbf = mx
    <3>1. \A i \in (nbf + 1)..mx : FALSE
      BY <1>6, <2>4
    <3>2. t[q] = Current[q]
      BY <2>1, <2>4 DEF CommitsTo
    <3> QED
      BY <2>2, <3>1, <3>2 DEF CopyInv
  <2> QED
    BY <1>7, <2>3, <2>4
<1>11. ASSUME NEW q \in 1..c, NEW i \in 1..e, wal'[i].pg = q, \A j \in (i + 1)..e : wal'[j].pg # q
       PROVE  t[q] = wal'[i].val
  <2>1. CASE i = e
    BY <1>2, <1>7, <1>11, <2>1
  <2>2. CASE i # e
    <3>1. i \in 1..(e - 1) /\ e \in (i + 1)..e
      BY <1>9, <2>2
    <3>2. q # p /\ wal'[i] = wal[i]
      BY <1>7, <1>8, <1>11, <3>1
    <3>3. base = mx
      BY <1>6, <1>7, <3>1
    <3>4. CASE pend = 1 /\ i = mx + 1
      BY <1>11, <3>2, <3>4 DEF CommitsTo
    <3>5. CASE ~(pend = 1 /\ i = mx + 1)
      <4>1. i \in 1..mx
        BY <1>6, <1>7, <3>1, <3>3, <3>5
      <4>2. \A j \in (i + 1)..mx : wal[j].pg # q
        <5>1. \A j \in (i + 1)..mx : j \in (i + 1)..e /\ j \in 1..(e - 1)
          BY <1>6, <1>7, <3>3, <4>1
        <5> QED
          BY <1>8, <1>11, <5>1
      <4>3. ~(pend = 1 /\ wal[mx + 1].pg = q)
        <5>1. ASSUME pend = 1 PROVE mx + 1 \in (i + 1)..e /\ mx + 1 \in 1..(e - 1)
          BY <1>6, <1>7, <3>3, <4>1, <5>1
        <5> QED
          BY <1>8, <1>11, <5>1
      <4>4. q <= Len(Current) /\ t[q] = Current[q]
        BY <3>2, <4>3 DEF CommitsTo
      <4>5. q \in 1..Len(Current)
        <5>1. Len(Current) \in Nat
          BY CurrentType, MaxPagesAssumption DEF Pages
        <5> QED
          BY <1>1, <4>4, <5>1
      <4> QED
        BY <1>11, <3>2, <4>1, <4>2, <4>4, <4>5 DEF CopyInv
    <3> QED
      BY <3>4, <3>5
  <2> QED
    BY <2>1, <2>2
<1>12. CopyInv'
  <2>1. nbf' # mx'
    BY <1>7, <1>9
  <2> QED
    BY <1>2, <1>3, <1>7, <1>10, <1>11, <2>1 DEF CopyInv
<1>13. ReadKept
  <2>1. ASSUME rtx > 0 PROVE mx' > mx /\ \A i \in 1..mx : wal'[i] = wal[i]
    BY <1>1, <1>5, <1>7, <2>1, WrittenBehind
  <2>2. Len(hist) <= Len(hist')
    BY <1>3
  <2> QED
    BY <1>3, <2>1, <2>2 DEF ReadKept
<1> QED
  BY <1>4, <1>12, <1>13 DEF StepKept

\* A transaction of one frame, and one that had spilled a frame.
LEMMA OneFrameCommits ==
    ASSUME SQLTypes, NEW p \in Pages, NEW n \in Pages, p <= n, n > Len(Current) => p = n /\ n = Len(Current) + 1, pend = 0
    PROVE  CommitsTo(Changed(p, nval, n, Current), p, n)
<1>1. PICK t : t = Changed(p, nval, n, Current)
  OBVIOUS
<1>2. p \in Nat /\ p >= 1 /\ n \in Nat /\ nval \in Nat /\ Current \in Database /\ Len(Current) \in Nat
  BY CurrentType, MaxPagesAssumption DEF SQLTypes, Pages
<1>3. t \in Database /\ Len(t) = n
  BY <1>1, <1>2, ChangedType
<1>4. t = [i \in 1..n |-> IF i = p THEN nval ELSE IF i <= Len(Current) THEN Current[i] ELSE 0]
  BY <1>1 DEF Changed
<1>5. p \in 1..n /\ t[p] = nval
  BY <1>2, <1>4
<1>6. ASSUME NEW q \in 1..n, q # p PROVE q <= Len(Current) /\ t[q] = Current[q]
  BY <1>2, <1>4, <1>6
<1> QED
  BY <1>1, <1>3, <1>5, <1>6 DEF CommitsTo

LEMMA TwoFramesCommit ==
    ASSUME SQLTypes, GenerationInv, NEW p \in Pages, NEW n \in Pages, p <= n,
           n > Len(Current) => p = n /\ n = Len(Current) + 1, pend = 1
    PROVE  LET sp == wal[mx + 1]
               s  == Changed(sp.pg, sp.val, Len(Current), Current)
           IN  CommitsTo(Changed(p, nval, n, s), p, n)
<1>1. PICK sp : sp = wal[mx + 1]
  OBVIOUS
<1>2. PICK s : s = Changed(sp.pg, sp.val, Len(Current), Current)
  OBVIOUS
<1>3. PICK t : t = Changed(p, nval, n, s)
  OBVIOUS
<1>4. /\ p \in Nat /\ p >= 1 /\ n \in Nat /\ nval \in Nat /\ Current \in Database
      /\ Len(Current) \in Nat /\ Len(Current) \in Pages /\ mx \in Nat
  BY CurrentType, MaxPagesAssumption DEF SQLTypes, Pages
<1>5. sp.pg \in Pages /\ sp.val \in Nat /\ sp.pg <= Len(Current)
  <2>1. mx + 1 \in 1..Len(wal)
    BY <1>4 DEF SQLTypes
  <2>2. sp \in Frame
    BY <1>1, <2>1 DEF SQLTypes
  <2> QED
    BY <1>1, <2>2 DEF Frame, Value, GenerationInv
<1>6. s \in Database /\ Len(s) = Len(Current)
  <2>1. PICK q, v, m : q = sp.pg /\ v = sp.val /\ m = Len(Current)
    OBVIOUS
  <2>2. q \in Pages /\ v \in Nat /\ m \in Pages
    BY <1>4, <1>5, <2>1
  <2>3. Changed(q, v, m, Current) \in Database /\ Len(Changed(q, v, m, Current)) = m
    BY <1>4, <2>2, ChangedType
  <2> QED
    BY <1>2, <2>1, <2>3
<1>7. t \in Database /\ Len(t) = n
  BY <1>3, <1>4, <1>6, ChangedType
<1>8. t = [i \in 1..n |-> IF i = p THEN nval ELSE IF i <= Len(s) THEN s[i] ELSE 0]
  BY <1>3 DEF Changed
<1>9. s = [i \in 1..Len(Current) |-> IF i = sp.pg THEN sp.val ELSE IF i <= Len(Current) THEN Current[i] ELSE 0]
  BY <1>2 DEF Changed
<1>10. p \in 1..n /\ t[p] = nval
  BY <1>4, <1>8
<1>11. ASSUME NEW q \in 1..n, q # p
       PROVE  /\ q <= Len(Current)
              /\ sp.pg = q => t[q] = sp.val
              /\ sp.pg # q => t[q] = Current[q]
  <2>1. q <= Len(Current) /\ q \in 1..Len(Current)
    BY <1>4, <1>11
  <2>2. t[q] = s[q]
    BY <1>4, <1>6, <1>8, <1>11, <2>1
  <2>3. s[q] = IF q = sp.pg THEN sp.val ELSE Current[q]
    BY <1>4, <1>9, <2>1
  <2> QED
    BY <2>1, <2>2, <2>3
<1>12. CommitsTo(t, p, n)
  BY <1>1, <1>7, <1>10, <1>11 DEF CommitsTo
<1> QED
  BY <1>1, <1>2, <1>3, <1>12

-----------------------------------------------------------------------------
(* Checkpoints, and the steps of the application together.                 *)

\* Frame k is the last one of page p between a and b: a page some frame
\* there holds has one.
LastIn(w, a, b, p, k) == k \in (a + 1)..b /\ w[k].pg = p /\ \A j \in (k + 1)..b : w[j].pg # p

LEMMA LastFrameOf ==
    ASSUME NEW w, NEW a \in Nat, NEW b \in Nat, NEW p, \E i \in (a + 1)..b : w[i].pg = p
    PROVE  \E k : LastIn(w, a, b, p, k)
<1>1. PICK S : S = {j \in (a + 1)..b : w[j].pg = p}
  OBVIOUS
<1>2. S \in SUBSET Nat /\ S # {} /\ \A y \in S : y <= b
  BY <1>1
<1>3. Max(S) \in S /\ \A y \in S : y <= Max(S)
  BY <1>2, MaxIsIn
<1>4. PICK k \in S : k = Max(S)
  BY <1>3
<1>5. k \in (a + 1)..b /\ w[k].pg = p
  BY <1>1, <1>4
<1>6. ASSUME NEW j \in (k + 1)..b PROVE w[j].pg # p
  <2>1. j \in (a + 1)..b /\ ~(j <= k)
    BY <1>5
  <2>2. j \notin S
    BY <1>3, <1>4, <2>1
  <2> QED
    BY <1>1, <2>1, <2>2
<1> QED
  BY <1>5, <1>6 DEF LastIn

\* Which pages of the database file a checkpoint writes, and which stay.
LEMMA BackfillPages ==
    ASSUME SQLTypes, SQLTypes', NEW to \in Nat, nbf < to, to <= mx, Backfill(to)
    PROVE  /\ nbf' = to
           /\ to = mx => Len(dbfile') = Len(Current)
           /\ \A p \in Pages, k \in (nbf + 1)..to :
                 p <= Len(Current) /\ wal[k].pg = p /\ (\A j \in (k + 1)..to : wal[j].pg # p)
                     => p <= Len(dbfile') /\ dbfile'[p] = wal[k].val
           /\ \A p \in Pages :
                 p <= Len(dbfile) /\ (\A i \in (nbf + 1)..to : wal[i].pg # p) /\ (to = mx => p <= Len(Current))
                     => p <= Len(dbfile') /\ dbfile'[p] = dbfile[p]
<1> DEFINE new == {i \in (nbf + 1)..to : wal[i].pg <= Len(Current)}
           S == {Len(dbfile)} \cup {wal[i].pg : i \in new}
           n == IF to = mx THEN Len(Current) ELSE Max(S)
           Index(q) == {i \in new : wal[i].pg = q}
           f == [q \in 1..n |-> IF Index(q) # {} THEN wal[Max(Index(q))].val
                                ELSE IF q <= Len(dbfile) THEN dbfile[q] ELSE 0]
<1>1. /\ mx \in Nat /\ nbf \in Nat /\ mx <= Len(wal) /\ Len(wal) \in Nat /\ Len(dbfile) \in Nat
      /\ Len(Current) \in Nat
  <2>1. dbfile \in Database /\ Current \in Database /\ wal \in Seq(Frame)
    BY CurrentType DEF SQLTypes
  <2>2. Len(dbfile) \in Nat /\ Len(Current) \in Nat /\ Len(wal) \in Nat
    BY <2>1 DEF Database
  <2>3. mx \in Nat /\ nbf \in Nat /\ mx + pend <= Len(wal) /\ pend \in {0, 1}
    BY DEF SQLTypes
  <2> QED
    BY <2>2, <2>3
<1>2. nbf' = to /\ dbfile' = f
  BY DEF Backfill
<1>3. new \subseteq 1..Len(wal) /\ \A i \in new : wal[i].pg \in Pages
  <2>1. new \subseteq 1..Len(wal)
    BY <1>1
  <2>2. \A i \in 1..Len(wal) : wal[i] \in Frame
    <3>1. wal \in Seq(Frame)
      BY DEF SQLTypes
    <3> QED
      BY <3>1
  <2> HIDE DEF new
  <2> QED
    BY <2>1, <2>2 DEF Frame
<1>4. to # mx => n \in Nat /\ Len(dbfile) <= n /\ \A i \in new : wal[i].pg <= n
  <2>1. Len(dbfile) \in Pages
    BY DEF SQLTypes, Database
  <2>2. S \in SUBSET Nat /\ S # {} /\ \A y \in S : y <= MaxPages
    <3> HIDE DEF new
    <3> QED
      BY <1>3, <2>1, MaxPagesAssumption DEF Pages
  <2>3. Max(S) \in S /\ \A y \in S : y <= Max(S)
    <3> HIDE DEF S
    <3> QED
      BY <2>2, MaxIsIn, MaxPagesAssumption
  <2>4. Len(dbfile) \in S /\ \A i \in new : wal[i].pg \in S
    OBVIOUS
  <2> HIDE DEF S, new
  <2> QED
    BY <2>2, <2>3, <2>4
<1>5. n \in Nat
  <2> HIDE DEF S
  <2> QED
    BY <1>1, <1>4
<1>6. Len(dbfile') = n
  <2>1. dbfile' \in Seq(Nat)
    BY DEF SQLTypes, Database
  <2>2. DOMAIN f = 1..n
    <3> HIDE DEF n, Index
    <3> QED
      OBVIOUS
  <2> HIDE DEF n, f
  <2> QED
    BY <1>2, <1>5, <2>1, <2>2
<1>7. ASSUME NEW p \in Pages, NEW k \in (nbf + 1)..to, p <= Len(Current), wal[k].pg = p,
             \A j \in (k + 1)..to : wal[j].pg # p
      PROVE  p <= n /\ f[p] = wal[k].val
  <2>1. k \in new
    BY <1>7
  <2>2. p \in Nat /\ p >= 1 /\ p <= n
    BY <1>1, <1>4, <1>7, <2>1, MaxPagesAssumption DEF Pages
  <2>3. Max(Index(p)) = k /\ Index(p) # {}
    <3>1. k \in Index(p)
      BY <1>7, <2>1
    <3>2. Index(p) \in SUBSET Nat
      BY <1>3
    <3>3. \A y \in Index(p) : y <= k
      <4>1. \A y \in (nbf + 1)..to : ~(y <= k) => y \in (k + 1)..to
        BY <1>1
      <4>2. \A y \in Index(p) : y \in (nbf + 1)..to /\ wal[y].pg = p
        OBVIOUS
      <4> QED
        BY <1>7, <4>1, <4>2
    <3> HIDE DEF Index
    <3> QED
      BY <3>1, <3>2, <3>3, MaxIs
  <2> HIDE DEF n, Index
  <2> QED
    BY <1>5, <2>2, <2>3
<1>8. ASSUME NEW p \in Pages, p <= Len(dbfile), \A i \in (nbf + 1)..to : wal[i].pg # p, to = mx => p <= Len(Current)
      PROVE  p <= n /\ f[p] = dbfile[p]
  <2>1. p \in Nat /\ p >= 1
    BY MaxPagesAssumption DEF Pages
  <2>2. Index(p) = {}
    BY <1>8
  <2>3. p <= n
    <3>1. CASE to = mx
      BY <1>8, <3>1
    <3>2. CASE to # mx
      <4> HIDE DEF n
      <4> QED
        BY <1>1, <1>4, <1>8, <2>1, <3>2
    <3> QED
      BY <3>1, <3>2
  <2> HIDE DEF n, Index
  <2> QED
    BY <1>5, <1>8, <2>1, <2>2, <2>3
<1>9. to = mx => n = Len(Current)
  OBVIOUS
<1> HIDE DEF n, f
<1> QED
  BY <1>2, <1>6, <1>7, <1>8, <1>9

\* A checkpoint that stops at the read mark.
LEMMA BackfillStays ==
    ASSUME SQLTypes, SQLTypes', GenerationInv, ReadMarkInv, CopyInv, NEW to \in Nat, nbf < to, to <= mx, Backfill(to),
           rtx > 0 => to <= rtx, UNCHANGED <<wal, hsalt, gen, mx, nval, pend, hist>>
    PROVE  StepKept
<1>1. /\ mx \in Nat /\ nbf \in Nat /\ rtx \in Nat \cup {NoRead} /\ gen \in Nat /\ Len(wal) \in Nat
      /\ Len(hist) \in Nat /\ mx <= Len(wal)
  BY DEF SQLTypes
<1>2. Current' = Current /\ Len(Current) \in Nat /\ Len(Current) <= MaxPages
  BY CurrentType, MaxPagesAssumption DEF Current, Pages
<1>3. nbf' = to /\ (to = mx => Len(dbfile') = Len(Current))
  BY BackfillPages
<1>4. GenerationInv'
  BY <1>2 DEF GenerationInv
<1>5. FramesKept
  BY <1>1 DEF FramesKept
<1>6. ASSUME NEW p \in 1..Len(Current), \A i \in (to + 1)..mx : wal[i].pg # p
      PROVE  p <= Len(dbfile') /\ dbfile'[p] = Current[p]
  <2>1. p \in Pages /\ p <= Len(Current)
    BY <1>2, MaxPagesAssumption DEF Pages
  <2>2. CASE \E i \in (nbf + 1)..to : wal[i].pg = p
    <3>1. PICK k \in (nbf + 1)..to : wal[k].pg = p /\ \A j \in (k + 1)..to : wal[j].pg # p
      <4>1. PICK k : LastIn(wal, nbf, to, p, k)
        BY <1>1, <2>2, LastFrameOf
      <4> QED
        BY <4>1 DEF LastIn
    <3>2. k \in 1..mx /\ \A j \in (k + 1)..mx : wal[j].pg # p
      <4>1. \A j \in (k + 1)..mx : j \in (k + 1)..to \/ j \in (to + 1)..mx
        BY <1>1
      <4> QED
        BY <1>1, <1>6, <3>1, <4>1
    <3>3. Current[p] = wal[k].val
      BY <3>1, <3>2 DEF CopyInv
    <3> QED
      BY <2>1, <3>1, <3>3, BackfillPages
  <2>3. CASE \A i \in (nbf + 1)..to : wal[i].pg # p
    <3>1. \A i \in (nbf + 1)..mx : wal[i].pg # p
      <4>1. \A j \in (nbf + 1)..mx : j \in (nbf + 1)..to \/ j \in (to + 1)..mx
        BY <1>1
      <4> QED
        BY <1>6, <2>3, <4>1
    <3>2. p <= Len(dbfile) /\ dbfile[p] = Current[p]
      BY <3>1 DEF CopyInv
    <3> QED
      BY <2>1, <2>3, <3>2, BackfillPages
  <2> QED
    BY <2>2, <2>3
<1>7. CopyInv'
  <2>1. \A p \in 1..Len(Current) : \A i \in 1..mx :
            wal[i].pg = p /\ (\A j \in (i + 1)..mx : wal[j].pg # p) => Current[p] = wal[i].val
    BY DEF CopyInv
  <2> QED
    BY <1>2, <1>3, <1>6, <2>1 DEF CopyInv
<1>8. ReadKept
  <2>1. ASSUME rtx > 0, NEW p \in Pages, p <= Len(dbfile), \A i \in 1..rtx : wal[i].pg # p, rtx = mx => p <= Len(Current)
        PROVE  p <= Len(dbfile') /\ dbfile'[p] = dbfile[p]
    <3>1. rtx \in Nat /\ to <= rtx /\ rtx <= mx
      BY <1>1, <2>1 DEF ReadMarkInv, NoRead
    <3>2. \A i \in (nbf + 1)..to : wal[i].pg # p
      <4>1. \A i \in (nbf + 1)..to : i \in 1..rtx
        BY <1>1, <3>1
      <4> QED
        BY <2>1, <4>1
    <3>3. to = mx => p <= Len(Current)
      BY <1>1, <2>1, <3>1
    <3> QED
      BY <2>1, <3>2, <3>3, BackfillPages
  <2> QED
    BY <1>1, <2>1 DEF ReadKept
<1> QED
  BY <1>4, <1>5, <1>7, <1>8 DEF StepKept

\* A step that leaves the files as they are; an open transaction may end.
LEMMA SameKeeps ==
    ASSUME SQLTypes, GenerationInv, CopyInv, UNCHANGED fileVars, hist' = hist, pend' \in {pend, 0}
    PROVE  StepKept
<1>1. UNCHANGED <<dbfile, wal, hsalt, gen, mx, nbf, nval>>
  BY DEF fileVars
<1>2. mx \in Nat /\ pend \in {0, 1} /\ gen \in Nat /\ Len(hist) \in Nat
  BY DEF SQLTypes
<1>3. Current' = Current
  BY DEF Current
<1>4. GenerationInv'
  <2>1. CASE pend' = pend
    BY <1>1, <1>3, <2>1 DEF GenerationInv
  <2>2. CASE pend' = 0
    <3>1. ASSUME NEW i \in 1..Len(wal), i <= mx PROVE wal[i].salt = hsalt
      <4>1. i <= mx + pend
        BY <1>2, <3>1
      <4> QED
        BY <4>1 DEF GenerationInv
    <3>2. \A i \in 1..Len(wal) : i <= mx' + pend' => wal[i].salt = hsalt
      <4>1. \A i \in 1..Len(wal) : i <= mx + 0 => i <= mx
        BY <1>2
      <4> QED
        BY <1>1, <2>2, <3>1, <4>1
    <3>3. pend' # 1
      BY <2>2
    <3> QED
      BY <1>1, <1>3, <3>2, <3>3 DEF GenerationInv
  <2> QED
    BY <2>1, <2>2
<1>5. CopyInv'
  BY <1>1, <1>3 DEF CopyInv
<1>6. FramesKept
  BY <1>1, <1>2 DEF FramesKept
<1>7. ReadKept
  BY <1>1, <1>2 DEF ReadKept
<1> QED
  BY <1>4, <1>5, <1>6, <1>7 DEF StepKept

LEMMA TruncateStays ==
    ASSUME SQLTypes, GenerationInv, rtx <= 0, wlock = "none", TruncateWAL
    PROVE  StepKept
<1>1. dbfile' = Current /\ wal' = <<>> /\ hsalt' = 0 /\ mx' = 0 /\ nbf' = 0 /\ gen' = gen /\ pend' = pend /\ hist' = hist
  BY DEF TruncateWAL, txnVars
<1>2. /\ mx \in Nat /\ pend = 0 /\ gen \in Nat /\ rtx \in Nat \cup {NoRead}
      /\ hsalt = 0 => mx = 0
  BY DEF SQLTypes
<1>3. Current' = Current /\ Len(Current) \in Nat
  BY <1>1, CurrentType, MaxPagesAssumption DEF Current, Pages
<1>4. ~(rtx > 0)
  BY <1>2 DEF NoRead
<1>5. Len(wal') = 0 /\ \A i \in 1..0 : FALSE
  BY <1>1
<1>6. GenerationInv'
  <2>1. hsalt' <= gen' /\ ~(mx' > 0) /\ pend' # 1
    BY <1>1, <1>2
  <2> QED
    BY <1>1, <1>5, <2>1 DEF GenerationInv
<1>7. CopyInv'
  <2>1. \A p \in 1..Len(Current) : p <= Len(Current)
    BY <1>3
  <2> QED
    BY <1>1, <1>3, <1>5, <2>1 DEF CopyInv
<1>8. FramesKept
  <2>1. hsalt' = hsalt => mx <= mx'
    BY <1>1, <1>2
  <2> QED
    BY <1>1, <1>2, <1>4, <1>5, <2>1 DEF FramesKept
<1>9. ReadKept
  BY <1>4 DEF ReadKept
<1> QED
  BY <1>6, <1>7, <1>8, <1>9 DEF StepKept

\* Every step of the application.
LEMMA AppStays ==
    ASSUME SQLTypes, SQLTypes', GenerationInv, ReadMarkInv, CopyInv, AppNext
    PROVE  StepKept
<1>0. mx \in Nat /\ rtx \in Nat \cup {NoRead} /\ nbf \in Nat
  BY DEF SQLTypes
<1>7. Len(Current) \in Nat
  BY CurrentType, MaxPagesAssumption DEF Pages
<1>1. ASSUME NEW p \in Pages, AppSpill(p) PROVE StepKept
  BY <1>1, SpillKeeps
<1>2. ASSUME NEW p \in Pages, NEW n \in Pages, AppCommitOpen(p, n) PROVE StepKept
  <2>1. pend = 1 /\ p <= n /\ (n > Len(Current) => p = n /\ n = Len(Current) + 1)
    <3>1. pend = 1 /\ LegalSize(p, n)
      BY <1>2 DEF AppCommitOpen, SQLTypes
    <3> QED
      BY <3>1, <1>7 DEF LegalSize
  <2>2. WriteFrame(p, n, FALSE) /\ dbfile' = dbfile /\ pend' = 0
    BY <1>2 DEF AppCommitOpen
  <2>3. PICK t : t = Changed(p, nval, n, Changed(wal[mx + 1].pg, wal[mx + 1].val, Len(Current), Current))
    OBVIOUS
  <2>4. CommitsTo(t, p, n)
    BY <2>1, <2>3, TwoFramesCommit
  <2>5. hist' = Append(hist, t)
    BY <1>2, <2>3 DEF AppCommitOpen
  <2> QED
    BY <2>2, <2>4, <2>5, CommitKeeps
<1>3. ASSUME NEW p \in Pages, NEW n \in Pages, AppCommit(p, n) PROVE StepKept
  <2>1. pend = 0 /\ p <= n /\ (n > Len(Current) => p = n /\ n = Len(Current) + 1)
    <3>1. pend = 0 /\ LegalSize(p, n)
      BY <1>3 DEF AppCommit, SQLTypes
    <3> QED
      BY <3>1, <1>7 DEF LegalSize
  <2>2. PICK r \in {FALSE, MayRestart} : WriteFrame(p, n, r)
    BY <1>3 DEF AppCommit
  <2>3. dbfile' = dbfile /\ pend' = 0
    BY <1>3, <2>1 DEF AppCommit
  <2>4. PICK t : t = Changed(p, nval, n, Current)
    OBVIOUS
  <2>5. CommitsTo(t, p, n)
    BY <2>1, <2>4, OneFrameCommits
  <2>6. hist' = Append(hist, t)
    BY <1>3, <2>4 DEF AppCommit
  <2> QED
    BY <2>2, <2>3, <2>5, <2>6, CommitKeeps
<1>4. CASE AppRollback
  BY <1>4, SameKeeps DEF AppRollback
<1>5. CASE AppCheckpoint
  <2>1. PICK to : to = IF rtx > 0 /\ rtx < mx THEN rtx ELSE mx
    OBVIOUS
  <2>2. nbf < to /\ Backfill(to) /\ UNCHANGED <<wal, hsalt, gen, mx, nval, pend, hist>>
    BY <1>5, <2>1 DEF AppCheckpoint
  <2>3. to \in Nat /\ to <= mx /\ (rtx > 0 => to <= rtx)
    BY <1>0, <2>1 DEF ReadMarkInv, NoRead
  <2> QED
    BY <2>2, <2>3, BackfillStays
<1>6. CASE AppTruncate
  <2>1. rtx <= 0 /\ wlock = "none" /\ TruncateWAL
    BY <1>6 DEF AppTruncate, NoRead
  <2> QED
    BY <2>1, TruncateStays
<1> QED
  BY <1>1, <1>2, <1>3, <1>4, <1>5, <1>6 DEF AppNext

\* Litestream's own write, and the one that creates the WAL.
LEMMA SeqWriteStays ==
    ASSUME SQLTypes, SQLTypes', GenerationInv, ReadMarkInv, CopyInv, SeqWrite
    PROVE  StepKept
<1>1. 1 \in Pages /\ Len(Current) \in Pages /\ 1 <= Len(Current) /\ ~(Len(Current) > Len(Current))
  BY CurrentType, MaxPagesAssumption DEF Pages
<1>2. PICK n \in Pages : n = Len(Current)
  BY <1>1
<1>3. PICK r \in {FALSE, MayRestart} : WriteFrame(1, n, r)
  BY <1>2 DEF SeqWrite
<1>4. pend = 0 /\ pend' = 0 /\ dbfile' = dbfile
  BY DEF SeqWrite, SQLTypes
<1>5. PICK t : t = Changed(1, nval, n, Current)
  OBVIOUS
<1>6. CommitsTo(t, 1, n)
  BY <1>1, <1>2, <1>4, <1>5, OneFrameCommits
<1>7. hist' = Append(hist, t)
  BY <1>2, <1>5 DEF SeqWrite
<1> QED
  BY <1>1, <1>3, <1>4, <1>6, <1>7, CommitKeeps

LEMMA EnsureStays ==
    ASSUME SQLTypes, SQLTypes', GenerationInv, ReadMarkInv, CopyInv, EnsureWALExists
    PROVE  StepKept
<1>1. CASE hsalt = 0
  BY <1>1, SeqWriteStays DEF EnsureWALExists
<1>2. CASE hsalt # 0
  BY <1>2, SameKeeps DEF EnsureWALExists, txnVars
<1> QED
  BY <1>1, <1>2

-----------------------------------------------------------------------------
(* What SQLite does to the frames Litestream has read.                     *)

\* The last frame of a file is overwritten only by one of another WAL.
LEMMA EndKept ==
    ASSUME SQLTypes, SQLTypes', FramesKept, NEW e \in Nat, NEW s \in Nat, EndInv(e, s)
    PROVE  EndInv(e, s)' /\ (At(e, s)' => At(e, s) /\ wal'[e] = wal[e])
<1>1. gen \in Nat /\ gen' \in Nat /\ hsalt \in Nat /\ hsalt' \in Nat /\ mx \in Nat /\ mx' \in Nat
  <2>1. gen \in Nat /\ hsalt \in Nat /\ mx \in Nat
    BY DEF SQLTypes
  <2>2. gen' \in Nat /\ hsalt' \in Nat /\ mx' \in Nat
    BY DEF SQLTypes
  <2> QED
    BY <2>1, <2>2
<1>2. s # 0 /\ s <= gen /\ (s = hsalt => e <= mx)
  BY DEF EndInv
<1>3. gen <= gen' /\ (hsalt' = hsalt \/ hsalt' = 0 \/ hsalt' > gen) /\ (hsalt' = hsalt => mx <= mx')
  BY DEF FramesKept
<1>4. s = hsalt' => hsalt' = hsalt /\ e <= mx
  BY <1>1, <1>2, <1>3
<1>5. EndInv(e, s)'
  <2>1. s <= gen'
    BY <1>1, <1>2, <1>3
  <2>2. s = hsalt' => e <= mx'
    BY <1>1, <1>3, <1>4
  <2> QED
    BY <1>2, <2>1, <2>2 DEF EndInv
<1>6. ASSUME At(e, s)' PROVE At(e, s) /\ wal'[e] = wal[e]
  <2>1. e > 0 /\ e <= Len(wal') /\ wal'[e].salt = s
    BY <1>6 DEF At
  <2>2. e \in 1..Len(wal')
    <3>1. wal' \in Seq(Frame)
      BY DEF SQLTypes
    <3> QED
      BY <2>1, <3>1
  <2>3. \/ e \in 1..Len(wal) /\ wal'[e] = wal[e]
        \/ wal'[e].salt = hsalt' /\ (hsalt' = hsalt => e > mx)
    BY <2>2 DEF FramesKept
  <2>4. e \in 1..Len(wal) /\ wal'[e] = wal[e]
    BY <1>1, <1>4, <2>1, <2>3
  <2>5. e <= Len(wal)
    BY <2>4
  <2> QED
    BY <2>1, <2>4, <2>5 DEF At
<1> QED
  BY <1>5, <1>6

LEMMA LastStays ==
    ASSUME TypeInv, TypeInv', FramesKept, LastInv, ltx' = ltx
    PROVE  LastInv'
<1>1. TXID' = TXID /\ LastLTX' = LastLTX /\ LastEnd' = LastEnd
  BY LastSame
<1>2. SUFFICES ASSUME TXID > 0
               PROVE  /\ EndInv(LastEnd, LastLTX.salt)'
                      /\ At(LastEnd, LastLTX.salt)' =>
                            /\ wal'[LastEnd].pg \in DOMAIN LastLTX.pages
                            /\ LastLTX.pages[wal'[LastEnd].pg] = wal'[LastEnd].val
  BY <1>1 DEF LastInv
<1>3. PICK e, s, pages : e = LastEnd /\ s = LastLTX.salt /\ pages = LastLTX.pages
  OBVIOUS
<1>4. e \in Nat /\ s \in Nat
  <2>1. LastLTX \in LTXType
    BY <1>2, LastLTXType
  <2> QED
    BY <1>3, <2>1 DEF LTXType, LastEnd
<1>5. EndInv(e, s) /\ (At(e, s) => wal[e].pg \in DOMAIN pages /\ pages[wal[e].pg] = wal[e].val)
  BY <1>2, <1>3 DEF LastInv
<1>6. EndInv(e, s)' /\ (At(e, s)' => At(e, s) /\ wal'[e] = wal[e])
  BY <1>4, <1>5, EndKept DEF TypeInv
<1>7. LastEnd' = e /\ LastLTX'.salt = s
  BY <1>1, <1>3
<1>8. EndInv(LastEnd, LastLTX.salt)' /\ (At(LastEnd, LastLTX.salt)' => At(e, s)')
  BY <1>6, <1>7 DEF EndInv, At
<1> QED
  BY <1>3, <1>5, <1>6, <1>8

LEMMA StartStays ==
    ASSUME TypeInv, TypeInv', FramesKept, StartInv, call' = call, pc' = pc, rtx' = rtx
    PROVE  StartInv'
<1>1. PICK off, salt : off = call.info.off /\ salt = call.info.salt
  OBVIOUS
<1>2. off \in Nat /\ salt \in Nat
  BY <1>1 DEF TypeInv, SyncTypes, CallType, InfoType
<1>3. SUFFICES ASSUME pc = "scan", off > 0
               PROVE  /\ call.info.snap => salt # 0 /\ salt <= gen' /\ salt # hsalt' /\ ~At(off, salt)'
                      /\ ~call.info.snap /\ rtx > 0 /\ salt # hsalt' /\ At(off, salt)' => Len(wal') = off
  <2>1. call.info' = call.info /\ At(call.info.off, call.info.salt)' = At(off, salt)'
    BY <1>1 DEF At
  <2> QED
    BY <1>1, <2>1 DEF StartInv
<1>4. gen \in Nat /\ gen' \in Nat /\ hsalt \in Nat /\ hsalt' \in Nat
  <2>1. gen \in Nat /\ hsalt \in Nat
    BY DEF TypeInv, SQLTypes
  <2>2. gen' \in Nat /\ hsalt' \in Nat
    BY DEF TypeInv, SQLTypes
  <2> QED
    BY <2>1, <2>2
<1>5. ASSUME At(off, salt)', salt # hsalt' PROVE At(off, salt)
  <2>1. off \in 1..Len(wal') /\ wal'[off].salt = salt
    <3>1. wal' \in Seq(Frame)
      BY DEF TypeInv, SQLTypes
    <3>2. off <= Len(wal') /\ wal'[off].salt = salt
      BY <1>5 DEF At
    <3> QED
      BY <1>2, <1>3, <3>1, <3>2
  <2>2. off \in 1..Len(wal) /\ wal'[off] = wal[off]
    BY <1>5, <2>1 DEF FramesKept
  <2>3. off <= Len(wal)
    BY <2>2
  <2> QED
    BY <1>3, <2>1, <2>2, <2>3 DEF At
<1>6. gen <= gen' /\ (hsalt' = hsalt \/ hsalt' = 0 \/ hsalt' > gen)
  BY DEF FramesKept
<1>7. ASSUME call.info.snap PROVE salt # 0 /\ salt <= gen' /\ salt # hsalt' /\ ~At(off, salt)'
  <2>1. salt # 0 /\ salt <= gen /\ salt # hsalt /\ ~At(off, salt)
    BY <1>1, <1>3, <1>7 DEF StartInv
  <2> QED
    BY <1>2, <1>4, <1>5, <1>6, <2>1
<1>8. ASSUME ~call.info.snap, rtx > 0, salt # hsalt', At(off, salt)' PROVE Len(wal') = off
  <2>1. hsalt' = hsalt /\ (Len(wal') = Len(wal) \/ At(Len(wal), hsalt))
    BY <1>8 DEF FramesKept
  <2>2. At(off, salt)
    BY <1>5, <1>8
  <2>3. Len(wal) = off
    BY <1>1, <1>3, <1>8, <2>1, <2>2 DEF StartInv
  <2> QED
    BY <1>8, <2>1, <2>2, <2>3 DEF At
<1> QED
  BY <1>7, <1>8

LEMMA MapStays ==
    ASSUME TypeInv, TypeInv', ReadMarkInv, FramesKept, ReadKept, MapInv, call' = call, pc' = pc, rtx' = rtx
    PROVE  MapInv'
<1>1. PICK scan : scan = call.scan
  OBVIOUS
<1>2. PICK end : end = scan.off + scan.size
  OBVIOUS
<1>3. scan \in ScanType /\ end \in Nat /\ scan.salt \in Nat
  BY <1>1, <1>2 DEF TypeInv, SyncTypes, CallType, ScanType
<1>4. /\ mx \in Nat /\ mx' \in Nat /\ rtx \in Nat \cup {NoRead} /\ Len(hist) \in Nat /\ Len(hist') \in Nat
      /\ scan.commit \in 0..MaxPages
  <2>1. mx \in Nat /\ rtx \in Nat \cup {NoRead}
    BY DEF TypeInv, SQLTypes
  <2>2. hist \in Seq(Database) /\ hist' \in Seq(Database)
    BY DEF TypeInv, SQLTypes
  <2>3. mx' \in Nat
    BY DEF TypeInv, SQLTypes
  <2> QED
    BY <1>3, <2>1, <2>2, <2>3 DEF ScanType
<1>5. SUFFICES ASSUME pc = "write"
               PROVE  /\ EndInv(end, scan.salt)'
                      /\ At(end, scan.salt)' => wal'[end].pg \in DOMAIN scan.map /\ scan.map[wal'[end].pg] = end
                      /\ \A p \in DOMAIN scan.map : p <= scan.commit
                      /\ rtx > 0 => \E k \in 1..Len(hist') :
                            /\ rtx = mx' => k = Len(hist')
                            /\ scan.commit = Len(hist'[k])
                            /\ \A p \in DOMAIN scan.map :
                                  scan.map[p] <= mx' /\ wal'[scan.map[p]].val = hist'[k][p]
                            /\ scan.snap => \A p \in 1..scan.commit :
                                  p \notin DOMAIN scan.map =>
                                      /\ p <= Len(dbfile') /\ dbfile'[p] = hist'[k][p]
                                      /\ \A i \in 1..rtx : wal'[i].pg # p
  BY <1>1, <1>2 DEF MapInv, EndInv, At
<1>6. EndInv(end, scan.salt)' /\ (At(end, scan.salt)' => At(end, scan.salt) /\ wal'[end] = wal[end])
  <2>1. EndInv(end, scan.salt)
    BY <1>1, <1>2, <1>5 DEF MapInv
  <2>2. PICK s \in Nat : s = scan.salt
    BY <1>3
  <2>3. EndInv(end, s)' /\ (At(end, s)' => At(end, s) /\ wal'[end] = wal[end])
    BY <1>3, <2>1, <2>2, EndKept DEF TypeInv
  <2> QED
    BY <2>2, <2>3
<1>7. /\ At(end, scan.salt) => wal[end].pg \in DOMAIN scan.map /\ scan.map[wal[end].pg] = end
      /\ \A p \in DOMAIN scan.map : p <= scan.commit
  BY <1>1, <1>2, <1>5 DEF MapInv
<1>8. ASSUME rtx > 0
      PROVE  \E k \in 1..Len(hist') :
                /\ rtx = mx' => k = Len(hist')
                /\ scan.commit = Len(hist'[k])
                /\ \A p \in DOMAIN scan.map :
                      scan.map[p] <= mx' /\ wal'[scan.map[p]].val = hist'[k][p]
                /\ scan.snap => \A p \in 1..scan.commit :
                      p \notin DOMAIN scan.map =>
                          /\ p <= Len(dbfile') /\ dbfile'[p] = hist'[k][p]
                          /\ \A i \in 1..rtx : wal'[i].pg # p
  <2>1. PICK k \in 1..Len(hist) :
            /\ rtx = mx => k = Len(hist)
            /\ scan.commit = Len(hist[k])
            /\ \A p \in DOMAIN scan.map :
                  scan.map[p] <= mx /\ wal[scan.map[p]].val = hist[k][p]
            /\ scan.snap => \A p \in 1..scan.commit :
                  p \notin DOMAIN scan.map =>
                      /\ p <= Len(dbfile) /\ dbfile[p] = hist[k][p]
                      /\ \A i \in 1..rtx : wal[i].pg # p
    BY <1>1, <1>5, <1>8 DEF MapInv
  <2>2. /\ \A i \in 1..mx : wal'[i] = wal[i]
        /\ Len(hist) <= Len(hist') /\ \A j \in 1..Len(hist) : hist'[j] = hist[j]
        /\ hist' = hist \/ mx' > mx
        /\ \A p \in Pages :
              p <= Len(dbfile) /\ (\A i \in 1..rtx : wal[i].pg # p) /\ (rtx = mx => p <= Len(Current))
                  => p <= Len(dbfile') /\ dbfile'[p] = dbfile[p]
    BY <1>8 DEF ReadKept
  <2>3. rtx <= mx /\ mx <= mx' /\ rtx \in Nat
    BY <1>4, <1>8 DEF ReadMarkInv, FramesKept, NoRead
  <2>4. k \in 1..Len(hist') /\ hist'[k] = hist[k]
    BY <1>4, <2>1, <2>2
  <2>5. rtx = mx' => k = Len(hist')
    <3>1. rtx = mx' => mx = mx' /\ rtx = mx
      BY <1>4, <2>3
    <3> QED
      BY <1>4, <2>1, <2>2, <3>1
  <2>6. ASSUME NEW p \in DOMAIN scan.map
        PROVE  scan.map[p] <= mx' /\ wal'[scan.map[p]].val = hist'[k][p]
    <3>1. scan.map[p] \in Nat \ {0}
      BY <1>3, <2>6 DEF ScanType, FrameTable
    <3>2. scan.map[p] <= mx /\ wal[scan.map[p]].val = hist[k][p]
      BY <2>1
    <3>3. PICK i \in 1..mx : i = scan.map[p]
      BY <1>4, <3>1, <3>2
    <3>4. wal'[i] = wal[i] /\ i <= mx'
      BY <1>4, <2>2, <2>3
    <3> QED
      BY <2>4, <3>2, <3>3, <3>4
  <2>7. ASSUME scan.snap, NEW p \in 1..scan.commit, p \notin DOMAIN scan.map
        PROVE  p <= Len(dbfile') /\ dbfile'[p] = hist'[k][p] /\ \A i \in 1..rtx : wal'[i].pg # p
    <3>1. p <= Len(dbfile) /\ dbfile[p] = hist[k][p] /\ \A i \in 1..rtx : wal[i].pg # p
      BY <2>1, <2>7
    <3>2. p \in Pages
      BY <1>4, MaxPagesAssumption DEF Pages
    <3>3. rtx = mx => p <= Len(Current)
      BY <1>4, <2>1 DEF Current
    <3>4. p <= Len(dbfile') /\ dbfile'[p] = dbfile[p]
      BY <2>2, <3>1, <3>2, <3>3
    <3>5. \A i \in 1..rtx : wal'[i] = wal[i]
      <4>1. \A i \in 1..rtx : i \in 1..mx
        BY <1>4, <2>3
      <4> QED
        BY <2>2, <4>1
    <3> QED
      BY <2>4, <3>1, <3>4, <3>5
  <2> QED
    BY <2>1, <2>4, <2>5, <2>6, <2>7
<1> QED
  BY <1>6, <1>7, <1>8

-----------------------------------------------------------------------------
(* What verify and the scan find.                                          *)

\* Frame t is the last commit a reader that starts at an offset sees.
IsTop(start, salt, t) ==
    LET last == LastReadable(start, salt)
    IN  t \in (start + 1)..last /\ wal[t].commit > 0 /\ \A i \in (t + 1)..last : ~(wal[i].commit > 0)

\* A page map up to frame t: the last frame of every page up to there.
MapsTo(m, start, t) ==
    LET P == {p \in 1..wal[t].commit : \E i \in (start + 1)..t : wal[i].pg = p}
    IN  /\ P = {} => m.end = 0 /\ DOMAIN m.map = {}
        /\ P # {} => /\ m.commit = wal[t].commit /\ DOMAIN m.map = P
                     /\ \A p \in P : LastIn(wal, start, t, p, m.map[p])
                     /\ m.end \in (start + 1)..t /\ wal[m.end].pg \in P /\ m.map[wal[m.end].pg] = m.end

\* A page map without a commit is empty; any other one stops at the last.
LEMMA PageMapTop ==
    ASSUME SQLTypes, NEW start \in Nat, NEW salt
    PROVE  LET last == LastReadable(start, salt)
               m    == PageMap(start, salt)
           IN  /\ (\A i \in (start + 1)..last : ~(wal[i].commit > 0)) => m.end = 0 /\ DOMAIN m.map = {}
               /\ \A t : IsTop(start, salt, t) => MapsTo(m, start, t)
<1> DEFINE last   == LastReadable(start, salt)
           cs     == {i \in (start + 1)..last : wal[i].commit > 0}
           top    == Max(cs \cup {0})
           commit == IF cs = {} THEN 0 ELSE wal[top].commit
           Index(p) == {i \in (start + 1)..top : wal[i].pg = p}
           pgs    == {p \in 1..commit : \E i \in (start + 1)..top : wal[i].pg = p}
           newest == [p \in pgs |-> Max(Index(p))]
           E      == {newest[p] : p \in pgs}
           m      == PageMap(start, salt)
<1>1. last \in Nat /\ start <= last /\ (last > start => last <= Len(wal)) /\ Len(wal) \in Nat
  BY LastReadableIs DEF SQLTypes
<1>2. ASSUME pgs = {} PROVE m.end = 0 /\ DOMAIN m.map = {}
  <2>1. m = [map |-> <<>>, end |-> 0, commit |-> 0]
    BY <1>2, Zenon DEF PageMap
  <2> HIDE DEF m
  <2> QED
    BY <2>1
<1>3. ASSUME \A i \in (start + 1)..last : ~(wal[i].commit > 0) PROVE m.end = 0 /\ DOMAIN m.map = {}
  <2>1. cs = {}
    BY <1>3
  <2>2. pgs = {}
    <3> HIDE DEF cs, top
    <3> QED
      BY <2>1
  <2> QED
    BY <1>2, <2>2
<1>4. ASSUME NEW t, IsTop(start, salt, t) PROVE MapsTo(m, start, t)
  <2> DEFINE P == {p \in 1..wal[t].commit : \E i \in (start + 1)..t : wal[i].pg = p}
  <2>1. t \in (start + 1)..last /\ wal[t].commit > 0 /\ \A i \in (t + 1)..last : ~(wal[i].commit > 0)
    BY <1>4 DEF IsTop
  <2>2. t \in Nat /\ t >= 1 /\ t \in cs /\ \A y \in cs : y <= t
    <3>1. t \in Nat /\ t >= 1 /\ t <= last
      BY <1>1, <2>1
    <3>2. \A y \in (start + 1)..last : ~(y <= t) => y \in (t + 1)..last
      BY <1>1, <3>1
    <3> HIDE DEF last
    <3> QED
      BY <2>1, <3>1, <3>2
  <2>3. top = t
    <3> DEFINE T == cs \cup {0}
    <3>1. T \in SUBSET Nat /\ t \in T /\ \A y \in T : y <= t
      <4>1. cs \in SUBSET Nat
        BY <1>1
      <4> HIDE DEF cs
      <4> QED
        BY <2>2, <4>1
    <3> HIDE DEF T
    <3>2. Max(T) = t
      BY <3>1, MaxIs
    <3> QED
      BY <3>2 DEF T
  <2>4. commit = wal[t].commit
    <3> HIDE DEF cs, top
    <3> QED
      BY <2>2, <2>3
  <2>5. pgs = P
    <3> HIDE DEF top, commit
    <3> QED
      BY <2>3, <2>4
  <2>6. ASSUME NEW p \in pgs PROVE LastIn(wal, start, t, p, newest[p])
    <3> DEFINE I == Index(p)
    <3>1. I = {i \in (start + 1)..t : wal[i].pg = p}
      <4> HIDE DEF top
      <4> QED
        BY <2>3
    <3>2. I \in SUBSET Nat /\ I # {} /\ \A y \in I : y <= t
      <4> HIDE DEF I, top, commit
      <4> QED
        BY <2>2, <2>5, <3>1
    <3>3. newest[p] = Max(I)
      <4> HIDE DEF Index, pgs
      <4> QED
        OBVIOUS
    <3> HIDE DEF I, newest, pgs
    <3>4. Max(I) \in I /\ \A y \in I : y <= Max(I)
      BY <2>2, <3>2, MaxIsIn
    <3>5. PICK k \in I : k = newest[p] /\ \A y \in I : y <= k
      BY <3>3, <3>4
    <3>6. k \in (start + 1)..t /\ wal[k].pg = p
      BY <3>1, <3>5
    <3>7. ASSUME NEW j \in (k + 1)..t PROVE wal[j].pg # p
      <4>1. j \in (start + 1)..t /\ ~(j <= k)
        BY <2>2, <3>6
      <4> QED
        BY <3>1, <3>5, <4>1
    <3> QED
      BY <3>5, <3>6, <3>7 DEF LastIn
  <2>7. CASE pgs = {}
    BY <1>2, <2>5, <2>7 DEF MapsTo
  <2>8. CASE pgs # {}
    <3>1. m = [map |-> newest, end |-> Max(E), commit |-> commit]
      BY <2>8, Zenon DEF PageMap
    <3>2. DOMAIN newest = pgs
      <4> HIDE DEF pgs, Index
      <4> QED
        OBVIOUS
    <3>3. E \in SUBSET Nat /\ E # {} /\ \A y \in E : y <= t
      <4> HIDE DEF newest, pgs
      <4>1. \A p \in pgs : newest[p] \in (start + 1)..t
        BY <2>6 DEF LastIn
      <4> QED
        BY <2>2, <2>8, <4>1
    <3>4. PICK q \in pgs : newest[q] = Max(E)
      <4>1. Max(E) \in E
        <5> HIDE DEF E
        <5> QED
          BY <2>2, <3>3, MaxIsIn
      <4> HIDE DEF newest, pgs
      <4> QED
        BY <4>1
    <3>5. m.map = newest /\ m.end = Max(E) /\ m.commit = wal[t].commit
      <4> HIDE DEF newest, E, commit, m
      <4> QED
        BY <2>4, <3>1
    <3>6. newest[q] \in (start + 1)..t /\ wal[newest[q]].pg = q
      <4> HIDE DEF newest, pgs
      <4> QED
        BY <2>6 DEF LastIn
    <3> HIDE DEF newest, E, commit, m, pgs, P
    <3>7. /\ P # {} /\ m.commit = wal[t].commit /\ DOMAIN m.map = P
          /\ \A p \in P : LastIn(wal, start, t, p, m.map[p])
          /\ m.end \in (start + 1)..t /\ wal[m.end].pg \in P /\ m.map[wal[m.end].pg] = m.end
      BY <2>5, <2>6, <2>8, <3>2, <3>4, <3>5, <3>6
    <3> QED
      BY <3>7 DEF MapsTo, P
  <2> QED
    BY <2>7, <2>8
<1> HIDE DEF m
<1> QED
  BY <1>3, <1>4 DEF m

\* A reader whose part of the WAL has a commit has a last one.
LEMMA TopExists ==
    ASSUME SQLTypes, NEW start \in Nat, NEW salt,
           \E i \in (start + 1)..LastReadable(start, salt) : wal[i].commit > 0
    PROVE  \E t : IsTop(start, salt, t)
<1>1. PICK last \in Nat : last = LastReadable(start, salt)
  BY LastReadableIs
<1>2. PICK S : S = {i \in (start + 1)..last : wal[i].commit > 0}
  OBVIOUS
<1>3. S \in SUBSET Nat /\ S # {} /\ \A y \in S : y <= last
  BY <1>1, <1>2
<1>4. Max(S) \in S /\ \A y \in S : y <= Max(S)
  BY <1>1, <1>3, MaxIsIn
<1>5. PICK t \in S : \A y \in S : y <= t
  BY <1>4
<1>6. t \in (start + 1)..last /\ wal[t].commit > 0
  BY <1>2, <1>5
<1>7. ASSUME NEW i \in (t + 1)..last PROVE ~(wal[i].commit > 0)
  <2>1. i \in (start + 1)..last /\ ~(i <= t)
    BY <1>6
  <2> QED
    BY <1>2, <1>5, <2>1
<1> QED
  BY <1>1, <1>6, <1>7 DEF IsTop

\* A frame of the newest WAL is known by its number.
LEMMA FrameSalts ==
    ASSUME SQLTypes, GenerationInv
    PROVE  /\ \A i \in 1..Len(wal) :
                 /\ wal[i] \in Frame /\ wal[i].salt # 0 /\ wal[i].salt <= gen
                 /\ i <= mx => wal[i].salt = hsalt
                 /\ i > mx /\ wal[i].salt = hsalt => ~(wal[i].commit > 0)
           /\ mx \in Nat /\ mx <= Len(wal) /\ Len(wal) \in Nat /\ hsalt \in Nat /\ gen \in Nat
           /\ hsalt = 0 => Len(wal) = 0
<1>1. wal \in Seq(Frame) /\ mx \in Nat /\ pend \in {0, 1} /\ mx + pend <= Len(wal) /\ hsalt \in Nat /\ gen \in Nat
  BY DEF SQLTypes
<1>2. hsalt <= gen /\ (hsalt = 0 => wal = <<>>)
  BY DEF GenerationInv
<1>3. ASSUME NEW i \in 1..Len(wal)
      PROVE  /\ wal[i] \in Frame /\ wal[i].salt # 0 /\ wal[i].salt <= gen
             /\ i <= mx => wal[i].salt = hsalt
             /\ i > mx /\ wal[i].salt = hsalt => ~(wal[i].commit > 0)
  <2>1. wal[i] \in Frame
    BY <1>1
  <2>2. wal[i].salt \in Nat
    BY <2>1 DEF Frame
  <2>3. /\ wal[i].salt # 0 /\ wal[i].salt <= hsalt
        /\ i <= mx + pend => wal[i].salt = hsalt
        /\ i > mx /\ wal[i].salt = hsalt => wal[i].commit = 0
    BY DEF GenerationInv
  <2>4. i <= mx => i <= mx + pend
    BY <1>1
  <2> QED
    BY <1>1, <1>2, <2>1, <2>2, <2>3, <2>4
<1> QED
  BY <1>1, <1>2, <1>3

\* What db.go's verify returns, when the last frame of the last file is still
\* in the WAL and when it is not.
LEMMA VerifyMarks ==
    ASSUME TypeInv, GenerationInv, LastInv, NEW info, info = VerifyInfo, info.off > 0
    PROVE  /\ info.snap => info.salt # 0 /\ info.salt <= gen /\ info.salt # hsalt /\ ~At(info.off, info.salt)
           /\ ~info.snap /\ info.salt # hsalt /\ At(info.off, info.salt) => Len(wal) = info.off
<1>1. TXID # 0
  <2> SUFFICES ASSUME TXID = 0 PROVE FALSE
    OBVIOUS
  <2>1. info = Snapshot(0, 0)
    BY VerifyNone
  <2> QED
    BY <2>1 DEF Snapshot
<1>2. PICK off, salt : off = LastLTX.off + LastLTX.size /\ salt = LastLTX.salt
  OBVIOUS
<1>3. off \in Nat /\ salt \in Nat /\ WalSize \in Int
  BY <1>1, <1>2, VerifyCases
<1>4. /\ \A o, t : Resume(o, t).off = o /\ Resume(o, t).salt = t /\ ~Resume(o, t).snap
      /\ \A o, t : Snapshot(o, t).off = o /\ Snapshot(o, t).salt = t /\ Snapshot(o, t).snap
  BY DEF Resume, Snapshot
<1>5. TXID > 0
  BY <1>1 DEF TypeInv, SyncTypes, TXID
<1>6. /\ salt # 0 /\ salt <= gen /\ (salt = hsalt => off <= mx)
      /\ At(off, salt) => wal[off].pg \in DOMAIN LastLTX.pages /\ LastLTX.pages[wal[off].pg] = wal[off].val
  BY <1>2, <1>5 DEF LastInv, EndInv, LastEnd
<1>7. /\ mx \in Nat /\ mx <= Len(wal) /\ Len(wal) \in Nat
      /\ \A i \in 1..Len(wal) : i <= mx => wal[i].salt = hsalt
      /\ hsalt = 0 => Len(wal) = 0
  BY FrameSalts DEF TypeInv
<1>8. ASSUME At(off, salt) PROVE WalSize = Len(wal) /\ off <= WalSize
  <2>1. off > 0 /\ off <= Len(wal)
    BY <1>8 DEF At
  <2>2. hsalt # 0
    BY <1>3, <1>7, <2>1
  <2> QED
    BY <2>1, <2>2 DEF WalSize
<1>9. salt = hsalt => off <= WalSize
  <2>1. salt = hsalt => WalSize = Len(wal)
    BY <1>6 DEF WalSize
  <2> QED
    BY <1>3, <1>6, <1>7, <2>1
<1>10. salt = hsalt /\ off > 0 => At(off, salt)
  <2> SUFFICES ASSUME salt = hsalt, off > 0 PROVE At(off, salt)
    OBVIOUS
  <2>1. off \in 1..Len(wal) /\ off <= mx
    BY <1>3, <1>6, <1>7
  <2> QED
    BY <1>7, <2>1 DEF At
<1>11. info = Snapshot(off, salt) => info.off = off /\ info.salt = salt /\ info.snap
  BY <1>4
<1>12. info = Resume(off, salt) => info.off = off /\ info.salt = salt /\ ~info.snap
  BY <1>4
<1>13. info # Resume(0, hsalt) /\ info # Snapshot(0, hsalt)
  BY <1>4
<1>14. CASE off > WalSize
  <2>1. info = Snapshot(off, salt)
    BY <1>1, <1>2, <1>13, <1>14, VerifyCases
  <2>2. salt # hsalt /\ ~At(off, salt)
    BY <1>3, <1>8, <1>9, <1>14
  <2> QED
    BY <1>6, <1>11, <2>1, <2>2
<1>15. CASE off = WalSize
  <2>1. info = Resume(off, salt)
    BY <1>1, <1>2, <1>15, VerifyCases
  <2>2. At(off, salt) => Len(wal) = off
    BY <1>8, <1>15
  <2> QED
    BY <1>12, <2>1, <2>2
<1>16. CASE off < WalSize /\ off <= 1
  <2>1. info = IF hsalt = salt THEN Resume(off, salt) ELSE Snapshot(off, salt)
    BY <1>1, <1>2, <1>16, VerifyCases
  <2>2. CASE hsalt = salt
    BY <1>12, <2>1, <2>2
  <2>3. CASE hsalt # salt
    <3>1. info = Snapshot(off, salt) /\ off > 0
      BY <1>11, <2>1, <2>3
    <3>2. off = 1
      BY <1>3, <1>16, <3>1
    <3>3. ~At(off, salt)
      <4> SUFFICES ASSUME At(off, salt) PROVE FALSE
        OBVIOUS
      <4>1. Len(wal) # 0 /\ wal[1].salt = salt
        BY <3>2, <1>7 DEF At
      <4>2. wal[1].salt = hsalt
        BY <1>7, <4>1 DEF GenerationInv
      <4> QED
        BY <2>3, <4>1, <4>2
    <3> QED
      BY <1>6, <1>11, <2>3, <3>1, <3>3
  <2> QED
    BY <2>2, <2>3
<1>17. CASE off < WalSize /\ off > 1
  <2>1. info = IF ~LastPageMatch(off) THEN Snapshot(off, salt)
               ELSE IF hsalt = salt THEN Resume(off, salt)
               ELSE IF DetectFullCheckpoint THEN Snapshot(0, hsalt)
               ELSE Resume(0, hsalt)
    BY <1>1, <1>2, <1>17, VerifyCases
  <2>2. CASE ~LastPageMatch(off)
    <3>1. info = Snapshot(off, salt)
      BY <2>1, <2>2
    <3>2. ~At(off, salt)
      BY <1>2, <1>6, <2>2 DEF At, LastPageMatch
    <3>3. salt # hsalt
      BY <1>3, <1>10, <1>17, <3>2
    <3> QED
      BY <1>6, <1>11, <3>1, <3>2, <3>3
  <2>3. CASE LastPageMatch(off)
    <3>1. hsalt = salt /\ info = Resume(off, salt)
      BY <1>13, <2>1, <2>3
    <3> QED
      BY <1>12, <3>1
  <2> QED
    BY <2>2, <2>3
<1> QED
  BY <1>3, <1>14, <1>15, <1>16, <1>17

\* The page map of a scan under the read mark.
LEMMA ScanFromHeader ==
    ASSUME SQLTypes, GenerationInv, CopyInv, hsalt # 0, NEW start \in Nat, start < mx
    PROVE  LET m == PageMap(start, hsalt)
           IN  /\ m.end # 0 /\ m.commit = Len(Current)
               /\ DOMAIN m.map = {p \in 1..Len(Current) : \E i \in (start + 1)..mx : wal[i].pg = p}
               /\ \A p \in DOMAIN m.map : m.map[p] \in 1..mx /\ wal[m.map[p]].val = Current[p]
<1>1. /\ mx \in Nat /\ mx <= Len(wal) /\ Len(wal) \in Nat
      /\ \A i \in 1..Len(wal) : i <= mx => wal[i].salt = hsalt
      /\ \A i \in 1..Len(wal) : i > mx /\ wal[i].salt = hsalt => ~(wal[i].commit > 0)
  BY FrameSalts
<1>2. wal[mx].commit = Len(Current) /\ wal[mx].pg <= Len(Current) /\ mx \in 1..Len(wal)
  BY <1>1 DEF GenerationInv
<1>3. wal[mx].pg \in 1..Len(Current) /\ Len(Current) \in Nat /\ Len(Current) > 0
  <2>1. wal[mx].pg \in Pages
    <3>1. wal[mx] \in Frame
      BY <1>2, FrameSalts
    <3> QED
      BY <3>1 DEF Frame
  <2>2. Len(Current) \in Pages
    BY CurrentType
  <2> QED
    BY <1>2, <2>1, <2>2, MaxPagesAssumption DEF Pages
<1>4. PICK last \in Nat : last = LastReadable(start, hsalt)
  BY LastReadableIs
<1>5. /\ mx <= last
      /\ last > start => last <= Len(wal) /\ \A i \in (start + 1)..last : wal[i].salt = hsalt
  <2>1. last > start => last <= Len(wal) /\ \A i \in (start + 1)..last : wal[i].salt = hsalt
    BY <1>4, LastReadableIs
  <2>2. mx <= last
    <3> DEFINE S == {j \in start..Len(wal) : \A i \in (start + 1)..j : wal[i].salt = hsalt} \cup {start}
    <3>1. S \in SUBSET Nat /\ S # {} /\ \A y \in S : y <= start + Len(wal)
      BY <1>1
    <3>2. mx \in S
      <4>1. \A i \in (start + 1)..mx : i \in 1..Len(wal) /\ i <= mx
        BY <1>1
      <4> QED
        BY <1>1, <4>1
    <3>3. last = Max(S)
      BY <1>4, Zenon DEF LastReadable
    <3> HIDE DEF S
    <3>4. start + Len(wal) \in Nat
      BY <1>1
    <3>5. \A y \in S : y <= Max(S)
      BY <3>1, <3>4, MaxIsIn
    <3> QED
      BY <3>2, <3>3, <3>5
  <2> QED
    BY <2>1, <2>2
<1>6. IsTop(start, hsalt, mx)
  <2>1. mx \in (start + 1)..last /\ wal[mx].commit > 0
    BY <1>1, <1>2, <1>3, <1>4, <1>5
  <2>2. ASSUME NEW i \in (mx + 1)..last PROVE ~(wal[i].commit > 0)
    <3>1. i \in 1..Len(wal) /\ i > mx /\ i \in (start + 1)..last
      BY <1>1, <1>5
    <3>2. last > start
      BY <1>1, <1>4, <1>5
    <3> QED
      BY <1>1, <1>5, <3>1, <3>2
  <2> QED
    BY <1>4, <2>1, <2>2 DEF IsTop
<1>7. PICK m : m = PageMap(start, hsalt)
  OBVIOUS
<1>8. MapsTo(m, start, mx)
  BY <1>6, <1>7, PageMapTop
<1>9. PICK P : P = {p \in 1..Len(Current) : \E i \in (start + 1)..mx : wal[i].pg = p}
  OBVIOUS
<1>10. P # {}
  <2>1. wal[mx].pg \in P
    BY <1>1, <1>3, <1>9
  <2> QED
    BY <2>1
<1>13. m.end # 0
  <2>1. m.end \in (start + 1)..mx
    BY <1>2, <1>8, <1>9, <1>10 DEF MapsTo
  <2> QED
    BY <2>1
<1>11. m.commit = Len(Current) /\ DOMAIN m.map = P /\ \A p \in P : LastIn(wal, start, mx, p, m.map[p])
  BY <1>2, <1>8, <1>9, <1>10 DEF MapsTo
<1>12. ASSUME NEW p \in P PROVE m.map[p] \in 1..mx /\ wal[m.map[p]].val = Current[p]
  <2>1. PICK k \in (start + 1)..mx : k = m.map[p] /\ wal[k].pg = p /\ \A j \in (k + 1)..mx : wal[j].pg # p
    BY <1>11 DEF LastIn
  <2>2. k \in 1..mx /\ p \in 1..Len(Current)
    BY <1>1, <1>9, <2>1
  <2>3. Current[p] = wal[k].val
    BY <2>1, <2>2 DEF CopyInv
  <2> QED
    BY <2>1, <2>2, <2>3
<1> QED
  BY <1>7, <1>9, <1>11, <1>12, <1>13

\* Where the scan of db.go's sync starts: at the header, or behind a frame of
\* the WAL it resumes.
LEMMA ScanStarts ==
    ASSUME TypeInv, StartInv, pc = "scan"
    PROVE  \E off \in Nat, salt \in Nat :
              /\ \/ off = 0 /\ salt = hsalt
                 \/ ~call.info.snap /\ off > 0 /\ At(off, salt) /\ (rtx > 0 /\ salt # hsalt => Len(wal) = off)
              /\ ScanWAL.off = off /\ ScanWAL.salt = salt /\ ScanWAL.snap = call.info.snap
              /\ ScanWAL.size = (IF PageMap(off, salt).end > 0 THEN PageMap(off, salt).end - off ELSE 0)
              /\ ScanWAL.map = PageMap(off, salt).map
              /\ ScanWAL.commit = (IF PageMap(off, salt).commit > 0 THEN PageMap(off, salt).commit ELSE Len(dbfile))
<1> DEFINE info  == call.info
           reset == info.off > 0 /\ ~PrevFrameMatches(info.off, info.salt)
           off   == IF reset THEN 0 ELSE info.off
           salt  == IF off = 0 THEN hsalt ELSE info.salt
<1>1. info.off \in Nat /\ info.salt \in Nat /\ hsalt \in Nat
  BY DEF TypeInv, SyncTypes, SQLTypes, CallType, InfoType
<1>2. off \in Nat /\ salt \in Nat
  BY <1>1
<1>3. \/ off = 0 /\ salt = hsalt
      \/ ~info.snap /\ off > 0 /\ At(off, salt) /\ (rtx > 0 /\ salt # hsalt => Len(wal) = off)
  <2>1. CASE off = 0
    BY <2>1
  <2>2. CASE off # 0
    <3>1. ~reset /\ off = info.off /\ salt = info.salt /\ info.off > 0
      <4> HIDE DEF reset, info
      <4> QED
        BY <1>1, <2>2
    <3>2. At(info.off, info.salt)
      BY <3>1 DEF PrevFrameMatches, At
    <3>3. ~info.snap /\ (rtx > 0 /\ info.salt # hsalt => Len(wal) = info.off)
      BY <3>1, <3>2 DEF StartInv
    <3> HIDE DEF reset, info, off, salt
    <3> QED
      BY <3>1, <3>2, <3>3
  <2> QED
    BY <2>1, <2>2
<1>4. ScanWAL = [off |-> off, size |-> IF PageMap(off, salt).end > 0 THEN PageMap(off, salt).end - off ELSE 0,
                 salt |-> salt, snap |-> info.snap, map |-> PageMap(off, salt).map,
                 commit |-> IF PageMap(off, salt).commit > 0 THEN PageMap(off, salt).commit ELSE Len(dbfile)]
  BY Zenon DEF ScanWAL
<1> HIDE DEF off, salt
<1>5. /\ ScanWAL.off = off /\ ScanWAL.salt = salt /\ ScanWAL.snap = info.snap
      /\ ScanWAL.size = (IF PageMap(off, salt).end > 0 THEN PageMap(off, salt).end - off ELSE 0)
      /\ ScanWAL.map = PageMap(off, salt).map
      /\ ScanWAL.commit = (IF PageMap(off, salt).commit > 0 THEN PageMap(off, salt).commit ELSE Len(dbfile))
  BY <1>4
<1> QED
  BY <1>2, <1>3, <1>5

\* What a scan that has something to write promises of its file.
MapOf(scan) ==
    LET end == scan.off + scan.size
    IN  /\ EndInv(end, scan.salt)
        /\ At(end, scan.salt) => wal[end].pg \in DOMAIN scan.map /\ scan.map[wal[end].pg] = end
        /\ \A p \in DOMAIN scan.map : p <= scan.commit
        /\ rtx > 0 =>
              /\ scan.commit = Len(Current)
              /\ \A p \in DOMAIN scan.map : scan.map[p] <= mx /\ wal[scan.map[p]].val = Current[p]
              /\ scan.snap => \A p \in 1..scan.commit :
                    p \notin DOMAIN scan.map =>
                        /\ p <= Len(dbfile) /\ dbfile[p] = Current[p]
                        /\ \A i \in 1..rtx : wal[i].pg # p

LEMMA ScanMarks ==
    ASSUME TypeInv, GenerationInv, ReadMarkInv, CopyInv, StartInv, pc = "scan", hsalt # 0,
           ScanWAL.snap \/ ScanWAL.size # 0
    PROVE  MapOf(ScanWAL)
<1>1. PICK off \in Nat, salt \in Nat :
          /\ \/ off = 0 /\ salt = hsalt
             \/ ~call.info.snap /\ off > 0 /\ At(off, salt) /\ (rtx > 0 /\ salt # hsalt => Len(wal) = off)
          /\ ScanWAL.off = off /\ ScanWAL.salt = salt /\ ScanWAL.snap = call.info.snap
          /\ ScanWAL.size = (IF PageMap(off, salt).end > 0 THEN PageMap(off, salt).end - off ELSE 0)
          /\ ScanWAL.map = PageMap(off, salt).map
          /\ ScanWAL.commit = (IF PageMap(off, salt).commit > 0 THEN PageMap(off, salt).commit ELSE Len(dbfile))
  BY ScanStarts
<1>2. PICK scan : scan = ScanWAL
  OBVIOUS
<1>3. PICK m : m = PageMap(off, salt)
  OBVIOUS
<1>4. /\ scan.off = off /\ scan.salt = salt /\ scan.snap = call.info.snap
      /\ scan.size = (IF m.end > 0 THEN m.end - off ELSE 0)
      /\ scan.map = m.map
      /\ scan.commit = (IF m.commit > 0 THEN m.commit ELSE Len(dbfile))
  BY <1>1, <1>2, <1>3
<1>5. SQLTypes
  BY DEF TypeInv
<1>6. m.end \in Nat /\ (m.end > 0 => m.end > off)
  BY <1>3, <1>5, PageMapIs
<1>7. /\ \A i \in 1..Len(wal) :
            /\ wal[i].salt # 0 /\ wal[i].salt <= gen
            /\ i <= mx => wal[i].salt = hsalt
            /\ i > mx /\ wal[i].salt = hsalt => ~(wal[i].commit > 0)
      /\ mx \in Nat /\ mx <= Len(wal) /\ Len(wal) \in Nat /\ hsalt \in Nat /\ gen \in Nat
  BY <1>5, FrameSalts
<1>8. PICK last \in Nat : last = LastReadable(off, salt) /\ off <= last
                          /\ (last > off => last <= Len(wal) /\ \A i \in (off + 1)..last : wal[i].salt = salt)
  BY <1>5, LastReadableIs
<1>9. CASE m.end = 0
  <2>1. scan.size = 0 /\ scan.snap
    BY <1>2, <1>4, <1>9
  <2>2. off = 0 /\ salt = hsalt
    BY <1>1, <1>4, <2>1
  <2>3. scan.off + scan.size = 0
    BY <1>4, <2>1, <2>2
  <2>4. EndInv(0, salt)
    <3>1. hsalt <= gen
      BY DEF GenerationInv
    <3> QED
      BY <1>7, <2>2, <3>1 DEF EndInv
  <2>5. ~At(0, salt)
    BY DEF At
  <2>6. ~(rtx > 0)
    <3> SUFFICES ASSUME rtx > 0 PROVE FALSE
      OBVIOUS
    <3>1. off < mx
      <4>1. rtx \in Nat \cup {NoRead}
        BY <1>5 DEF SQLTypes
      <4> QED
        BY <1>7, <2>2, <4>1 DEF ReadMarkInv, NoRead
    <3>2. m.end # 0
      BY <1>3, <1>5, <2>2, <3>1, ScanFromHeader
    <3> QED
      BY <1>9, <3>2
  <2>7. DOMAIN m.map = {}
    <3>1. CASE \A i \in (off + 1)..last : ~(wal[i].commit > 0)
      BY <1>3, <1>5, <1>8, <3>1, PageMapTop
    <3>2. CASE \E i \in (off + 1)..last : wal[i].commit > 0
      <4>1. PICK t : IsTop(off, salt, t)
        BY <1>5, <1>8, <3>2, TopExists
      <4>2. MapsTo(m, off, t)
        BY <1>3, <1>5, <4>1, PageMapTop
      <4>3. ~(m.end \in (off + 1)..t)
        BY <1>9
      <4> QED
        BY <4>2, <4>3 DEF MapsTo
    <3> QED
      BY <3>1, <3>2
  <2> QED
    BY <1>2, <1>4, <2>3, <2>4, <2>5, <2>6, <2>7 DEF MapOf
<1>10. CASE m.end # 0
  <2>1. PICK t : IsTop(off, salt, t)
    <3>1. \E i \in (off + 1)..last : wal[i].commit > 0
      BY <1>3, <1>5, <1>8, <1>10, PageMapTop
    <3> QED
      BY <1>5, <1>8, <3>1, TopExists
  <2>2. t \in (off + 1)..last /\ wal[t].commit > 0
    BY <1>8, <2>1 DEF IsTop
  <2>3. MapsTo(m, off, t)
    BY <1>3, <1>5, <2>1, PageMapTop
  <2>4. m.end \in (off + 1)..t /\ wal[m.end].pg \in DOMAIN m.map /\ m.map[wal[m.end].pg] = m.end
    BY <1>10, <2>3 DEF MapsTo
  <2>10. \A p \in DOMAIN scan.map : p <= scan.commit
    <3>1. m.commit = wal[t].commit /\ DOMAIN m.map = {p \in 1..wal[t].commit : \E i \in (off + 1)..t : wal[i].pg = p}
      BY <1>10, <2>3 DEF MapsTo
    <3>2. scan.commit = wal[t].commit
      BY <1>4, <2>2, <3>1
    <3> QED
      BY <1>4, <3>1, <3>2
  <2>5. last > off /\ t \in 1..Len(wal) /\ wal[t].salt = salt
    <3>1. last > off
      BY <1>8, <2>2
    <3>2. last <= Len(wal) /\ wal[t].salt = salt
      BY <1>8, <2>2, <3>1
    <3> QED
      BY <1>7, <1>8, <2>2, <3>1, <3>2
  <2>6. salt = hsalt => t <= mx
    BY <1>7, <2>2, <2>5
  <2>7. scan.off + scan.size = m.end
    BY <1>4, <1>6, <1>10
  <2>8. EndInv(m.end, salt)
    <3>1. salt # 0 /\ salt <= gen
      BY <1>7, <2>5
    <3>2. salt = hsalt => m.end <= mx
      BY <1>7, <2>2, <2>4, <2>6
    <3> QED
      BY <3>1, <3>2 DEF EndInv
  <2>9. ASSUME rtx > 0
        PROVE  /\ scan.commit = Len(Current)
               /\ \A p \in DOMAIN scan.map : scan.map[p] <= mx /\ wal[scan.map[p]].val = Current[p]
               /\ scan.snap => \A p \in 1..scan.commit :
                     p \notin DOMAIN scan.map =>
                         /\ p <= Len(dbfile) /\ dbfile[p] = Current[p]
                         /\ \A i \in 1..rtx : wal[i].pg # p
    <3>1. salt = hsalt
      BY <1>1, <1>8, <2>5, <2>9
    <3>2. off < mx
      BY <1>7, <2>2, <2>6, <3>1
    <3>3. /\ m.commit = Len(Current)
          /\ DOMAIN m.map = {p \in 1..Len(Current) : \E i \in (off + 1)..mx : wal[i].pg = p}
          /\ \A p \in DOMAIN m.map : m.map[p] \in 1..mx /\ wal[m.map[p]].val = Current[p]
      BY <1>3, <1>5, <3>1, <3>2, ScanFromHeader
    <3>4. Len(Current) \in Nat /\ Len(Current) > 0
      BY <1>5, CurrentType, MaxPagesAssumption DEF Pages
    <3>5. scan.commit = Len(Current)
      BY <1>4, <3>3, <3>4
    <3>6. ASSUME NEW p \in DOMAIN scan.map
          PROVE  scan.map[p] <= mx /\ wal[scan.map[p]].val = Current[p]
      <4>1. p \in 1..Len(Current) /\ m.map[p] \in 1..mx /\ wal[m.map[p]].val = Current[p]
        BY <1>4, <3>3, <3>6
      <4> QED
        BY <1>4, <3>4, <3>5, <4>1
    <3>7. ASSUME scan.snap, NEW p \in 1..scan.commit, p \notin DOMAIN scan.map
          PROVE  p <= Len(dbfile) /\ dbfile[p] = Current[p] /\ \A i \in 1..rtx : wal[i].pg # p
      <4>1. off = 0 /\ p \in 1..Len(Current)
        BY <1>1, <1>4, <3>5, <3>7
      <4>2. \A i \in 1..mx : wal[i].pg # p
        BY <1>4, <3>3, <3>7, <4>1
      <4>3. nbf \in Nat /\ rtx \in Nat \cup {NoRead}
        BY <1>5 DEF SQLTypes
      <4>4. \A i \in (nbf + 1)..mx : i \in 1..mx
        BY <1>7, <4>3
      <4>5. \A i \in 1..rtx : i \in 1..mx
        BY <1>7, <2>9, <4>3 DEF ReadMarkInv, NoRead
      <4>6. p <= Len(dbfile) /\ dbfile[p] = Current[p]
        BY <4>1, <4>2, <4>4 DEF CopyInv
      <4> QED
        BY <4>2, <4>5, <4>6
    <3> QED
      BY <3>5, <3>6, <3>7
  <2> QED
    BY <1>2, <1>4, <2>4, <2>7, <2>8, <2>9, <2>10 DEF MapOf
<1> QED
  BY <1>9, <1>10

\* The file that is written: its last frame, and under the read mark its
\* pages, which are those of one commit.
LEMMA WriteMarks ==
    ASSUME TypeInv, TypeInv', MapInv, pc = "write", NEW scan, scan = call.scan, Readable(scan),
           ltx' = Append(ltx, NewLTX(scan)), UNCHANGED <<wal, hsalt, gen, mx>>
    PROVE  /\ LastInv'
           /\ rtx > 0 => LET f == ltx'[Len(ltx')]
                         IN  \E k \in 1..Len(hist) :
                                /\ f.snap => DOMAIN hist[k] = DOMAIN f.pages
                                /\ \A p \in DOMAIN f.pages : p \in DOMAIN hist[k] /\ hist[k][p] = f.pages[p]
<1>1. PICK f : f = NewLTX(scan)
  OBVIOUS
<1>2. scan \in ScanType
  BY DEF TypeInv, SyncTypes, CallType
<1>3. f \in LTXType
  BY <1>1, <1>2, NewLTXType
<1>4. /\ f.off = scan.off /\ f.size = scan.size /\ f.salt = scan.salt /\ f.snap = scan.snap
      /\ f.commit = scan.commit /\ f.pages = WrittenPages(scan)
  BY <1>1 DEF NewLTX
<1>5. LastLTX' = f /\ ltx'[Len(ltx')] = f /\ TXID' > 0
  <2>1. ltx \in Seq(LTXType)
    BY DEF TypeInv, SyncTypes
  <2>2. Len(ltx') = Len(ltx) + 1 /\ ltx'[Len(ltx) + 1] = f /\ Len(ltx) \in Nat
    BY <1>1, <1>3, <2>1
  <2> QED
    BY <2>2 DEF LastLTX, TXID
<1>6. PICK S \in SUBSET Pages : scan.map \in [S -> Nat \ {0}]
  BY <1>2 DEF ScanType, FrameTable
<1>7. DOMAIN scan.map = S /\ \A p \in S : p \in Nat /\ p >= 1
  BY <1>6, MaxPagesAssumption DEF Pages
<1>8. scan.commit \in Nat
  BY <1>2, MaxPagesAssumption DEF ScanType
<1>9. PICK end \in Nat : end = scan.off + scan.size
  BY <1>2 DEF ScanType
<1>10. /\ EndInv(end, scan.salt)
       /\ At(end, scan.salt) => wal[end].pg \in S /\ scan.map[wal[end].pg] = end
       /\ \A p \in S : p <= scan.commit
  BY <1>7, <1>9 DEF MapInv
<1>11. /\ \A p \in S : p \in DOMAIN f.pages /\ f.pages[p] = wal[scan.map[p]].val
       /\ scan.snap => DOMAIN f.pages = 1..scan.commit /\ \A p \in 1..scan.commit : p \notin S => f.pages[p] = dbfile[p]
       /\ ~scan.snap => DOMAIN f.pages = S
  <2>1. CASE scan.snap
    <3>1. f.pages = [p \in 1..scan.commit |-> IF p \in S THEN wal[scan.map[p]].val ELSE dbfile[p]]
      BY <1>4, <1>7, <2>1 DEF WrittenPages
    <3>2. \A p \in S : p \in 1..scan.commit
      BY <1>7, <1>8, <1>10
    <3> QED
      BY <2>1, <3>1, <3>2
  <2>2. CASE ~scan.snap
    <3>1. f.pages = [p \in S |-> wal[scan.map[p]].val]
      BY <1>4, <1>7, <2>2 DEF WrittenPages
    <3> QED
      BY <2>2, <3>1
  <2> QED
    BY <2>1, <2>2
<1>12. LastInv'
  <2>1. LastEnd' = end /\ LastLTX'.salt = scan.salt /\ LastLTX'.pages = f.pages
    BY <1>4, <1>5, <1>9 DEF LastEnd
  <2>2. EndInv(end, scan.salt)' /\ (At(end, scan.salt)' <=> At(end, scan.salt))
    <3>1. scan.salt # 0 /\ scan.salt <= gen /\ (scan.salt = hsalt => end <= mx)
      BY <1>10 DEF EndInv
    <3> QED
      BY <3>1 DEF EndInv, At
  <2>3. ASSUME At(end, scan.salt)
        PROVE  wal[end].pg \in DOMAIN f.pages /\ f.pages[wal[end].pg] = wal[end].val
    BY <1>10, <1>11, <2>3
  <2>4. EndInv(LastEnd, LastLTX.salt)' /\ (At(LastEnd, LastLTX.salt)' => At(end, scan.salt)')
    BY <2>1, <2>2 DEF EndInv, At
  <2> QED
    BY <2>1, <2>2, <2>3, <2>4 DEF LastInv
<1>13. ASSUME rtx > 0
       PROVE  \E k \in 1..Len(hist) :
                 /\ f.snap => DOMAIN hist[k] = DOMAIN f.pages
                 /\ \A p \in DOMAIN f.pages : p \in DOMAIN hist[k] /\ hist[k][p] = f.pages[p]
  <2>1. PICK k \in 1..Len(hist) :
            /\ scan.commit = Len(hist[k])
            /\ \A p \in DOMAIN scan.map : scan.map[p] <= mx /\ wal[scan.map[p]].val = hist[k][p]
            /\ scan.snap => \A p \in 1..scan.commit :
                  p \notin DOMAIN scan.map =>
                      /\ p <= Len(dbfile) /\ dbfile[p] = hist[k][p]
                      /\ \A i \in 1..rtx : wal[i].pg # p
    BY <1>13 DEF MapInv
  <2>2. DOMAIN hist[k] = 1..scan.commit
    <3>1. hist[k] \in Database
      BY DEF TypeInv, SQLTypes
    <3> QED
      BY <2>1, <3>1 DEF Database
  <2>3. \A p \in S : p \in 1..scan.commit /\ hist[k][p] = f.pages[p]
    BY <1>7, <1>8, <1>10, <1>11, <2>1
  <2>4. scan.snap => \A p \in 1..scan.commit : hist[k][p] = f.pages[p]
    BY <1>7, <1>11, <2>1, <2>3
  <2>5. CASE scan.snap
    BY <1>4, <1>11, <2>2, <2>4, <2>5
  <2>6. CASE ~scan.snap
    BY <1>4, <1>11, <2>2, <2>3, <2>6
  <2> QED
    BY <2>5, <2>6
<1> QED
  BY <1>5, <1>12, <1>13

-----------------------------------------------------------------------------
(* Every step, and the theorem.                                            *)

\* A step of SQLite alone moves the WAL away only from under a mark of 0.
LEMMA MarkKept ==
    ASSUME SQLTypes, SQLTypes', ReadMarkInv, FramesKept, rtx' = rtx, pc' = pc \/ pc' # "pragma"
    PROVE  ReadMarkInv'
<1>1. mx \in Nat /\ rtx \in Nat \cup {NoRead}
  BY DEF SQLTypes
<1>2. mx' \in Nat
  BY DEF SQLTypes
<1>3. CASE rtx > 0
  <2>1. mx <= mx' /\ rtx <= mx /\ rtx \in Nat
    BY <1>1, <1>3 DEF ReadMarkInv, FramesKept, NoRead
  <2>2. rtx <= mx'
    BY <1>1, <1>2, <2>1
  <2> QED
    BY <2>2 DEF ReadMarkInv
<1>4. CASE ~(rtx > 0)
  <2>1. rtx = 0 \/ rtx = NoRead
    BY <1>1, <1>4
  <2>2. 0 <= mx'
    BY <1>2
  <2> QED
    BY <2>1, <2>2 DEF ReadMarkInv
<1> QED
  BY <1>3, <1>4

\* A step that writes no file and answers nothing, or leaves the call alone.
LEMMA MarkStays ==
    ASSUME TypeInv, TypeInv', MarkIInv, StepKept, ReadMarkInv', ltx' = ltx,
           pc' \notin {"scan", "write"} \/ (call' = call /\ pc' = pc /\ rtx' = rtx)
    PROVE  MarkIInv'
<1>1. GenerationInv' /\ CopyInv' /\ FramesKept /\ ReadKept
  BY DEF StepKept
<1>2. LastInv'
  BY <1>1, LastStays DEF MarkIInv
<1>3. StartInv' /\ MapInv'
  <2>1. CASE pc' \notin {"scan", "write"}
    BY <2>1 DEF StartInv, MapInv
  <2>2. CASE call' = call /\ pc' = pc /\ rtx' = rtx
    BY <1>1, <2>2, StartStays, MapStays DEF MarkIInv
  <2> QED
    BY <2>1, <2>2
<1> QED
  BY <1>1, <1>2, <1>3 DEF MarkIInv

LEMMA VerifyKeepsMarks == ASSUME TypeInv, TypeInv', MarkIInv, Verify PROVE MarkIInv'
<1>1. UNCHANGED <<fileVars, txnVars, rtx, ltx>> /\ pc' \in {"idle", "scan"}
  BY DEF Verify, Goto, Return
<1>2. UNCHANGED <<wal, hsalt, gen, mx, hist, pend>>
  BY <1>1 DEF fileVars, txnVars
<1>3. GenerationInv /\ ReadMarkInv /\ CopyInv /\ LastInv
  BY DEF MarkIInv
<1>4. StepKept
  BY <1>1, <1>2, <1>3, SameKeeps DEF TypeInv
<1>5. ReadMarkInv'
  BY <1>1, <1>2, <1>3 DEF ReadMarkInv
<1>6. CASE pc' = "idle"
  BY <1>1, <1>4, <1>5, <1>6, MarkStays
<1>7. CASE pc' = "scan"
  <2>1. GenerationInv' /\ CopyInv' /\ LastInv'
    BY <1>1, <1>3, <1>4, LastStays DEF StepKept
  <2>2. PICK info : info = VerifyInfo
    OBVIOUS
  <2>3. call.info' = info
    BY <1>7, <2>2 DEF Verify, Goto, Return, TypeInv, SyncTypes, CallType
  <2>4. info.off > 0 =>
            /\ info.snap => info.salt # 0 /\ info.salt <= gen /\ info.salt # hsalt /\ ~At(info.off, info.salt)
            /\ ~info.snap /\ info.salt # hsalt /\ At(info.off, info.salt) => Len(wal) = info.off
    BY <1>3, <2>2, VerifyMarks
  <2>5. At(call.info.off, call.info.salt)' <=> At(info.off, info.salt)
    BY <1>2, <2>3 DEF At
  <2>6. StartInv'
    BY <1>2, <2>3, <2>4, <2>5 DEF StartInv
  <2>7. MapInv'
    BY <1>7 DEF MapInv
  <2> QED
    BY <1>5, <2>1, <2>6, <2>7 DEF MarkIInv
<1> QED
  BY <1>1, <1>6, <1>7

LEMMA ScanKeepsMarks == ASSUME TypeInv, TypeInv', MarkIInv, Scan PROVE MarkIInv'
<1>1. UNCHANGED <<fileVars, txnVars, rtx, ltx>> /\ pc = "scan"
  BY DEF Scan
<1>2. UNCHANGED <<dbfile, wal, hsalt, gen, mx, hist, pend>>
  BY <1>1 DEF fileVars, txnVars
<1>3. GenerationInv /\ ReadMarkInv /\ CopyInv /\ LastInv /\ StartInv
  BY DEF MarkIInv
<1>4. StepKept
  BY <1>1, <1>2, <1>3, SameKeeps DEF TypeInv
<1>5. pc' \in {"idle", "decide", "release", "write"}
  BY DEF Scan, AfterSync, Goto, Return
<1>6. ReadMarkInv'
  BY <1>1, <1>2, <1>3, <1>5 DEF ReadMarkInv
<1>7. CASE pc' # "write"
  BY <1>1, <1>4, <1>5, <1>6, <1>7, MarkStays
<1>8. CASE pc' = "write"
  <2>1. GenerationInv' /\ CopyInv' /\ LastInv'
    BY <1>1, <1>3, <1>4, LastStays DEF StepKept
  <2>2. hsalt # 0 /\ (ScanWAL.snap \/ ScanWAL.size # 0)
    BY <1>8 DEF Scan, AfterSync, Goto, Return
  <2>3. PICK scan : scan = ScanWAL
    OBVIOUS
  <2>4. call.scan' = scan
    BY <1>8, <2>3 DEF Scan, AfterSync, Goto, Return, TypeInv, SyncTypes, CallType
  <2>5. MapOf(scan)
    BY <1>1, <1>3, <2>2, <2>3, ScanMarks
  <2>6. PICK end : end = scan.off + scan.size
    OBVIOUS
  <2>7. EndInv(end, scan.salt)' /\ (At(end, scan.salt)' <=> At(end, scan.salt))
    BY <1>2, <2>5, <2>6 DEF MapOf, EndInv, At
  <2>8. rtx > 0 => \E k \in 1..Len(hist) :
            /\ rtx = mx => k = Len(hist)
            /\ scan.commit = Len(hist[k])
            /\ \A p \in DOMAIN scan.map : scan.map[p] <= mx /\ wal[scan.map[p]].val = hist[k][p]
            /\ scan.snap => \A p \in 1..scan.commit :
                  p \notin DOMAIN scan.map =>
                      /\ p <= Len(dbfile) /\ dbfile[p] = hist[k][p]
                      /\ \A i \in 1..rtx : wal[i].pg # p
    <3>1. PICK k : k = Len(hist)
      OBVIOUS
    <3>2. k \in 1..Len(hist)
      <4>1. hist \in Seq(Database) /\ hist # <<>>
        BY DEF TypeInv, SQLTypes
      <4> QED
        BY <3>1, <4>1
    <3>3. Current = hist[k]
      BY <3>1 DEF Current
    <3> QED
      BY <2>5, <3>1, <3>2, <3>3 DEF MapOf
  <2>9. /\ At(end, scan.salt) => wal[end].pg \in DOMAIN scan.map /\ scan.map[wal[end].pg] = end
        /\ \A p \in DOMAIN scan.map : p <= scan.commit
    BY <2>5, <2>6 DEF MapOf
  <2>10. /\ call.scan'.off + call.scan'.size = end
         /\ EndInv(call.scan.off + call.scan.size, call.scan.salt)'
         /\ At(call.scan.off + call.scan.size, call.scan.salt)' <=> At(end, scan.salt)'
    BY <2>4, <2>6, <2>7 DEF EndInv, At
  <2>11. MapInv'
    BY <1>1, <1>2, <2>4, <2>7, <2>8, <2>9, <2>10 DEF MapInv
  <2>12. StartInv'
    BY <1>8 DEF StartInv
  <2> QED
    BY <1>6, <2>1, <2>11, <2>12 DEF MarkIInv
<1> QED
  BY <1>7, <1>8

LEMMA WriteKeepsMarks == ASSUME TypeInv, TypeInv', MarkIInv, WriteLTX PROVE MarkIInv'
<1>1. UNCHANGED <<fileVars, txnVars, rtx>> /\ pc = "write" /\ pc' \in {"decide", "release", "idle"}
  BY DEF WriteLTX, AfterSync, Goto, Return
<1>2. UNCHANGED <<wal, hsalt, gen, mx, hist, pend>>
  BY <1>1 DEF fileVars, txnVars
<1>3. GenerationInv /\ ReadMarkInv /\ CopyInv /\ MapInv
  BY DEF MarkIInv
<1>4. StepKept
  BY <1>1, <1>2, <1>3, SameKeeps DEF TypeInv
<1>5. ReadMarkInv'
  BY <1>1, <1>2, <1>3 DEF ReadMarkInv
<1>6. CASE ltx' = ltx
  BY <1>1, <1>4, <1>5, <1>6, MarkStays
<1>7. CASE ltx' # ltx
  <2>1. PICK scan : scan = call.scan
    OBVIOUS
  <2>2. Readable(scan) /\ ltx' = Append(ltx, NewLTX(scan))
    BY <1>7, <2>1 DEF WriteLTX
  <2>3. LastInv'
    BY <1>1, <1>2, <1>3, <2>1, <2>2, WriteMarks
  <2>4. StartInv' /\ MapInv'
    BY <1>1 DEF StartInv, MapInv
  <2> QED
    BY <1>4, <1>5, <2>3, <2>4 DEF StepKept, MarkIInv
<1> QED
  BY <1>6, <1>7

\* The step of the application, of a checkpoint, and of the read transaction.
LEMMA AppKeepsMarks == ASSUME TypeInv, TypeInv', MarkIInv, App PROVE MarkIInv'
<1>1. AppNext /\ ltx' = ltx /\ call' = call /\ pc' = pc
  BY DEF App, syncVars
<1>2. SQLTypes /\ SQLTypes' /\ GenerationInv /\ ReadMarkInv /\ CopyInv
  BY DEF TypeInv, MarkIInv
<1>3. rtx' = rtx
  BY <1>1, AppKeepsLocks
<1>4. StepKept
  BY <1>1, <1>2, AppStays
<1>5. ReadMarkInv'
  BY <1>1, <1>2, <1>3, <1>4, MarkKept DEF StepKept
<1> QED
  BY <1>1, <1>3, <1>4, <1>5, MarkStays

LEMMA PragmaKeepsMarks == ASSUME TypeInv, TypeInv', MarkIInv, Pragma PROVE MarkIInv'
<1>1. SQLTypes /\ SQLTypes' /\ GenerationInv /\ ReadMarkInv /\ CopyInv
  BY DEF TypeInv, MarkIInv
<1>2. ltx' = ltx /\ pc' \in {"acquire", "acquireFailed"} /\ rtx = NoRead
  BY <1>1 DEF Pragma, ReadMarkInv
<1>3. rtx <= 0 /\ ~(rtx > 0)
  BY <1>2 DEF NoRead
<1>4. StepKept
  <2>1. CASE UNCHANGED sqlVars
    BY <1>1, <2>1, SameKeeps DEF sqlVars, txnVars
  <2>2. CASE nbf < mx /\ Backfill(mx) /\ UNCHANGED <<wal, hsalt, gen, mx, nval, txnVars, rtx, wlock>>
    <3>1. mx \in Nat /\ mx <= mx
      BY <1>1 DEF SQLTypes
    <3> QED
      BY <1>1, <1>3, <2>2, <3>1, BackfillStays DEF txnVars
  <2>3. CASE wlock = "none" /\ TruncateWAL
    BY <1>1, <1>3, <2>3, TruncateStays
  <2> QED
    BY <2>1, <2>2, <2>3 DEF Pragma
<1>5. ReadMarkInv'
  <2>1. rtx' = rtx
    BY DEF Pragma, sqlVars, TruncateWAL
  <2> QED
    BY <1>2, <2>1 DEF ReadMarkInv
<1> QED
  BY <1>2, <1>4, <1>5, MarkStays

\* Losing the read transaction only takes the mark away.
LEMMA LossKeepsMarks == ASSUME TypeInv, TypeInv', MarkIInv, ContextEnds PROVE MarkIInv'
<1>1. SQLTypes /\ SQLTypes' /\ GenerationInv /\ ReadMarkInv /\ CopyInv /\ LastInv /\ StartInv /\ MapInv
  BY DEF TypeInv, MarkIInv
<1>2. UNCHANGED <<fileVars, txnVars, ltx, call, pc>> /\ rtx' = NoRead
  BY DEF ContextEnds, syncVars
<1>3. UNCHANGED <<wal, hsalt, gen, mx>> /\ hist' = hist /\ pend' = pend /\ ~(rtx' > 0)
  BY <1>2 DEF fileVars, txnVars, NoRead
<1>4. StepKept
  BY <1>1, <1>2, <1>3, SameKeeps
<1>5. GenerationInv' /\ CopyInv' /\ LastInv'
  BY <1>1, <1>2, <1>4, LastStays DEF StepKept
<1>6. ReadMarkInv'
  BY <1>2 DEF ReadMarkInv
<1>7. StartInv'
  BY <1>1, <1>2, <1>3 DEF StartInv, At
<1>8. MapInv'
  <2>1. call'.scan = call.scan /\ pc' = pc
    BY <1>2
  <2>2. \A e, s : (EndInv(e, s)' <=> EndInv(e, s)) /\ (At(e, s)' <=> At(e, s))
    BY <1>3 DEF EndInv, At
  <2> QED
    BY <1>1, <1>3, <2>1, <2>2 DEF MapInv
<1> QED
  BY <1>5, <1>6, <1>7, <1>8 DEF MarkIInv

LEMMA MarksTaken ==
    ASSUME TypeInv, TypeInv', MarkIInv,
           InitDB \/ SyncStart \/ AcquireReadLock \/ CheckpointSeq \/ ReleaseReadLock \/ Close \/ Crash
              \/ SyncEnd \/ CheckpointStart \/ CompareHeader
    PROVE  MarkIInv'
<1>1. SQLTypes /\ SQLTypes' /\ GenerationInv /\ ReadMarkInv /\ CopyInv
  BY DEF TypeInv, MarkIInv
<1>2. ltx' = ltx /\ pc' \notin {"scan", "write"}
  BY DEF InitDB, SyncStart, AcquireReadLock, CheckpointSeq, ReleaseReadLock, Close, Crash, SyncEnd,
         CheckpointStart, CompareHeader, Goto, Return, sqlVars
<1>3. StepKept
  <2>1. CASE InitDB \/ SyncStart
    BY <1>1, <2>1, EnsureStays DEF InitDB, SyncStart
  <2>2. CASE CheckpointSeq
    BY <1>1, <2>2, SeqWriteStays, SameKeeps DEF CheckpointSeq, txnVars
  <2>3. CASE AcquireReadLock \/ ReleaseReadLock \/ Close \/ Crash \/ SyncEnd \/ CheckpointStart \/ CompareHeader
    BY <1>1, <2>3, SameKeeps
       DEF AcquireReadLock, ReleaseReadLock, Close, Crash, SyncEnd, CheckpointStart, CompareHeader, sqlVars, txnVars
  <2> QED
    BY <2>1, <2>2, <2>3
<1>4. mx \in Nat /\ ReadMark \in Nat /\ ReadMark <= mx
  <2>1. mx \in Nat
    BY <1>1 DEF SQLTypes
  <2> QED
    BY <2>1 DEF ReadMark
<1>5. ReadMarkInv'
  <2>1. CASE InitDB
    <3>1. rtx' = ReadMark /\ pc' = "idle"
      BY <2>1 DEF InitDB, Goto
    <3>2. ReadMark <= mx'
      <4>1. CASE hsalt = 0
        <5>1. ReadMark = 0
          <6>1. mx = 0
            <7>1. mx \in Nat /\ pend \in {0, 1} /\ mx + pend = 0
              BY <1>1, <4>1 DEF SQLTypes
            <7> QED
              BY <7>1
          <6> QED
            BY <1>4, <6>1
        <5>2. mx' \in Nat
          BY <1>1 DEF SQLTypes
        <5> QED
          BY <5>1, <5>2
      <4>2. CASE hsalt # 0
        BY <1>4, <2>1, <4>2 DEF InitDB, EnsureWALExists, fileVars
      <4> QED
        BY <4>1, <4>2
    <3> QED
      BY <3>1, <3>2 DEF ReadMarkInv
  <2>2. CASE SyncStart \/ CheckpointSeq \/ SyncEnd \/ CheckpointStart \/ CompareHeader
    <3>1. rtx' = rtx /\ pc' # "pragma"
      BY <2>2 DEF SyncStart, CheckpointSeq, SyncEnd, CheckpointStart, CompareHeader, Goto, Return, sqlVars
    <3> QED
      BY <1>1, <1>3, <3>1, MarkKept DEF StepKept
  <2>3. CASE AcquireReadLock
    <3>1. rtx' \in {ReadMark, NoRead} /\ mx' = mx /\ pc' # "pragma"
      BY <2>3 DEF AcquireReadLock, fileVars, Goto, Return
    <3> QED
      BY <1>4, <3>1 DEF ReadMarkInv
  <2>4. CASE ReleaseReadLock \/ Close \/ Crash
    BY <2>4 DEF ReleaseReadLock, Close, Crash, ReadMarkInv
  <2> QED
    BY <2>1, <2>2, <2>3, <2>4
<1> QED
  BY <1>2, <1>3, <1>5, MarkStays

LEMMA MarkStep == ASSUME TypeInv, TypeInv', MarkIInv, [Next]_vars PROVE MarkIInv'
<1>1. CASE UNCHANGED vars
  <2>1. UNCHANGED <<fileVars, hist, pend, mx, rtx, ltx, pc, call>>
    BY <1>1 DEF vars, sqlVars, fileVars, txnVars, syncVars
  <2>2. StepKept
    BY <2>1, SameKeeps DEF TypeInv, MarkIInv
  <2>3. ReadMarkInv'
    BY <2>1 DEF MarkIInv, ReadMarkInv
  <2> QED
    BY <2>1, <2>2, <2>3, MarkStays
<1> QED
  BY <1>1, AppKeepsMarks, VerifyKeepsMarks, ScanKeepsMarks, WriteKeepsMarks, PragmaKeepsMarks, LossKeepsMarks, MarksTaken
     DEF Next, SyncStep

LEMMA MarkInit == Init => MarkIInv
<1> SUFFICES ASSUME Init PROVE MarkIInv
  OBVIOUS
<1>1. /\ dbfile = <<0>> /\ wal = <<>> /\ hsalt = 0 /\ gen = 0 /\ mx = 0 /\ nbf = 0 /\ rtx = NoRead /\ pend = 0
      /\ hist = <<dbfile>> /\ ltx = <<>> /\ pc = "down"
  BY DEF Init, SQLInit
<1>2. Current = dbfile /\ Len(dbfile) = 1
  BY <1>1 DEF Current
<1>3. GenerationInv
  BY <1>1 DEF GenerationInv
<1>4. CopyInv
  BY <1>1, <1>2 DEF CopyInv
<1>5. ReadMarkInv /\ StartInv /\ MapInv
  BY <1>1 DEF ReadMarkInv, StartInv, MapInv
<1>6. LastInv
  BY <1>1 DEF LastInv, TXID
<1> QED
  BY <1>3, <1>4, <1>5, <1>6 DEF MarkIInv

\* A file whose pages are read while Litestream's read transaction has a mark
\* takes them all from one committed state: db.go's sync finds the frames in
\* one step and reads them in another, and in between the application may
\* commit, spill, roll back, checkpoint and, with no mark left, restart the
\* WAL, whatever the number of pages, commits, checkpoints and crashes.
THEOREM MarkedReadHolds == Spec => MarkedReadIsConsistent
<1>1. Init => TypeInv /\ MarkIInv
  BY InitTypes, MarkInit
<1>2. TypeInv /\ MarkIInv /\ [Next]_vars => (TypeInv /\ MarkIInv)'
  BY StepTypes, MarkStep
<1>3. TypeInv /\ TypeInv' /\ MarkIInv /\ [Next]_vars =>
         [Len(ltx') > Len(ltx) /\ rtx > 0 =>
            LET f == ltx'[Len(ltx')]
            IN  \E k \in 1..Len(hist) :
                   /\ f.snap => DOMAIN hist[k] = DOMAIN f.pages
                   /\ \A p \in DOMAIN f.pages : p \in DOMAIN hist[k] /\ hist[k][p] = f.pages[p]
         ]_vars
  <2> SUFFICES ASSUME TypeInv, TypeInv', MarkIInv, [Next]_vars, Len(ltx') > Len(ltx), rtx > 0
               PROVE  LET f == ltx'[Len(ltx')]
                      IN  \E k \in 1..Len(hist) :
                             /\ f.snap => DOMAIN hist[k] = DOMAIN f.pages
                             /\ \A p \in DOMAIN f.pages : p \in DOMAIN hist[k] /\ hist[k][p] = f.pages[p]
    OBVIOUS
  <2>1. ltx' # ltx
    <3>1. Len(ltx) \in Nat
      BY DEF TypeInv, SyncTypes
    <3> QED
      BY <3>1
  <2>2. WriteLTX
    BY <2>1 DEF Next, SyncStep, App, InitDB, SyncStart, Verify, Scan, SyncEnd, CheckpointStart, ReleaseReadLock,
                Pragma, AcquireReadLock, CheckpointSeq, CompareHeader, Close, Crash, ContextEnds, vars, syncVars
  <2>3. PICK scan : scan = call.scan
    OBVIOUS
  <2>4. pc = "write" /\ Readable(scan) /\ ltx' = Append(ltx, NewLTX(scan)) /\ UNCHANGED <<wal, hsalt, gen, mx>>
    BY <2>1, <2>2, <2>3 DEF WriteLTX, fileVars
  <2> QED
    BY <2>3, <2>4, WriteMarks DEF MarkIInv
<1> QED
  BY <1>1, <1>2, <1>3, PTL DEF Spec, MarkedReadIsConsistent

=============================================================================
