----------------------------- MODULE SQLiteWAL -----------------------------
(***************************************************************************)
(* The database file and write-ahead log that Litestream replicates, as    *)
(* SQLite changes them.  SQLite is not part of the repository: this module *)
(* states the rules db.go relies on (docs/SQLITE_INTERNALS.md), and        *)
(* WALSync composes it with the replication code.                          *)
(*                                                                         *)
(* Offsets are counted in frames: offset o is the byte offset              *)
(* WALHeaderSize + o * frameSize, so the end of the header is offset 0 and *)
(* frame i occupies the bytes between offsets i - 1 and i.  A frame whose  *)
(* salt is that of the header has a valid running checksum: same-salt      *)
(* frames are only ever written in order.                                  *)
(***************************************************************************)
EXTENDS Integers, Sequences, FiniteSets, FiniteSetsExt

CONSTANTS
    MaxPages,        \* the database never holds more than this many pages
    MaxCommits,      \* bound on the transactions the application starts
    MaxSpills,       \* how many of them may spill a frame before they end
    MaxSalts,        \* bound on the WALs the application may truncate
    AppCheckpoints,  \* may the application checkpoint without Litestream's read lock?
    Recycle          \* may a write restart a fully checkpointed WAL in place?

ASSUME MaxPagesAssumption == MaxPages \in Nat \ {0}
ASSUME AppBounds == MaxCommits \in Nat /\ MaxSpills \in Nat /\ MaxSalts \in Nat
ASSUME SQLiteSwitches == AppCheckpoints \in BOOLEAN /\ Recycle \in BOOLEAN

VARIABLES
    dbfile,   \* pages of the database file, as values
    wal,      \* frames of the WAL file, stale ones included
    hsalt,    \* salt in the WAL header; 0 when the file has no header
    gen,      \* last salt handed out
    mx,       \* mxFrame: frames of the current WAL that are committed
    nbf,      \* nBackfill: frames already copied into the database file
    rtx,      \* Litestream's read transaction: NoRead, 0, or its read mark
    wlock,    \* holder of the write lock: "none", "app" or "litestream"
    pend,     \* frames spilled by the application's open transaction
    hist,     \* every committed state of the database, oldest first
    napp,     \* transactions the application started
    nval      \* frames written so far: the source of fresh page values

fileVars == <<dbfile, wal, hsalt, gen, mx, nbf, nval>>
txnVars == <<pend, hist, napp>>
sqlVars == <<fileVars, txnVars, rtx, wlock>>

NoRead == -1

\* A page's value is the number of the write that produced it.
Value == Nat

Pages == 1..MaxPages

Frame == [pg: Pages, val: Value, salt: Nat, commit: 0..MaxPages]

\* The state every reader of the database sees now.
Current == hist[Len(hist)]

\* os.Stat(WALPath) in frames; -1 stands for a file shorter than the header.
WalSize == IF hsalt = 0 THEN -1 ELSE Len(wal)

SQLInit ==
    /\ dbfile = <<0>>
    /\ wal = <<>>
    /\ hsalt = 0
    /\ gen = 0
    /\ mx = 0
    /\ nbf = 0
    /\ rtx = NoRead
    /\ wlock = "none"
    /\ pend = 0
    /\ hist = <<dbfile>>
    /\ napp = 0
    /\ nval = 1

-----------------------------------------------------------------------------
(* Writing the WAL.                                                        *)

\* A reader with a mark above 0 keeps a writer from restarting the WAL; a
\* reader that started on a fully checkpointed WAL (mark 0) does not.
MayRestart == Recycle /\ nbf = mx /\ mx > 0 /\ rtx <= 0 /\ pend = 0

\* Writes one frame for page p.  c is the database size for the last frame
\* of a transaction and 0 before it; r restarts the WAL first.
WriteFrame(p, c, r) ==
    LET fresh == r \/ hsalt = 0
        salt  == IF fresh THEN gen + 1 ELSE hsalt
        slot  == (IF fresh THEN 0 ELSE mx) + pend + 1
        frame == [pg |-> p, val |-> nval, salt |-> salt, commit |-> c]
    IN  /\ wal' = [i \in 1..(IF slot > Len(wal) THEN slot ELSE Len(wal)) |->
                       IF i = slot THEN frame ELSE wal[i]]
        /\ hsalt' = salt
        /\ gen' = IF fresh THEN gen + 1 ELSE gen
        /\ mx' = IF c > 0 THEN slot ELSE IF fresh THEN 0 ELSE mx
        /\ nbf' = IF fresh THEN 0 ELSE nbf
        /\ nval' = nval + 1

\* The pages of a database of n pages once page p holds v.
Changed(p, v, n, old) ==
    [i \in 1..n |-> IF i = p THEN v ELSE IF i <= Len(old) THEN old[i] ELSE 0]

-----------------------------------------------------------------------------
(* The application.                                                        *)

\* The transaction leaves the database with n pages.
LegalSize(p, n) ==
    /\ p <= n
    /\ n \in {Len(Current) - 1, Len(Current), Len(Current) + 1} \cap Pages
    /\ n > Len(Current) => p = n

\* A transaction too large for the page cache spills a frame before it ends.
AppSpill(p) ==
    /\ wlock = "none"
    /\ napp < MaxSpills
    /\ p <= Len(Current)
    /\ \E r \in {FALSE, MayRestart} : WriteFrame(p, 0, r)
    /\ wlock' = "app"
    /\ pend' = 1
    /\ napp' = napp + 1
    /\ UNCHANGED <<dbfile, rtx, hist>>

AppCommitOpen(p, n) ==
    /\ wlock = "app"
    /\ LegalSize(p, n)
    /\ WriteFrame(p, n, FALSE)
    /\ LET sp == wal[mx + 1]
           s1 == Changed(sp.pg, sp.val, Len(Current), Current)
       IN  hist' = Append(hist, Changed(p, nval, n, s1))
    /\ wlock' = "none"
    /\ pend' = 0
    /\ UNCHANGED <<dbfile, rtx, napp>>

AppRollback ==
    /\ wlock = "app"
    /\ wlock' = "none"
    /\ pend' = 0
    /\ UNCHANGED <<fileVars, rtx, hist, napp>>

AppCommit(p, n) ==
    /\ wlock = "none"
    /\ napp < MaxCommits
    /\ LegalSize(p, n)
    /\ \E r \in {FALSE, MayRestart} : WriteFrame(p, n, r)
    /\ hist' = Append(hist, Changed(p, nval, n, Current))
    /\ napp' = napp + 1
    /\ UNCHANGED <<dbfile, rtx, wlock, pend>>

-----------------------------------------------------------------------------
(* Checkpoints.                                                            *)

\* Copies the frames up to `to' into the database file, which is cut to the
\* committed size once the whole WAL has been copied.
Backfill(to) ==
    LET new  == {i \in (nbf + 1)..to : wal[i].pg <= Len(Current)}
        n    == IF to = mx THEN Len(Current)
                ELSE Max({Len(dbfile)} \cup {wal[i].pg : i \in new})
        At(p) == {i \in new : wal[i].pg = p}
    IN  /\ nbf' = to
        /\ dbfile' = [p \in 1..n |->
                         IF At(p) # {} THEN wal[Max(At(p))].val
                         ELSE IF p <= Len(dbfile) THEN dbfile[p] ELSE 0]

\* A passive checkpoint stops at the oldest read mark, and copies nothing
\* while some reader reads the database file only (mark 0).
AppCheckpoint ==
    /\ rtx = NoRead => AppCheckpoints
    /\ rtx # 0
    /\ LET safe == IF rtx > 0 /\ rtx < mx THEN rtx ELSE mx
       IN  nbf < safe /\ Backfill(safe)
    /\ UNCHANGED <<wal, hsalt, gen, mx, rtx, wlock, pend, hist, napp, nval>>

\* A truncating checkpoint copies everything and empties the WAL file.
TruncateWAL ==
    /\ dbfile' = Current
    /\ wal' = <<>>
    /\ hsalt' = 0
    /\ mx' = 0
    /\ nbf' = 0
    /\ UNCHANGED <<gen, nval, txnVars, rtx, wlock>>

\* It needs every lock, so Litestream's read mark must not hold it back.
AppTruncate ==
    /\ AppCheckpoints
    /\ wlock = "none"
    /\ hsalt # 0 /\ gen <= MaxSalts
    /\ rtx = NoRead \/ (rtx = 0 /\ nbf = mx)
    /\ TruncateWAL

AppNext ==
    \/ \E p \in Pages : AppSpill(p)
    \/ \E p, n \in Pages : AppCommitOpen(p, n) \/ AppCommit(p, n)
    \/ AppRollback
    \/ AppCheckpoint
    \/ AppTruncate

=============================================================================
