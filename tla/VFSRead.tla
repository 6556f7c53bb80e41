------------------------------ MODULE VFSRead ------------------------------
(***************************************************************************)
(* A read-only connection of the VFS (vfs.go) over a replica that grows,   *)
(* is compacted to level 1 and loses its old level-0 files.  SQLite's      *)
(* thread opens the file, takes and drops the SHARED lock, reads pages and *)
(* travels in time; monitorReplicaClient polls beside it.  The two share   *)
(* the page index, the pending index, the page cache and the positions,    *)
(* and f.mu is free while either of them talks to the replica.             *)
(*                                                                         *)
(* The content of a page is the transaction that wrote it last.            *)
(***************************************************************************)
EXTENDS Integers, Sequences, FiniteSets, FiniteSetsExt

CONSTANTS
    MaxPage,    \* the largest database, in pages
    MaxTXID,    \* bound on the transactions of the primary
    CacheSize,  \* entries of the page cache
    MaxWrites,  \* bound on the pages a transaction writes beyond those it must
    MaxTravels  \* bound on the calls of SetTargetTime and ResetTime

ASSUME VFSReadAssumption ==
    /\ MaxPage \in Nat \ {0}
    /\ MaxTXID \in Nat \ {0}
    /\ CacheSize \in Nat \ {0}
    /\ MaxWrites \in Nat
    /\ MaxTravels \in Nat

Page == 1..MaxPage
TXID == 1..MaxTXID
SnapshotLevel == 9

\* A file of the replica.  Level 0 holds single transactions.
File == [level: {0, 1, SnapshotLevel}, min: TXID, max: TXID]

\* ltx.PageIndexElem: the file a page is read from.  An index is a function
\* on all pages, NoElem where the map has no key.
NoElem == [level |-> -1, min |-> 0, max |-> 0]
Index == [Page -> File \cup {NoElem}]
EmptyIndex == [p \in Page |-> NoElem]

Keys(idx) == {p \in Page : idx[p] # NoElem}
Overlay(idx, new) == [p \in Page |-> IF new[p] # NoElem THEN new[p] ELSE idx[p]]

VARIABLES
    hist,            \* the primary's transactions: pages written, size after
    files,           \* the LTX files of the replica
    index,           \* f.index
    pending,         \* f.pending
    pendingReplace,  \* f.pendingReplace
    cache,           \* f.cache: the cached content, 0 when not cached
    pos,             \* f.pos
    maxTXID1,        \* f.maxTXID1
    commit,          \* f.commit
    targetTime,      \* f.targetTime, 0 for nil
    lockType,        \* f.lockType
    conn,            \* SQLite's thread: its operation and what it has captured
    poll,            \* the poll in flight
    raced,           \* history: was a poll under way when an index was swapped in?
    travels          \* calls of SetTargetTime and ResetTime so far

replica == <<hist, files>>
view == <<index, pending, pendingReplace, cache>>
marks == <<pos, maxTXID1, commit, targetTime>>
vars == <<hist, files, index, pending, pendingReplace, cache, pos, maxTXID1,
          commit, targetTime, lockType, conn, poll, raced, travels>>

ConnIdle == [op |-> "idle", back |-> "idle", target |-> 0, infos |-> <<>>,
             pg |-> 0, elem |-> NoElem]
ConnClosed == [ConnIdle EXCEPT !.op = "closed"]
PollIdle == [pc |-> "idle", pos |-> 0, top0 |-> 0, max1 |-> 0, base |-> 0,
             combined |-> EmptyIndex, newCommit |-> 0, replace |-> FALSE]

-----------------------------------------------------------------------------
\* What the replica holds.

PagesOf(f) == {p \in 1..hist[f.max].commit : \E t \in f.min..f.max : p \in hist[t].pages}
CommitOf(f) == hist[f.max].commit

\* The content of page p in file f.
Content(p, f) == Max({t \in f.min..f.max : p \in hist[t].pages})

\* The last transaction up to t that wrote page p.
LastWrite(p, t) == Max({0} \cup {u \in 1..t : p \in hist[u].pages})

LTXFiles(level, seek) == {f \in files : f.level = level /\ f.min >= seek}

Level1Max == Max({0} \cup {f.max : f \in {g \in files : g.level = 1}})

\* CreatedAt, in the order of the transactions: a compacted file keeps the
\* age of its oldest transaction, a snapshot that of its newest.
CreatedAt(f) == IF f.level = SnapshotLevel THEN f.max ELSE f.min

\* The first transaction writes the whole database; Litestream takes a
\* snapshot of it.
Init ==
    /\ hist = <<[pages |-> Page, commit |-> MaxPage]>>
    /\ files = {[level |-> 0, min |-> 1, max |-> 1],
                [level |-> SnapshotLevel, min |-> 1, max |-> 1]}
    /\ index = EmptyIndex
    /\ pending = EmptyIndex
    /\ pendingReplace = FALSE
    /\ cache = [p \in Page |-> 0]
    /\ pos = 0
    /\ maxTXID1 = 0
    /\ commit = 0
    /\ targetTime = 0
    /\ lockType = "NONE"
    /\ conn = ConnClosed
    /\ poll = PollIdle
    /\ raced = FALSE
    /\ travels = 0

\* The primary uploads a transaction.  One that changes the size writes
\* page 1, which holds the size, and every page it adds.
Upload ==
    /\ Len(hist) < MaxTXID
    /\ \E size \in Page : \E pages \in SUBSET (1..size) \ {{}} :
          LET old  == hist[Len(hist)].commit
              t    == Len(hist) + 1
              must == IF size = old THEN {} ELSE {1} \cup ((old + 1)..size)
          IN  /\ must \subseteq pages /\ Cardinality(pages \ must) <= MaxWrites
              /\ hist' = Append(hist, [pages |-> pages, commit |-> size])
              /\ files' = files \cup {[level |-> 0, min |-> t, max |-> t]}
    /\ UNCHANGED <<view, marks, lockType, conn, poll, raced, travels>>

\* Compactor.Compact to level 1: every level-0 file beyond the last one.
Compact ==
    /\ Level1Max < Len(hist)
    /\ files' = files \cup {[level |-> 1, min |-> Level1Max + 1, max |-> Len(hist)]}
    /\ UNCHANGED <<hist, view, marks, lockType, conn, poll, raced, travels>>

\* Compactor.EnforceL0Retention: files compacted to level 1, oldest first,
\* never the newest file.
EnforceL0Retention ==
    /\ \E t \in 1..Min({Level1Max, Len(hist) - 1}) :
          /\ \E f \in files : f.level = 0 /\ f.max <= t
          /\ files' = {f \in files : f.level # 0 \/ f.max > t}
    /\ UNCHANGED <<hist, view, marks, lockType, conn, poll, raced, travels>>

-----------------------------------------------------------------------------
\* SQLite's thread: Open, SetTargetTime, ResetTime.  Each computes a restore
\* plan, fetches the page index of its files and swaps the new index in.

\* The files the target does not rule out.
Eligible(f, target) == target # 0 => CreatedAt(f) < target

\* The next file of a plan that has reached cur: the one that ends last, the
\* higher level of two.
NextFile(candidates) ==
    CHOOSE f \in candidates : \A g \in candidates :
        f.max > g.max \/ (f.max = g.max /\ f.level >= g.level)

\* The files below the snapshots that continue a plan that has reached cur.
Extending(listed, cur) ==
    {f \in listed : f.level # SnapshotLevel /\ f.min <= cur + 1 /\ f.max > cur}

\* The rest of a plan that has reached start.
PlanFrom(listed, start) ==
    LET chain[cur \in 0..MaxTXID] ==
            IF Extending(listed, cur) = {} THEN <<>>
            ELSE LET f == NextFile(Extending(listed, cur)) IN <<f>> \o chain[f.max]
    IN  chain[start]

\* CalcRestorePlan over the listed files, starting from the snapshot.
Plan(listed) ==
    LET snapshots == {f \in listed : f.level = SnapshotLevel}
    IN  IF snapshots = {} THEN PlanFrom(listed, 0)
        ELSE LET s == NextFile(snapshots) IN <<s>> \o PlanFrom(listed, s.max)

LastMax(infos) == infos[Len(infos)].max

\* CalcRestorePlan lists the replica in one step.  No plan is an error; a
\* listing torn by retention, which fails or gives a shorter plan, is one of
\* CallFails or of an earlier target.
Begin(back, target) ==
    LET infos == Plan({f \in files : Eligible(f, target)})
    IN  /\ infos # <<>>
        /\ conn' = [ConnIdle EXCEPT !.op = "fetch", !.back = back, !.target = target,
                                    !.infos = infos]
        /\ UNCHANGED <<replica, view, marks, lockType, poll, raced>>

\* VFSFile.Open of a new file.
Open == conn.op = "closed" /\ Begin("closed", 0) /\ UNCHANGED travels

\* litestream_set_time(timestamp), or PRAGMA litestream_time, and the
\* same with LATEST: with or without the SHARED lock.
Travel(t) ==
    /\ conn.op = "idle" /\ travels < MaxTravels
    /\ travels' = travels + 1
    /\ Begin("idle", t)

SetTargetTime == \E t \in TXID : Travel(t)
ResetTime == Travel(0)

\* buildIndexMap: the last file of the plan that has the page wins.
IndexOf(infos) ==
    [p \in Page |->
        LET having == {i \in DOMAIN infos : p \in PagesOf(infos[i])}
        IN  IF having = {} THEN NoElem ELSE infos[Max(having)]]

\* buildIndexMap reads every file of the plan, and then sets f.commit alone.
BuildIndexMap ==
    /\ conn.op = "fetch"
    /\ \A i \in DOMAIN conn.infos : conn.infos[i] \in files
    /\ commit' = CommitOf(conn.infos[Len(conn.infos)])
    /\ conn' = [conn EXCEPT !.op = "swap"]
    /\ UNCHANGED <<replica, view, pos, maxTXID1, targetTime, lockType, poll, raced, travels>>

\* A request fails, a file of the plan has been deleted among the reasons.
CallFails ==
    /\ conn.op = "fetch"
    /\ conn' = [ConnIdle EXCEPT !.op = conn.back]
    /\ UNCHANGED <<replica, view, marks, lockType, poll, raced, travels>>

MaxLevelTXID(infos, level) ==
    Max({0} \cup {infos[i].max : i \in {j \in DOMAIN infos : infos[j].level = level}})

\* The end of rebuildIndex, under f.mu.  SQLite reads the header of a file it
\* has just opened before it takes a lock.
RebuildIndex ==
    /\ conn.op = "swap"
    /\ index' = IndexOf(conn.infos)
    /\ pending' = EmptyIndex
    /\ pendingReplace' = FALSE
    /\ cache' = [p \in Page |-> 0]
    /\ pos' = LastMax(conn.infos)
    /\ LET m == MaxLevelTXID(conn.infos, 1)
       IN  maxTXID1' = IF m = 0 THEN LastMax(conn.infos) ELSE m
    /\ targetTime' = conn.target
    /\ conn' = [ConnIdle EXCEPT !.op = IF conn.back = "closed" THEN "opened" ELSE "idle"]
    /\ raced' = (raced \/ poll.pc # "idle")
    /\ UNCHANGED <<replica, commit, lockType, poll, travels>>

-----------------------------------------------------------------------------
\* SQLite's thread: locks and reads.

Lock ==
    /\ conn.op = "idle" /\ lockType = "NONE"
    /\ lockType' = "SHARED"
    /\ UNCHANGED <<replica, view, marks, conn, poll, raced, travels>>

\* Mutants: the pending index is applied and kept, is dropped, or leaves the
\* cached pages as they are.
Unlock_KeepsPending ==
    /\ conn.op = "idle" /\ lockType = "SHARED"
    /\ lockType' = "NONE"
    /\ index' = IF pendingReplace THEN pending ELSE Overlay(index, pending)
    /\ cache' = [p \in Page |-> 0]
    /\ UNCHANGED <<replica, pending, pendingReplace, marks, conn, poll, raced, travels>>

Unlock_DropsPending ==
    /\ conn.op = "idle" /\ lockType = "SHARED"
    /\ lockType' = "NONE"
    /\ pending' = EmptyIndex
    /\ pendingReplace' = FALSE
    /\ UNCHANGED <<replica, index, cache, marks, conn, poll, raced, travels>>

Unlock_KeepsCache ==
    /\ conn.op = "idle" /\ lockType = "SHARED"
    /\ lockType' = "NONE"
    /\ index' = IF pendingReplace THEN pending ELSE Overlay(index, pending)
    /\ pending' = EmptyIndex
    /\ pendingReplace' = FALSE
    /\ UNCHANGED <<replica, cache, marks, conn, poll, raced, travels>>

\* Unlock applies what polls have left in the pending index.
Unlock ==
    /\ conn.op = "idle" /\ lockType = "SHARED"
    /\ lockType' = "NONE"
    /\ index' = IF pendingReplace THEN pending ELSE Overlay(index, pending)
    /\ cache' = [p \in Page |-> IF pendingReplace \/ p \in Keys(pending) THEN 0 ELSE cache[p]]
    /\ pending' = EmptyIndex
    /\ pendingReplace' = FALSE
    /\ UNCHANGED <<replica, marks, conn, poll, raced, travels>>

\* ReadAt misses the cache and takes the element of the index.  A hit, or a
\* page the index does not have, changes nothing.
ReadAt(p) ==
    /\ cache[p] = 0 /\ index[p] # NoElem
    /\ conn' = [ConnIdle EXCEPT !.op = "read", !.pg = p, !.elem = index[p]]
    /\ UNCHANGED <<replica, view, marks, lockType, poll, raced, travels>>

ReadPage == conn.op = "idle" /\ lockType = "SHARED" /\ \E p \in Page : ReadAt(p)
ReadHeader == conn.op = "opened" /\ ReadAt(1)

\* The page arrives and is cached; a full cache drops another one.
ReadDone ==
    /\ conn.op = "read" /\ conn.elem \in files
    /\ LET cached == {p \in Page : cache[p] # 0}
           added  == [cache EXCEPT ![conn.pg] = Content(conn.pg, conn.elem)]
       IN  IF Cardinality(cached \ {conn.pg}) < CacheSize THEN cache' = added
           ELSE \E q \in cached \ {conn.pg} : cache' = [added EXCEPT ![q] = 0]
    /\ conn' = ConnIdle
    /\ UNCHANGED <<replica, index, pending, pendingReplace, marks, lockType, poll, raced, travels>>

\* The retries are used up, because the file has been deleted or otherwise.
\* (SQLite closes a file whose header it cannot read; the model lets it go on.)
ReadFails ==
    /\ conn.op = "read"
    /\ conn' = ConnIdle
    /\ UNCHANGED <<replica, view, marks, lockType, poll, raced, travels>>

-----------------------------------------------------------------------------
\* monitorReplicaClient's thread.

IsOpen == conn.op # "closed" /\ pos # 0

\* pollReplicaClient takes the position; not while a target time is set.
PollStart ==
    /\ IsOpen /\ poll.pc = "idle" /\ targetTime = 0
    /\ poll' = [PollIdle EXCEPT !.pc = "level0", !.pos = pos]
    /\ UNCHANGED <<replica, view, marks, lockType, conn, raced, travels>>

\* The listed files that start right behind t.
Following(listed, t) == {f \in listed : f.min = t + 1}

\* The listed files from prev up to the first gap.
Contiguous(listed, prev) ==
    LET chain[t \in 0..MaxTXID] ==
            IF Following(listed, t) = {} THEN <<>>
            ELSE LET f == NextFile(Following(listed, t)) IN <<f>> \o chain[f.max]
    IN  chain[prev]

\* pollLevel: the contiguous files after prev.  A file smaller than what came
\* before discards the pages collected so far and asks for the whole index to
\* be replaced.  Files behind a gap end the listing at level 0 and are an
\* error at level 1.
PollLevel(level, prev, base) ==
    LET avail == LTXFiles(level, prev + 1)
        infos == Contiguous(avail, prev)
        sizeBefore(i) == IF i = 1 THEN base ELSE CommitOf(infos[i - 1])
        shrinks == {i \in DOMAIN infos : CommitOf(infos[i]) < sizeBefore(i)}
    IN  [ok      |-> level = 0 \/ Len(infos) = Cardinality(avail),
         max     |-> IF infos = <<>> THEN prev ELSE LastMax(infos),
         idx     |-> IndexOf(SubSeq(infos, Max({1} \cup shrinks), Len(infos))),
         commit  |-> IF infos = <<>> THEN base ELSE CommitOf(infos[Len(infos)]),
         replace |-> shrinks # {}]

\* The first half of pollReplicaClient: f.commit and f.maxTXID1 are read under
\* the lock, then level 0 is listed.
PollL0 ==
    /\ poll.pc = "level0"
    /\ LET r == PollLevel(0, poll.pos, commit)
       IN  poll' = [poll EXCEPT !.pc = "level1", !.pos = 0, !.top0 = r.max, !.max1 = maxTXID1,
                                !.base = IF r.replace \/ Keys(r.idx) # {} THEN r.commit ELSE commit,
                                !.combined = r.idx,
                                !.newCommit = IF r.replace THEN r.commit ELSE Max({commit, r.commit}),
                                !.replace = r.replace]
    /\ UNCHANGED <<replica, view, marks, lockType, conn, raced, travels>>

\* The second half: what level 1 has since f.maxTXID1 goes on top.
PollL1 ==
    /\ poll.pc = "level1"
    /\ LET r == PollLevel(1, poll.max1, poll.base)
       IN  poll' = IF ~r.ok THEN PollIdle
                   ELSE [poll EXCEPT !.pc = "apply", !.max1 = r.max, !.base = 0,
                            !.combined = IF r.replace THEN r.idx ELSE Overlay(poll.combined, r.idx),
                            !.newCommit = IF r.replace THEN r.commit
                                          ELSE Max({poll.newCommit, r.commit}),
                            !.replace = poll.replace \/ r.replace]
    /\ UNCHANGED <<replica, view, marks, lockType, conn, raced, travels>>

\* A request of the poll fails; nothing is applied.
PollFails ==
    /\ poll.pc \in {"level0", "level1"}
    /\ poll' = PollIdle
    /\ UNCHANGED <<replica, view, marks, lockType, conn, raced, travels>>

\* Mutant: whether a reader holds its lock is not asked.
ApplyPages_Unlocked ==
    /\ index' = IF poll.replace THEN poll.combined ELSE Overlay(index, poll.combined)
    /\ cache' = [p \in Page |-> IF p \in Keys(poll.combined) THEN 0 ELSE cache[p]]
    /\ pendingReplace' = FALSE
    /\ UNCHANGED pending

\* The new entries go to the pending index while a reader holds its lock, and
\* to the index, with the cached pages dropped, when there is none.
ApplyPages ==
    LET old == IF lockType = "SHARED" THEN pending ELSE index
        new == IF poll.replace THEN poll.combined ELSE Overlay(old, poll.combined)
    IN  IF lockType = "SHARED"
        THEN /\ pending' = new
             /\ pendingReplace' = (pendingReplace \/ poll.replace)
             /\ UNCHANGED <<index, cache>>
        ELSE /\ index' = new
             /\ cache' = [p \in Page |-> IF p \in Keys(poll.combined) THEN 0 ELSE cache[p]]
             /\ pendingReplace' = FALSE
             /\ UNCHANGED pending

\* Mutant: the target time is only looked at before the poll.
PollApply_NoTargetCheck ==
    /\ poll.pc = "apply"
    /\ poll' = PollIdle
    /\ ApplyPages
    /\ pos' = Max({poll.top0, poll.max1})
    /\ maxTXID1' = poll.max1
    /\ UNCHANGED <<replica, commit, targetTime, lockType, conn, raced, travels>>

\* The end of pollReplicaClient, under f.mu.
PollApply ==
    /\ poll.pc = "apply"
    /\ poll' = PollIdle
    /\ IF targetTime # 0 THEN UNCHANGED <<view, marks>>
       ELSE /\ ApplyPages
            /\ commit' = IF \/ poll.replace
                            \/ Keys(poll.combined) # {} /\ poll.newCommit > commit
                         THEN poll.newCommit ELSE commit
            /\ pos' = Max({poll.top0, poll.max1})
            /\ maxTXID1' = poll.max1
            /\ UNCHANGED targetTime
    /\ UNCHANGED <<replica, lockType, conn, raced, travels>>

-----------------------------------------------------------------------------
Next ==
    \/ Upload \/ Compact \/ EnforceL0Retention
    \/ Open \/ SetTargetTime \/ ResetTime \/ BuildIndexMap
    \/ CallFails \/ RebuildIndex
    \/ Lock \/ Unlock \/ ReadPage \/ ReadHeader \/ ReadDone \/ ReadFails
    \/ PollStart \/ PollL0 \/ PollL1 \/ PollFails \/ PollApply

Spec == Init /\ [][Next]_vars

-----------------------------------------------------------------------------
\* Shape of the fields of VFSFile.  Pending entries exist only under a lock:
\* Unlock has merged them.
TypeOK ==
    /\ hist \in Seq([pages: SUBSET Page, commit: Page])
    /\ files \subseteq File
    /\ index \in Index /\ pending \in Index /\ pendingReplace \in BOOLEAN
    /\ cache \in [Page -> {0} \cup TXID]
    /\ pos \in {0} \cup TXID /\ maxTXID1 \in {0} \cup TXID
    /\ commit \in {0} \cup Page /\ targetTime \in {0} \cup TXID
    /\ lockType \in {"NONE", "SHARED"}
    /\ raced \in BOOLEAN /\ travels \in 0..MaxTravels
    /\ pending # EmptyIndex => lockType = "SHARED"

\* What SQLite reads for page p, 0 when the index does not have it.
Seen(p) ==
    IF cache[p] # 0 THEN cache[p]
    ELSE IF index[p] # NoElem THEN Content(p, index[p]) ELSE 0

\* Cached pages that are not what the index would give.
Stale == {p \in Page : cache[p] # 0 /\ index[p] # NoElem /\ cache[p] # Content(p, index[p])}

\* A transaction that holds the SHARED lock sees one state of every indexed page,
\* whatever polls, evictions and refetches happen meanwhile.  Only its own
\* change of the target time, and dropping a stale page, may alter it.
Isolation ==
    [][(lockType = "SHARED" /\ lockType' = "SHARED" /\ conn.op # "swap")
        => \A p \in Keys(index) \ Stale : Seen(p)' = Seen(p)]_vars

\* The page cache never keeps a page the index has replaced, although pages
\* are fetched without the lock.  Page 1 is the exception: SQLite reads the
\* header of a new file before it takes a lock, and a poll may replace page 1
\* in the index while that read is under way.
CacheAgrees == Stale \subseteq {1}

\* The index the next transaction will see.
Merged == IF pendingReplace THEN pending ELSE Overlay(index, pending)

\* The pages the database has had all along.
Lasting == 1..Min({hist[t].commit : t \in DOMAIN hist})

\* No page of it is older than the level-1 files the connection has taken in,
\* however polls, locks and calls that set the time interleave, as long as no
\* index is swapped in under a poll: such a poll goes on to apply its positions
\* to an index that may lack what an earlier poll had added.  (The same is not
\* true of f.pos, as level 1 is laid over newer level-0 pages, nor of pages the
\* database has dropped, which the index keeps.)
NotOlderThanLevel1 ==
    maxTXID1 # 0 /\ ~raced =>
        \A p \in Lasting :
            Merged[p] # NoElem => Content(p, Merged[p]) >= LastWrite(p, maxTXID1)

\* While a target time is set the connection sees exactly the state at f.pos,
\* the end of its restore plan: a poll under way when the time was set, or
\* pages it had left pending, do not leak into it.
HistoricalIsExact ==
    targetTime # 0 =>
        /\ pending = EmptyIndex
        /\ \A p \in 1..hist[pos].commit :
              p \notin Stale /\ Seen(p) = LastWrite(p, pos)

=============================================================================
