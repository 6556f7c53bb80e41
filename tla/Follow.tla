------------------------------- MODULE Follow -------------------------------
(***************************************************************************)
(* Follow mode (replica.go): a process restores a database, records the    *)
(* transaction it has reached in <db>-txid, and then polls the replica and *)
(* applies new files to the database in place, page by page.  Meanwhile    *)
(* the replica goes on: uploads, compaction and retention move the files   *)
(* under the follower.                                                     *)
(*                                                                         *)
(* A page holds the TXID of its last writer, 0 for garbage.  A database is *)
(* the sequence of its pages.                                              *)
(***************************************************************************)
EXTENDS Integers, Sequences, FiniteSetsExt

CONSTANTS
    MaxTXID,     \* bound on the transactions
    MaxPage,     \* bound on the size of the database
    MaxLevel,    \* compaction levels are 0..MaxLevel
    Corruptible, \* levels whose files may arrive corrupt
    MaxTrouble   \* bound on failed requests, corrupt transfers and crashes

ASSUME FollowBounds ==
    /\ MaxTXID \in Nat \ {0} /\ MaxPage \in Nat \ {0} /\ MaxLevel \in Nat \ {0}
    /\ Corruptible \subseteq 0..MaxLevel
    /\ MaxTrouble \in Nat

VARIABLES
    hist,    \* the committed databases; hist[t] is the one after TXID t
    files,   \* the files of the replica
    db,      \* the followed database as readers see it
    disk,    \* what of it is on stable storage
    side,    \* the TXID in <db>-txid, 0 without the file
    pc,      \* "down", "published", "idle", "scan", "fill", "apply", "close"
    last,    \* lastTXID of follow
    poll,    \* locals of applyNewLTXFiles and fillFollowGap
    app,     \* locals of applyLTXFile
    high,    \* highest TXID the follower ever began to apply
    spoilt,  \* ghost: pages that a corrupt file overwrote with garbage although
             \* they are older than what was left to apply
    trouble  \* failed requests, corrupt transfers and crashes so far

replica == <<hist, files>>
output == <<db, disk, side>>
vars == <<hist, files, db, disk, side, pc, last, poll, app, high, spoilt, trouble>>

SnapshotLevel == MaxLevel + 1
NoDB == <<>>
Newest == Len(hist)

\* cur: currentTXID; l0, up: what the iterators have yet to yield; saw:
\* sawLevel0; lvl, from, gap: the level, afterTXID and gapMinTXID of
\* fillFollowGap, the last kept after it returns.
NoPoll == [cur |-> 0, l0 |-> {}, up |-> {}, saw |-> FALSE, lvl |-> 0, gap |-> 0, from |-> 0]

\* file: being applied; todo: its pages that are left; bad: was a page
\* corrupted on the way; ret: the loop that called applyLTXFile.
NoApply == [file |-> [level |-> 0, min |-> 1, max |-> 1], todo |-> {}, bad |-> FALSE, ret |-> "scan"]

\* The pages in a file: those last written by one of its transactions.
Pages(f) == {p \in 1..Len(hist[f.max]) : hist[f.max][p] >= f.min}

AtLevel(l) == {f \in files : f.level = l}
MaxAt(l) == Max({f.max : f \in AtLevel(l)} \cup {0})

\* The first file of a listing.
First(S) == CHOOSE f \in S : \A g \in S : f.min < g.min \/ (f.min = g.min /\ f.max <= g.max)

Init ==
    /\ hist = <<[p \in 1..MaxPage |-> 1]>>
    /\ files = {[level |-> 0, min |-> 1, max |-> 1]}
    /\ db = NoDB /\ disk = NoDB /\ side = 0
    /\ pc = "down" /\ last = 0 /\ poll = NoPoll /\ app = NoApply
    /\ high = 0 /\ spoilt = {} /\ trouble = 0

-----------------------------------------------------------------------------
(* The replica, driven by another process.                                 *)

\* A transaction is committed and uploaded; a change of the size of the
\* database writes page 1.
Commit ==
    /\ Newest < MaxTXID
    /\ \E n \in 1..MaxPage : \E W \in SUBSET (1..n) \ {{}} :
          LET old == hist[Newest] IN
          /\ n # Len(old) => {1} \cup ((Len(old) + 1)..n) \subseteq W
          /\ hist' = Append(hist, [p \in 1..n |-> IF p \in W THEN Newest + 1 ELSE old[p]])
    /\ files' = files \cup {[level |-> 0, min |-> Newest + 1, max |-> Newest + 1]}
    /\ UNCHANGED <<output, pc, last, poll, app, high, spoilt, trouble>>

\* Compactor.Compact, into level l.
Compact(l) ==
    LET src == {f \in AtLevel(l - 1) : f.min > MaxAt(l)}
    IN  /\ src # {}
        /\ files' = files \cup {[level |-> l, min |-> Min({f.min : f \in src}),
                                              max |-> Max({f.max : f \in src})]}
        /\ UNCHANGED <<hist, output, pc, last, poll, app, high, spoilt, trouble>>

\* EnforceL0Retention: the files up to TXID n are old enough.
EnforceL0Retention ==
    /\ \E n \in 1..Newest :
          LET old  == {f \in AtLevel(0) : f.max <= n}
              kept == IF old = AtLevel(0) THEN {f \in old : f.max = MaxAt(0)} ELSE {}
              del  == {f \in old : f.max <= MaxAt(1)} \ kept
          IN  del # {} /\ files' = files \ del
    /\ UNCHANGED <<hist, output, pc, last, poll, app, high, spoilt, trouble>>

\* DB.Snapshot
Snapshot ==
    /\ MaxAt(SnapshotLevel) < Newest
    /\ files' = files \cup {[level |-> SnapshotLevel, min |-> 1, max |-> Newest]}
    /\ UNCHANGED <<hist, output, pc, last, poll, app, high, spoilt, trouble>>

\* DB.EnforceSnapshotRetention when the snapshots up to TXID n are expired:
\* what is deleted, the newest snapshot never, and the lowest TXID of the
\* snapshots that are not expired, 0 if all are.
ExpiredSnapshots(n) == {f \in AtLevel(SnapshotLevel) : f.max <= n /\ f.max # MaxAt(SnapshotLevel)}
MinSnapshotTXID(n) ==
    LET held == {f.max : f \in {g \in AtLevel(SnapshotLevel) : g.max > n}}
    IN  IF held = {} THEN 0 ELSE Min(held)

\* EnforceRetentionByTXID: what is deleted of a level, its newest file never.
BelowTXID(l, t) == {f \in AtLevel(l) : f.max < t /\ f.max # MaxAt(l)}

\* Store.EnforceSnapshotRetention: snapshots, and then every level but 0.
EnforceSnapshotRetention ==
    /\ \E n \in 0..Newest :
          LET below == UNION {BelowTXID(l, MinSnapshotTXID(n)) : l \in 1..MaxLevel}
              del   == ExpiredSnapshots(n) \cup below
          IN  del # {} /\ files' = files \ del
    /\ UNCHANGED <<hist, output, pc, last, poll, app, high, spoilt, trouble>>

-----------------------------------------------------------------------------
(* The follower.                                                           *)

\* The state CalcRestorePlan leads to: the last one the files cover.
Restorable == {n \in 1..Newest : \A t \in 1..n : \E f \in files : f.min <= t /\ t <= f.max /\ f.max <= n}

\* Restore, no database there: decode into a temporary file, sync it, rename
\* it and check it.  The new name is not on stable storage yet.
Restore ==
    /\ pc = "down"
    /\ db = NoDB
    /\ Restorable # {}
    /\ last' = Max(Restorable)
    /\ \A f \in files : f.max <= last'   \* else CalcRestorePlan finds a gap
    /\ db' = hist[last']
    /\ high' = Max({high, last'})
    /\ pc' = "published"
    /\ UNCHANGED <<replica, disk, side, poll, app, spoilt, trouble>>

\* WriteTXIDFile after the restore: the file and the directory are synced.
WriteFirstTXID ==
    /\ pc = "published"
    /\ side' = last
    /\ disk' = db
    /\ pc' = "idle"
    /\ UNCHANGED <<replica, db, last, poll, app, high, spoilt, trouble>>

\* Restore finds a database and will not follow it: there is no -txid file,
\* or the newest snapshot, which starts at TXID 1, does not reach the TXID
\* in it.
Refused ==
    /\ db # NoDB
    /\ \/ side = 0
       \/ AtLevel(SnapshotLevel) # {} /\ side > MaxAt(SnapshotLevel)

ResumeRefused == pc = "down" /\ Refused /\ UNCHANGED vars

\* Restore resumes from the -txid file.
Resume ==
    /\ pc = "down"
    /\ db # NoDB
    /\ ~Refused
    /\ last' = side
    /\ pc' = "idle"
    /\ UNCHANGED <<replica, output, poll, app, high, spoilt, trouble>>

\* The ticker: applyNewLTXFiles lists level 0.
PollStart ==
    /\ pc = "idle"
    /\ poll' = [NoPoll EXCEPT !.cur = last, !.l0 = {f \in AtLevel(0) : f.min >= last + 1}]
    /\ pc' = "scan"
    /\ UNCHANGED <<replica, output, last, app, high, spoilt, trouble>>

\* The files of a listing that are not covered yet.
Needed(S) == {f \in S : f.max > poll.cur}

\* The listing of level 0 goes on behind a gap.
Gap == Needed(poll.l0) # {} /\ \A f \in Needed(poll.l0) : f.min > poll.cur + 1

\* The higher levels were already asked for what comes before it.
Tried == poll.gap = First(Needed(poll.l0)).min

\* applyNewLTXFiles asks the higher levels: before a gap, or when level 0
\* had nothing at all.
FillStart ==
    /\ pc = "scan"
    /\ \/ Gap /\ ~Tried
       \/ poll.l0 = {} /\ ~poll.saw
    /\ poll' = [poll EXCEPT !.saw = TRUE, !.lvl = 1, !.up = AtLevel(1), !.from = poll.cur,
                            !.gap = IF Gap THEN First(Needed(poll.l0)).min ELSE poll.cur + 1]
    /\ pc' = "fill"
    /\ UNCHANGED <<replica, output, last, app, high, spoilt, trouble>>

\* fillFollowGap returns.
FillDone(pl) == [pl EXCEPT !.lvl = 0, !.up = {}, !.from = 0]

\* A file is opened to be applied, if it is still there; otherwise the poll
\* fails and what it has applied is not recorded.
Open(f, ret, next) ==
    /\ IF f \in files
       THEN /\ app' = [file |-> f, todo |-> Pages(f), bad |-> FALSE, ret |-> ret]
            /\ high' = Max({high, f.max})
            /\ pc' = "apply"
            /\ poll' = next
       ELSE UNCHANGED <<app, high>> /\ poll' = NoPoll /\ pc' = "idle"
    /\ UNCHANGED <<replica, output, last, spoilt, trouble>>

\* applyNewLTXFiles applies the next file of level 0.
ScanApply ==
    /\ pc = "scan"
    /\ Needed(poll.l0) # {}
    /\ ~Gap
    /\ LET f == First(Needed(poll.l0))
       IN  Open(f, "scan", [poll EXCEPT !.l0 = Needed(@) \ {f}, !.saw = TRUE])

\* applyNewLTXFiles returns without an error, and follow records the TXID.
PollDone ==
    /\ pc = "scan"
    /\ \/ Needed(poll.l0) = {} /\ (poll.saw \/ poll.l0 # {})
       \/ Gap /\ Tried
    /\ last' = poll.cur
    /\ side' = IF poll.cur > last THEN poll.cur ELSE side
    /\ poll' = NoPoll
    /\ pc' = "idle"
    /\ UNCHANGED <<replica, db, disk, app, high, spoilt, trouble>>

\* Mutant: a file that starts right behind the current TXID is a gap.
Fits_OffByOne(f) == f.min < poll.cur + 1

\* The next file of a level leaves no gap.
Fits(f) == f.min <= poll.cur + 1

\* fillFollowGap applies the next file of the level.
FillApply ==
    /\ pc = "fill"
    /\ Needed(poll.up) # {}
    /\ LET f == First(Needed(poll.up))
       IN  /\ Fits(f)
           /\ Open(f, "fill", [poll EXCEPT !.up = Needed(@) \ {f}])

\* The level has nothing more to offer: return if it made progress, else
\* try the next one.
FillNext ==
    /\ pc = "fill"
    /\ ~\E f \in Needed(poll.up) : Fits(f)
    /\ IF poll.cur = poll.from /\ poll.lvl < MaxLevel
       THEN poll' = [poll EXCEPT !.lvl = @ + 1, !.up = AtLevel(poll.lvl + 1)] /\ UNCHANGED pc
       ELSE poll' = FillDone(poll) /\ pc' = "scan"
    /\ UNCHANGED <<replica, output, last, app, high, spoilt, trouble>>

\* A database of n pages with page p replaced; pages never written are 0.
Put(d, p, v, n) ==
    [q \in 1..n |-> IF q = p THEN v ELSE IF q <= Len(d) THEN d[q] ELSE 0]

\* applyLTXFile writes the next page, under an exclusive lock.  What arrives
\* may be corrupt, which only the decoder's Close will tell.
WritePage ==
    /\ pc = "apply"
    /\ app.todo # {}
    /\ LET p == Min(app.todo)
       IN  \E ok \in BOOLEAN :
              /\ ~ok => trouble < MaxTrouble /\ app.file.level \in Corruptible
              /\ trouble' = IF ok THEN trouble ELSE trouble + 1
              /\ db' = Put(db, p, IF ok THEN hist[app.file.max][p] ELSE 0, Max({p, Len(db)}))
              /\ app' = [app EXCEPT !.todo = @ \ {p}, !.bad = @ \/ ~ok]
              /\ spoilt' = IF ok \/ hist[app.file.max][p] > poll.cur THEN spoilt ELSE spoilt \cup {p}
    /\ UNCHANGED <<replica, disk, side, pc, last, poll, high>>

\* All pages are written: truncate.  What the file's checksum says is not
\* known yet.
Truncate ==
    /\ pc = "apply"
    /\ app.todo = {}
    /\ db' = Put(db, 0, 0, Len(hist[app.file.max]))
    /\ pc' = "close"
    /\ UNCHANGED <<replica, disk, side, last, poll, app, high, spoilt, trouble>>

\* Mutant: the decoder is not closed.
Intact_Unchecked == TRUE

\* dec.Close: the checksum of the file.
Intact == ~app.bad

\* Mutant: the database is not synced.
Synced_Never(d) == disk

\* f.Sync
Synced(d) == d

\* currentTXID once a file is applied.
After(f) == f.max

\* The end of applyLTXFile: close the decoder, sync, unlock.  In fillFollowGap
\* a file that closes the gap ends the search.
FinishFile ==
    /\ pc = "close"
    /\ app' = NoApply
    /\ IF Intact
       THEN LET next == [poll EXCEPT !.cur = After(app.file)]
            IN  /\ disk' = Synced(db)
                /\ IF app.ret = "fill" /\ next.cur + 1 < poll.gap
                   THEN poll' = next /\ pc' = "fill"
                   ELSE poll' = FillDone(next) /\ pc' = "scan"
       ELSE UNCHANGED disk /\ poll' = NoPoll /\ pc' = "idle"
    /\ UNCHANGED <<replica, db, side, last, high, spoilt, trouble>>

\* A request, or a call on the file, fails: the poll returns an error and the
\* next tick starts over.
PollFails ==
    /\ pc \in {"scan", "fill", "apply", "close"}
    /\ trouble < MaxTrouble
    /\ trouble' = trouble + 1
    /\ pc' = "idle"
    /\ poll' = NoPoll /\ app' = NoApply
    /\ UNCHANGED <<replica, output, last, high, spoilt>>

\* What a crash of the machine can leave of the database: any mixture of
\* what was written and what was synced; a new name may be lost.
AfterCrash ==
    IF disk = NoDB THEN {db, NoDB}
    ELSE UNION {{d \in [1..n -> 0..MaxTXID] :
                    \A p \in 1..n : \/ p <= Len(db) /\ d[p] = db[p]
                                    \/ p <= Len(disk) /\ d[p] = disk[p]
                                    \/ p > Len(disk) /\ d[p] = 0}
                : n \in {Len(db), Len(disk)}}

Crash ==
    /\ pc # "down"
    /\ trouble < MaxTrouble
    /\ trouble' = trouble + 1
    /\ db' \in AfterCrash
    /\ disk' = db'
    /\ pc' = "down"
    /\ last' = 0 /\ poll' = NoPoll /\ app' = NoApply
    /\ UNCHANGED <<replica, side, high, spoilt>>

Follower ==
    \/ Restore \/ WriteFirstTXID \/ Resume \/ ResumeRefused \/ PollStart \/ FillStart \/ ScanApply \/ PollDone
    \/ FillApply \/ FillNext \/ WritePage \/ Truncate \/ FinishFile

Replica ==
    \/ Commit \/ (\E l \in 1..MaxLevel : Compact(l))
    \/ EnforceL0Retention \/ Snapshot \/ EnforceSnapshotRetention

Next == Follower \/ Replica \/ PollFails \/ Crash

Spec == Init /\ [][Next]_vars

\* The follower's process is scheduled and its ticker keeps firing.
FairSpec == Spec /\ WF_vars(Follower)

-----------------------------------------------------------------------------
(* Properties.                                                             *)

\* The TXID the follower has reached.
Reached ==
    CASE pc = "down" -> side
      [] pc \in {"published", "idle"} -> last
      [] OTHER -> poll.cur

\* Once the follower has reached everything it ever began to apply, the
\* database is exactly the committed one: whatever mixture failed polls,
\* corrupt files and crashes left behind is repaired on the way, although
\* other files may be applied the second time.  One thing is not repaired, and
\* spoilt names it page by page: garbage that a corrupt file of a higher level
\* put over a page which nothing that is still to be applied has to contain.
ExactWhenCaughtUp ==
    db # NoDB /\ Reached > 0 /\ Reached >= high =>
        /\ Len(db) = Len(hist[Reached])
        /\ \A p \in 1..Len(db) : db[p] = hist[Reached][p] \/ p \in spoilt

\* The -txid file never promises more than the database has on stable
\* storage: no page is older than in the recorded state.
NeverOlderThanRecorded ==
    side > 0 =>
        \A p \in 1..Len(hist[side]) :
            p <= Len(disk) => disk[p] = 0 \/ disk[p] >= hist[side][p]

\* Nothing on the replica continues from where the follower is.
Pruned == ~\E f \in files : f.level <= MaxLevel /\ f.min <= last + 1 /\ f.max > last

\* The follower reaches the last transaction, unless it may not resume or
\* retention has deleted what it needs.
KeepsFollowing == <>[]((pc = "down" /\ Refused) \/ last = Newest \/ Pruned)

-----------------------------------------------------------------------------
(* What is asked of a follower and not kept.                               *)

\* "The database bytes and recorded TXID visible before the poll must remain
\* unchanged if any member is corrupt, truncated, cancelled, or missing": the
\* pages are written in place, one by one, before the file is known to be
\* good and before the poll is known to succeed.
PollIsAtomic == pc = "idle" => db = hist[side]

\* "A corrected retry after failure must still succeed": a follower that has
\* caught up holds the committed database.  The retry may find the same
\* transactions in other files, which do not contain the page that was spoilt.
RetrySucceeds == db # NoDB /\ Reached > 0 /\ Reached >= high => db = hist[Reached]

=============================================================================
