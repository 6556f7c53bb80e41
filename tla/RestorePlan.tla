---------------------------- MODULE RestorePlan ----------------------------
(***************************************************************************)
(* CalcRestorePlan (replica.go): which files of the replica, and in which  *)
(* order, rebuild the database at a transaction ID, before a time, or at   *)
(* its latest state.  One cursor per compaction level walks the listing of *)
(* that level, in the order of the file names, and keeps one candidate;    *)
(* the loop takes the best candidate of all levels.                        *)
(***************************************************************************)
EXTENDS Integers, Sequences, FiniteSetsExt

CONSTANTS
    MaxTXID,     \* the replica holds transactions 1..MaxTXID
    MaxLevel,    \* compaction levels are 0..MaxLevel
    MaxUpper     \* bound on the files above level 0, snapshots left aside

ASSUME PlanBounds == MaxTXID \in Nat /\ MaxLevel \in Nat /\ MaxUpper \in Nat

Level == 0..MaxLevel
TXIDs == 1..MaxTXID

\* The snapshot level stands above every other.
SnapshotLevel == MaxLevel + 1

\* at is CreatedAt, in the order of the transactions.
FileInfo == [level: 0..SnapshotLevel, min: TXIDs, max: TXIDs, at: TXIDs]

\* Level 0 holds single transactions, a compacted file the age of its oldest
\* transaction, a snapshot everything up to the time it was taken.
L0Files == {[level |-> 0, min |-> t, max |-> t, at |-> t] : t \in TXIDs}
SnapshotFiles == {[level |-> SnapshotLevel, min |-> 1, max |-> t, at |-> t] : t \in TXIDs}
UpperFiles ==
    {[level |-> x[1], min |-> x[2], max |-> x[3], at |-> x[2]] :
        x \in {y \in (Level \ {0}) \X TXIDs \X TXIDs : y[2] <= y[3]}}

\* At most MaxUpper compacted files.
UpperSets == UNION {kSubset(k, UpperFiles) : k \in 0..MaxUpper}

Targets ==
    [kind: {"latest"}, n: {0}] \cup [kind: {"txid"}, n: TXIDs] \cup [kind: {"time"}, n: TXIDs]

VARIABLES
    files,   \* the replica's files, snapshots included
    target,  \* opt.TXID, opt.Timestamp or neither
    rest,    \* per level: files the cursor's iterator has yet to yield
    cand,    \* per level: the cursor's candidate, a set of at most one file
    done,    \* per level: has the iterator been exhausted?
    infos,   \* the plan so far
    pc       \* "snapshot", "loop", "check", and the results "ok" and "error"

vars == <<files, target, rest, cand, done, infos, pc>>

\* infos.MaxTXID()
CurrentMax == IF infos = <<>> THEN 0 ELSE infos[Len(infos)].max

\* Any subset of level 0 and of the snapshots, and a few compacted files.
Init ==
    /\ \E a \in SUBSET L0Files, b \in SUBSET SnapshotFiles, c \in UpperSets :
          files = a \cup b \cup c
    /\ target \in Targets
    /\ rest = [l \in Level |-> {f \in files : f.level = l}]
    /\ cand = [l \in Level |-> {}]
    /\ done = [l \in Level |-> FALSE]
    /\ infos = <<>>
    /\ pc = "snapshot"

\* The files the target does not rule out.
Eligible(f) ==
    /\ target.kind = "txid" => f.max <= target.n
    /\ target.kind = "time" => f.at < target.n

\* restoreCandidateBetter
Better(curr, next) ==
    \/ next.max > curr.max
    \/ next.max = curr.max /\ next.min < curr.min
    \/ next.max = curr.max /\ next.min = curr.min /\ next.level > curr.level

\* The best file of a set, as a set.
Best(S) == {f \in S : \A g \in S : ~Better(f, g)}

-----------------------------------------------------------------------------

\* The newest snapshot that the target allows.
PickSnapshot ==
    /\ pc = "snapshot"
    /\ LET snaps == {f \in files : f.level = SnapshotLevel /\ Eligible(f)}
       IN  IF snaps = {}
           THEN infos' = <<>> /\ pc' = "loop"
           ELSE \E s \in Best(snaps) :
                   /\ infos' = <<s>>
                   /\ pc' = IF target.kind = "txid" /\ s.max >= target.n THEN "ok" ELSE "loop"
    /\ UNCHANGED <<files, target, rest, cand, done>>

\* Mutant: a file must start right after the last one.
Due_Exact(l) == {f \in rest[l] : f.min = CurrentMax + 1}

\* The files at the head of the listing that the cursor reads now.
Due(l) == {f \in rest[l] : f.min <= CurrentMax + 1}

\* Mutant: the cursor ignores the target.
Refreshed_NoTarget(l) ==
    IF done[l] THEN cand[l]
    ELSE Best({f \in cand[l] \cup Due(l) : f.max > CurrentMax})

\* refresh: a candidate that has been overtaken is dropped, unless the
\* iterator is exhausted, and the files that are due compete with it.
Refreshed(l) ==
    IF done[l] THEN cand[l]
    ELSE LET kept == {f \in cand[l] : f.max > CurrentMax}
             new  == {f \in Due(l) : f.max > CurrentMax /\ Eligible(f)}
         IN  Best(kept \cup new)

\* refresh, what it leaves of the iterator.
Refresh ==
    /\ rest' = [l \in Level |-> IF done[l] THEN rest[l] ELSE rest[l] \ Due(l)]
    /\ done' = [l \in Level |-> done[l] \/ rest[l] \ Due(l) = {}]

\* What the loop chooses from once every cursor is refreshed.
Candidates == UNION {Refreshed(l) : l \in Level}

\* One round of the loop that appends a file ...
TakeCandidate ==
    /\ pc = "loop"
    /\ Refresh
    /\ \E f \in Best(Candidates) :
          /\ f.max > CurrentMax
          /\ infos' = Append(infos, f)
          /\ cand' = [l \in Level |-> Refreshed(l) \ {f}]
          /\ pc' = IF target.kind = "txid" /\ f.max >= target.n THEN "check" ELSE "loop"
    /\ UNCHANGED <<files, target>>

\* Mutant: the stale candidate is passed over and kept.
DropCandidate_Keeps ==
    /\ pc = "loop"
    /\ Refresh
    /\ \E f \in Best(Candidates) : f.max <= CurrentMax
    /\ cand' = [l \in Level |-> Refreshed(l)]
    /\ UNCHANGED <<files, target, infos, pc>>

\* ... that drops a stale candidate of an exhausted cursor ...
DropCandidate ==
    /\ pc = "loop"
    /\ Refresh
    /\ \E f \in Best(Candidates) :
          /\ f.max <= CurrentMax
          /\ cand' = [l \in Level |-> Refreshed(l) \ {f}]
    /\ UNCHANGED <<files, target, infos, pc>>

\* ... or that finds no candidate.
EndLoop ==
    /\ pc = "loop"
    /\ Candidates = {}
    /\ Refresh
    /\ cand' = [l \in Level |-> {}]
    /\ pc' = "check"
    /\ UNCHANGED <<files, target, infos>>

\* Some level goes on beyond a gap; looked for only without a target.
HasGap ==
    /\ target.kind = "latest"
    /\ infos # <<>>
    /\ \E l \in Level : ~done[l] /\ \E f \in rest[l] : f.min > CurrentMax + 1

\* The checks after the loop.
Check ==
    /\ pc = "check"
    /\ pc' = IF HasGap \/ infos = <<>> \/ (target.kind = "txid" /\ CurrentMax < target.n)
             THEN "error" ELSE "ok"
    /\ UNCHANGED <<files, target, rest, cand, done, infos>>

\* The plan is returned.
Returned == pc \in {"ok", "error"} /\ UNCHANGED vars

Next == PickSnapshot \/ TakeCandidate \/ DropCandidate \/ EndLoop \/ Check \/ Returned

Spec == Init /\ [][Next]_vars

FairSpec == Spec /\ WF_vars(Next)

-----------------------------------------------------------------------------
(* Properties.                                                             *)

\* The plan can be applied: it starts at the first transaction, every file
\* continues its predecessor without a gap and adds something to it, and the
\* target allows every file.
PlanIsChain ==
    /\ infos # <<>> => infos[1].min = 1
    /\ \A i \in 1..Len(infos) : infos[i] \in files /\ Eligible(infos[i])
    /\ \A i \in 1..(Len(infos) - 1) :
          infos[i + 1].min <= infos[i].max + 1 /\ infos[i + 1].max > infos[i].max

\* Reference: the files that the target allows cover 1..n and end there.
Covered(n) ==
    \A t \in 1..n : \E f \in files : f.min <= t /\ t <= f.max /\ f.max <= n /\ Eligible(f)

\* The highest transaction that can be restored at all.
Reachable == CHOOSE n \in 0..MaxTXID : Covered(n) /\ \A m \in (n + 1)..MaxTXID : ~Covered(m)

\* CalcRestorePlan finds a plan whenever the files allow one, although every
\* cursor reads its listing once and keeps one candidate: a plan to a TXID
\* exists iff it is covered.  Before a time there is one iff any transaction can
\* be restored, and it ends at the last of them, as does the latest state.
\* That is refused iff a file lies behind a gap, or there is no file to begin
\* with: it never returns an old state silently.
PlanIsComplete ==
    pc \in {"ok", "error"} =>
        CASE target.kind = "txid"   -> /\ (pc = "ok") <=> Covered(target.n)
                                       /\ pc = "ok" => CurrentMax = target.n
          [] target.kind = "time"   -> /\ CurrentMax = Reachable
                                       /\ (pc = "ok") <=> Reachable > 0
          [] target.kind = "latest" ->
                 /\ CurrentMax = Reachable
                 /\ (pc = "ok") <=> files # {} /\ \A f \in files : f.max <= CurrentMax

\* The loop ends.
PlanReturns == <>(pc \in {"ok", "error"})

=============================================================================
