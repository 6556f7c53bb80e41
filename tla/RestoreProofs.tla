--------------------------- MODULE RestoreProofs ---------------------------
(***************************************************************************)
(* What a restore relies on, for any number of files, levels, transactions *)
(* and bytes.  The plan of CalcRestorePlan can be applied, and it reaches  *)
(* the target or the end of what the listings held whenever a plan exists. *)
(* The reader of one of its files skips no byte.                           *)
(***************************************************************************)
EXTENDS RestorePlan, ResumableReader, SequenceTheorems, WellFoundedInduction, TLAPS

\* The variables, and what a snapshot covers.
Shapes ==
    /\ files \subseteq FileInfo
    /\ target \in Targets
    /\ rest \in [Level -> SUBSET files]
    /\ cand \in [Level -> SUBSET files]
    /\ done \in [Level -> BOOLEAN]
    /\ infos \in Seq(files)
    /\ \A f \in files : f.level = SnapshotLevel => f.min = 1

\* Between two rounds a candidate may be stale, but the target allows it and
\* it leaves no gap behind the plan.
CandidatesFit ==
    \A l \in Level : \A f \in cand[l] : Eligible(f) /\ f.min <= CurrentMax + 1

\* The plan is empty until a snapshot was looked for.
StartsEmpty == pc = "snapshot" => infos = <<>>

PlanInv == Shapes /\ CandidatesFit /\ StartsEmpty /\ PlanIsChain

-----------------------------------------------------------------------------

\* Where the plan ends is a number, and grows with the plan.
LEMMA CurrentMaxNat ==
    ASSUME Shapes
    PROVE  CurrentMax \in Nat
BY PlanBounds DEF Shapes, CurrentMax, FileInfo, TXIDs

\* What the cursors offer fits behind the plan.
LEMMA RefreshedFits ==
    ASSUME Shapes, CandidatesFit, NEW l \in Level
    PROVE  \A f \in Refreshed(l) : f \in files /\ Eligible(f) /\ f.min <= CurrentMax + 1
<1>1. cand[l] \subseteq files /\ rest[l] \subseteq files
  BY DEF Shapes
<1>2. \A f \in cand[l] : Eligible(f) /\ f.min <= CurrentMax + 1
  BY DEF CandidatesFit
<1>3. \A f \in Due(l) : f \in files /\ f.min <= CurrentMax + 1
  BY <1>1 DEF Due
<1>. QED
  BY <1>1, <1>2, <1>3 DEF Refreshed, Best

\* A file that fits and ends later extends the chain.
LEMMA ChainGrows ==
    ASSUME Shapes, PlanIsChain, NEW f \in files, Eligible(f), f.min <= CurrentMax + 1,
           f.max > CurrentMax, infos' = Append(infos, f), UNCHANGED <<files, target>>
    PROVE  /\ PlanIsChain'
           /\ infos' \in Seq(files)
           /\ CurrentMax' = f.max
<1>. DEFINE n == Len(infos)
<1>1. /\ infos' \in Seq(files)
      /\ Len(infos') = n + 1
      /\ \A i \in 1..n : infos'[i] = infos[i]
      /\ infos'[n + 1] = f
      /\ n \in Nat
  BY DEF Shapes
<1>2. CurrentMax' = f.max
  BY <1>1 DEF CurrentMax
<1>3. f.min \in Nat /\ f.min >= 1 /\ f.max \in Nat
  BY PlanBounds DEF Shapes, FileInfo, TXIDs
<1>4. infos'[1].min = 1
  <2>1. CASE n = 0
    <3>1. infos = <<>>
      BY <2>1 DEF Shapes
    <3>2. infos'[1] = f
      BY <2>1, <1>1
    <3>. QED
      BY <3>1, <3>2, <1>3 DEF CurrentMax
  <2>2. CASE n > 0
    BY <2>2, <1>1 DEF PlanIsChain
  <2>. QED
    BY <1>1, <2>1, <2>2
<1>5. target' = target /\ files' = files
  OBVIOUS
<1>6. \A i \in 1..(n + 1) : infos'[i] \in files /\ Eligible(infos'[i])
  <2>. SUFFICES ASSUME NEW i \in 1..(n + 1)
                PROVE  infos'[i] \in files /\ Eligible(infos'[i])
    OBVIOUS
  <2>1. CASE i = n + 1
    BY <2>1, <1>1
  <2>2. CASE i \in 1..n
    BY <2>2, <1>1 DEF PlanIsChain
  <2>. QED
    BY <1>1, <2>1, <2>2
<1>7. \A i \in 1..n :
         infos'[i + 1].min <= infos'[i].max + 1 /\ infos'[i + 1].max > infos'[i].max
  <2>. SUFFICES ASSUME NEW i \in 1..n
                PROVE  infos'[i + 1].min <= infos'[i].max + 1 /\ infos'[i + 1].max > infos'[i].max
    OBVIOUS
  <2>1. CASE i = n
    <3>1. CurrentMax = infos[n].max
      BY <2>1, <1>1 DEF CurrentMax
    <3>. QED
      BY <2>1, <1>1, <3>1
  <2>2. CASE i \in 1..(n - 1)
    <3>1. i + 1 \in 1..n
      BY <2>2, <1>1
    <3>. QED
      BY <2>2, <3>1, <1>1 DEF PlanIsChain
  <2>. QED
    BY <1>1, <2>1, <2>2
<1>. QED
  BY <1>1, <1>2, <1>4, <1>5, <1>6, <1>7 DEF PlanIsChain, Eligible

\* The states CalcRestorePlan starts from.
LEMMA InitPlanInv == Init => PlanInv
<1>. SUFFICES ASSUME Init PROVE PlanInv
  OBVIOUS
<1>1. PICK a \in SUBSET L0Files, b \in SUBSET SnapshotFiles, c \in UpperSets :
         files = a \cup b \cup c
  BY DEF Init
<1>2. c \subseteq UpperFiles
  BY DEF UpperSets, kSubset
<1>4. \A f \in L0Files : f \in FileInfo /\ f.level # SnapshotLevel
  BY PlanBounds DEF L0Files, FileInfo, TXIDs, SnapshotLevel
<1>5. \A f \in SnapshotFiles : f \in FileInfo /\ f.min = 1
  BY PlanBounds DEF SnapshotFiles, FileInfo, TXIDs, SnapshotLevel
<1>6. \A f \in UpperFiles : f \in FileInfo /\ f.level # SnapshotLevel
  BY PlanBounds DEF UpperFiles, FileInfo, TXIDs, SnapshotLevel, Level
<1>7. files \subseteq FileInfo /\ \A f \in files : f.level = SnapshotLevel => f.min = 1
  BY <1>1, <1>2, <1>4, <1>5, <1>6
<1>8. Shapes
  <2>1. infos \in Seq(files)
    BY DEF Init
  <2>2. rest \in [Level -> SUBSET files]
    BY DEF Init
  <2>. QED
    BY <1>7, <2>1, <2>2 DEF Init, Shapes
<1>9. CandidatesFit
  BY DEF Init, CandidatesFit
<1>10. StartsEmpty
  BY DEF Init, StartsEmpty
<1>11. PlanIsChain
  BY DEF Init, PlanIsChain
<1>. QED
  BY <1>8, <1>9, <1>10, <1>11 DEF PlanInv

\* A round that leaves the plan alone, or extends it, keeps what remains in
\* the cursors fitting.
LEMMA RoundFits ==
    ASSUME Shapes, CandidatesFit,
           cand' = [l \in Level |-> cand'[l]],
           \A l \in Level : cand'[l] \subseteq Refreshed(l),
           UNCHANGED <<files, target>>, CurrentMax' >= CurrentMax, CurrentMax' \in Nat
    PROVE  CandidatesFit' /\ cand' \in [Level -> SUBSET files]
<1>1. \A f \in files : f.min \in Nat
  BY PlanBounds DEF Shapes, FileInfo, TXIDs
<1>2. \A g : Eligible(g)' <=> Eligible(g)
  BY DEF Eligible
<1>3. ASSUME NEW l \in Level, NEW f \in cand'[l]
      PROVE  f \in files /\ Eligible(f)' /\ f.min <= CurrentMax' + 1
  <2>1. f \in Refreshed(l)
    BY <1>3
  <2>2. f \in files /\ Eligible(f) /\ f.min <= CurrentMax + 1
    BY <2>1, RefreshedFits
  <2>. QED
    BY <2>2, <1>1, <1>2, CurrentMaxNat
<1>. QED
  BY <1>3 DEF CandidatesFit

\* What refresh does to the iterators keeps their shape.
LEMMA RefreshShapes ==
    ASSUME Shapes, Refresh, UNCHANGED files
    PROVE  rest' \in [Level -> SUBSET files] /\ done' \in [Level -> BOOLEAN]
BY DEF Shapes, Refresh

\* PlanInv is inductive.
LEMMA NextPlanInv == PlanInv /\ [Next]_vars => PlanInv'
<1>. SUFFICES ASSUME PlanInv, [Next]_vars PROVE PlanInv'
  OBVIOUS
<1>. USE DEF PlanInv
<1>1. CASE PickSnapshot
  <2>. DEFINE snaps == {f \in files : f.level = SnapshotLevel /\ Eligible(f)}
  <2>1. infos = <<>> /\ UNCHANGED <<files, target, rest, cand, done>> /\ pc' # "snapshot"
    BY <1>1 DEF PickSnapshot, StartsEmpty
  <2>2. CurrentMax = 0
    BY <2>1 DEF CurrentMax
  <2>3. CASE infos' = <<>>
    <3>1. CurrentMax' = 0
      BY <2>3 DEF CurrentMax
    <3>2. Shapes'
      BY <2>1, <2>3 DEF Shapes
    <3>3. CandidatesFit'
      BY <2>1, <2>2, <3>1 DEF CandidatesFit, Eligible
    <3>4. PlanIsChain'
      BY <2>3 DEF PlanIsChain
    <3>. QED
      BY <2>1, <3>2, <3>3, <3>4 DEF StartsEmpty
  <2>4. CASE \E s \in Best(snaps) : infos' = <<s>>
    <3>1. PICK s \in files : /\ s.level = SnapshotLevel /\ Eligible(s)
                             /\ infos' = <<s>>
      BY <2>4 DEF Best
    <3>2. s.min = 1 /\ s.max \in Nat /\ s.max > 0
      BY <3>1, PlanBounds DEF Shapes, FileInfo, TXIDs
    <3>3. infos' = Append(infos, s)
      BY <3>1, <2>1
    <3>4. PlanIsChain' /\ infos' \in Seq(files) /\ CurrentMax' = s.max
      BY <2>1, <2>2, <3>1, <3>2, <3>3, ChainGrows
    <3>5. Shapes'
      BY <2>1, <3>4 DEF Shapes
    <3>6. CandidatesFit'
      <4>1. \A f \in files : f.min \in Nat
        BY PlanBounds DEF Shapes, FileInfo, TXIDs
      <4>2. \A l \in Level : cand[l] \subseteq files
        BY DEF Shapes
      <4>. QED
        BY <2>1, <2>2, <3>2, <3>4, <4>1, <4>2 DEF CandidatesFit, Eligible
    <3>. QED
      BY <2>1, <3>4, <3>5, <3>6 DEF StartsEmpty
  <2>. QED
    BY <1>1, <2>3, <2>4 DEF PickSnapshot
<1>2. CASE TakeCandidate
  <2>1. PICK f \in Best(Candidates) :
           /\ f.max > CurrentMax
           /\ infos' = Append(infos, f)
           /\ cand' = [l \in Level |-> Refreshed(l) \ {f}]
    BY <1>2 DEF TakeCandidate
  <2>2. Refresh /\ UNCHANGED <<files, target>> /\ pc' # "snapshot"
    BY <1>2 DEF TakeCandidate
  <2>3. f \in files /\ Eligible(f) /\ f.min <= CurrentMax + 1
    BY <2>1, RefreshedFits DEF Best, Candidates
  <2>4. PlanIsChain' /\ infos' \in Seq(files) /\ CurrentMax' = f.max
    BY <2>1, <2>2, <2>3, ChainGrows
  <2>5. f.max \in Nat
    BY <2>3, PlanBounds DEF Shapes, FileInfo, TXIDs
  <2>6. CandidatesFit' /\ cand' \in [Level -> SUBSET files]
    <3>1. cand' = [l \in Level |-> cand'[l]] /\ \A l \in Level : cand'[l] \subseteq Refreshed(l)
      BY <2>1
    <3>2. CurrentMax' >= CurrentMax /\ CurrentMax' \in Nat
      BY <2>1, <2>4, <2>5, CurrentMaxNat
    <3>. QED
      BY <2>2, <3>1, <3>2, RoundFits
  <2>7. Shapes'
    BY <2>2, <2>4, <2>6, RefreshShapes DEF Shapes
  <2>. QED
    BY <2>2, <2>4, <2>6, <2>7 DEF StartsEmpty
<1>3. CASE DropCandidate
  <2>1. PICK f \in Best(Candidates) : cand' = [l \in Level |-> Refreshed(l) \ {f}]
    BY <1>3 DEF DropCandidate
  <2>2. Refresh /\ UNCHANGED <<files, target, infos, pc>>
    BY <1>3 DEF DropCandidate
  <2>3. CurrentMax' = CurrentMax
    BY <2>2 DEF CurrentMax
  <2>4. CandidatesFit' /\ cand' \in [Level -> SUBSET files]
    <3>1. cand' = [l \in Level |-> cand'[l]] /\ \A l \in Level : cand'[l] \subseteq Refreshed(l)
      BY <2>1
    <3>2. CurrentMax' >= CurrentMax /\ CurrentMax' \in Nat
      BY <2>3, CurrentMaxNat
    <3>. QED
      BY <2>2, <3>1, <3>2, RoundFits
  <2>5. Shapes'
    BY <2>2, <2>4, RefreshShapes DEF Shapes
  <2>6. PlanIsChain'
    BY <2>2 DEF PlanIsChain, Eligible
  <2>. QED
    BY <2>2, <2>4, <2>5, <2>6 DEF StartsEmpty
<1>4. CASE EndLoop
  <2>1. Refresh /\ UNCHANGED <<files, target, infos>> /\ pc' # "snapshot"
    BY <1>4 DEF EndLoop
  <2>2. cand' = [l \in Level |-> {}]
    BY <1>4 DEF EndLoop
  <2>3. Shapes'
    BY <2>1, <2>2, RefreshShapes DEF Shapes
  <2>4. CandidatesFit'
    BY <2>2 DEF CandidatesFit
  <2>5. PlanIsChain'
    BY <2>1 DEF PlanIsChain, Eligible
  <2>. QED
    BY <2>1, <2>3, <2>4, <2>5 DEF StartsEmpty
<1>5. CASE Check \/ Returned \/ UNCHANGED vars
  <2>1. UNCHANGED <<files, target, rest, cand, done, infos>>
    BY <1>5 DEF Check, Returned, vars
  <2>2. StartsEmpty'
    BY <1>5 DEF Check, Returned, vars, StartsEmpty
  <2>3. Shapes' /\ CandidatesFit' /\ PlanIsChain'
    BY <2>1 DEF Shapes, CandidatesFit, PlanIsChain, Eligible, CurrentMax
  <2>. QED
    BY <2>2, <2>3
<1>. QED
  BY <1>1, <1>2, <1>3, <1>4, <1>5 DEF Next

-----------------------------------------------------------------------------

\* Whatever files the replica holds, at every round the plan is a chain
\* from the first transaction, without a gap and without a file that the
\* target rules out.
THEOREM PlanChain == Spec => []PlanIsChain
<1>1. PlanInv => PlanIsChain
  BY DEF PlanInv
<1>. QED
  BY <1>1, InitPlanInv, NextPlanInv, PTL DEF Spec

-----------------------------------------------------------------------------
(* The plan is complete.                                                   *)

\* Every file the target allows that a cursor has read is behind the plan, or
\* the cursor's candidate reaches at least as far.
CursorInv ==
    \A l \in Level :
        /\ rest[l] \subseteq {f \in files : f.level = l}
        /\ done[l] => rest[l] = {}
        /\ \A f \in files : f.level = l /\ Eligible(f) /\ f \notin rest[l] /\ f.max > CurrentMax
                               => \E g \in cand[l] : g.max >= f.max

\* A file is at least one transaction, and no snapshot reaches beyond the plan.
FilesInv ==
    /\ \A f \in files : f.min <= f.max
    /\ pc # "snapshot" => \A f \in files : f.level = SnapshotLevel /\ Eligible(f) => f.max <= CurrentMax

\* The loop ends at the target, or when no file continues the plan.
EndInv ==
    pc \in {"check", "ok", "error"} =>
        \/ target.kind = "txid" /\ CurrentMax = target.n
        \/ \A l \in Level : cand[l] = {} /\ \A f \in rest[l] : f.min > CurrentMax + 1

\* What the last checks look at.
ResultInv ==
    pc \in {"ok", "error"} =>
        (pc = "error" <=> HasGap \/ infos = <<>> \/ (target.kind = "txid" /\ CurrentMax < target.n))

CompleteInv ==
    /\ CursorInv /\ FilesInv /\ EndInv /\ ResultInv /\ Covered(CurrentMax)
    /\ pc \in {"snapshot", "loop", "check", "ok", "error"}

LEMMA NatHasLeast ==
    ASSUME NEW T \in SUBSET Nat, T # {}
    PROVE  \E x \in T : \A y \in T : x <= y
<1>1. PICK x \in T : \A y \in T : ~(<<y, x>> \in OpToRel(<, Nat))
  BY WFMin, NatLessThanWellFounded, Zenon
<1>2. \A y \in T : ~(y < x)
  <2>1. \A y \in T : y \in Nat /\ x \in Nat
    OBVIOUS
  <2>2. ASSUME NEW y \in T, y < x PROVE <<y, x>> \in OpToRel(<, Nat)
    BY <2>1, <2>2 DEF OpToRel
  <2> QED
    BY <1>1, <2>2
<1> QED
  BY <1>2

\* restoreCandidateBetter finds a best file: the highest end, then the lowest
\* start, then the highest level.
LEMMA BestExists ==
    ASSUME NEW S \in SUBSET FileInfo, S # {}
    PROVE  \E f \in Best(S) : \A g \in S : g.max <= f.max
<1>1. \A f \in S : f.min \in Nat /\ f.max \in Nat /\ f.level \in Nat /\ f.max <= MaxTXID /\ f.level <= SnapshotLevel
  BY PlanBounds DEF FileInfo, TXIDs, SnapshotLevel
<1>2. MaxTXID \in Nat /\ SnapshotLevel \in Nat
  BY PlanBounds DEF SnapshotLevel
<1>3. {MaxTXID - f.max : f \in S} \in SUBSET Nat /\ {MaxTXID - f.max : f \in S} # {}
  BY <1>1, <1>2
<1>4. PICK a \in {MaxTXID - f.max : f \in S} : \A y \in {MaxTXID - f.max : f \in S} : a <= y
  BY <1>3, NatHasLeast
<1>5. PICK T : T = {f \in S : MaxTXID - f.max = a}
  OBVIOUS
<1>6. T # {} /\ T \subseteq S /\ \A f \in T : MaxTXID - f.max = a
  BY <1>4, <1>5
<1>7. {f.min : f \in T} \in SUBSET Nat /\ {f.min : f \in T} # {}
  BY <1>1, <1>6
<1>8. PICK b \in {f.min : f \in T} : \A y \in {f.min : f \in T} : b <= y
  BY <1>7, NatHasLeast
<1>9. PICK U : U = {f \in T : f.min = b}
  OBVIOUS
<1>10. U # {} /\ U \subseteq T /\ \A f \in U : f.min = b
  BY <1>8, <1>9
<1>11. {SnapshotLevel - f.level : f \in U} \in SUBSET Nat /\ {SnapshotLevel - f.level : f \in U} # {}
  BY <1>1, <1>2, <1>6, <1>10
<1>12. PICK c \in {SnapshotLevel - f.level : f \in U} : \A y \in {SnapshotLevel - f.level : f \in U} : c <= y
  BY <1>11, NatHasLeast
<1>13. PICK f \in U : c = SnapshotLevel - f.level
  BY <1>12
<1>14. f \in S /\ f \in T /\ MaxTXID - f.max = a /\ f.min = b
  BY <1>6, <1>10
<1>15. ASSUME NEW g \in S PROVE g.max <= f.max /\ ~Better(f, g)
  <2>1. a <= MaxTXID - g.max
    BY <1>4
  <2>2. g.max <= f.max
    BY <1>1, <1>2, <1>14, <2>1
  <2>3. g.max = f.max => g \in T /\ b <= g.min
    BY <1>5, <1>8, <1>14
  <2>4. g.max = f.max /\ g.min = f.min => g \in U /\ c <= SnapshotLevel - g.level
    BY <1>9, <1>12, <1>14, <2>3
  <2>5. ~Better(f, g)
    BY <1>1, <1>2, <1>13, <1>14, <2>2, <2>3, <2>4 DEF Better
  <2> QED
    BY <2>2, <2>5
<1>16. f \in Best(S)
  BY <1>14, <1>15 DEF Best
<1> QED
  BY <1>15, <1>16

LEMMA BestIsHighest ==
    ASSUME NEW S, NEW f \in Best(S), S \subseteq FileInfo
    PROVE  f \in S /\ \A g \in S : g.max <= f.max
<1>1. \A g \in S : ~(g.max > f.max) /\ f \in S
  BY DEF Best, Better
<1>2. \A g \in S : g.max \in Nat
  BY PlanBounds DEF FileInfo, TXIDs
<1> QED
  BY <1>1, <1>2 DEF Best

\* After refresh every file that was read is behind the plan or there is a
\* candidate that reaches as far.
LEMMA RefreshedReaches ==
    ASSUME Shapes, CursorInv, Refresh, NEW l \in Level,
           NEW f \in files, f.level = l, Eligible(f), f \notin rest'[l], f.max > CurrentMax
    PROVE  \E g \in Refreshed(l) : g.max >= f.max
<1>1. rest'[l] = IF done[l] THEN rest[l] ELSE rest[l] \ Due(l)
  BY DEF Refresh
<1>2. CASE done[l]
  BY <1>1, <1>2 DEF CursorInv, Refreshed
<1>3. CASE ~done[l]
  <2>1. PICK S : S = {g \in cand[l] : g.max > CurrentMax} \cup {g \in Due(l) : g.max > CurrentMax /\ Eligible(g)}
    OBVIOUS
  <2>2. Refreshed(l) = Best(S)
    BY <1>3, <2>1 DEF Refreshed
  <2>3. S \subseteq files
    BY <2>1 DEF Shapes, Due
  <2>4. files \subseteq FileInfo /\ CurrentMax \in Nat /\ \A g \in files : g.max \in Nat
    BY CurrentMaxNat, PlanBounds DEF Shapes, FileInfo, TXIDs
  <2>5. \E h \in S : h.max >= f.max
    <3>1. CASE f \in rest[l]
      BY <1>1, <1>3, <2>1, <2>4, <3>1
    <3>2. CASE f \notin rest[l]
      <4>1. PICK g \in cand[l] : g.max >= f.max
        BY <3>2 DEF CursorInv
      <4>2. g \in files
        BY DEF Shapes
      <4> QED
        BY <2>1, <2>4, <4>1, <4>2
    <3> QED
      BY <3>1, <3>2
  <2>6. PICK g \in Best(S) : \A h \in S : h.max <= g.max
    BY <2>3, <2>4, <2>5, BestExists
  <2>7. g \in S
    BY DEF Best
  <2> QED
    BY <2>2, <2>3, <2>4, <2>5, <2>6, <2>7
<1> QED
  BY <1>2, <1>3

\* What a file is made of.
LEMMA FileNats ==
    ASSUME Shapes
    PROVE  /\ CurrentMax \in Nat /\ MaxTXID \in Nat
           /\ \A f \in files : /\ f.min \in Nat /\ f.max \in Nat /\ f.min >= 1 /\ f.max >= 1 /\ f.max <= MaxTXID
                               /\ f.level \in Level \/ f.level = SnapshotLevel
<1>1. CurrentMax \in Nat /\ MaxTXID \in Nat /\ files \subseteq FileInfo
  BY CurrentMaxNat, PlanBounds DEF Shapes
<1> QED
  BY <1>1, PlanBounds DEF FileInfo, TXIDs, Level, SnapshotLevel

\* A round of the loop: the candidates that are taken away are behind the plan.
LEMMA CursorRound ==
    ASSUME Shapes, CursorInv, Refresh, UNCHANGED <<files, target>>, NEW X,
           cand' = [l \in Level |-> Refreshed(l) \ X],
           NEW c \in Nat, c = CurrentMax', CurrentMax <= c, \A g \in X : ~(g.max > c)
    PROVE  CursorInv'
<1>1. \A g : Eligible(g)' <=> Eligible(g)
  BY DEF Eligible
<1>2. ASSUME NEW l \in Level
      PROVE  rest'[l] \subseteq {f \in files : f.level = l} /\ (done'[l] => rest'[l] = {})
  <2>1. rest'[l] = (IF done[l] THEN rest[l] ELSE rest[l] \ Due(l)) /\ done'[l] = (done[l] \/ rest[l] \ Due(l) = {})
    BY DEF Refresh
  <2>2. rest[l] \subseteq {f \in files : f.level = l} /\ (done[l] => rest[l] = {})
    BY DEF CursorInv
  <2> QED
    BY <2>1, <2>2
<1>3. ASSUME NEW l \in Level, NEW f \in files, f.level = l, Eligible(f), f \notin rest'[l], f.max > c
      PROVE  \E g \in cand'[l] : g.max >= f.max
  <2>1. CurrentMax \in Nat /\ f.max \in Nat
    BY FileNats
  <2>2. f.max > CurrentMax
    BY <1>3, <2>1
  <2>3. PICK g \in Refreshed(l) : g.max >= f.max
    BY <1>3, <2>2, RefreshedReaches
  <2>4. g \in files
    BY DEF Refreshed, Best, Due, Shapes
  <2>5. g.max > c
    BY <1>3, <2>1, <2>3, <2>4, FileNats
  <2>6. g \in cand'[l]
    BY <2>3, <2>5
  <2> QED
    BY <2>3, <2>6
<1> QED
  BY <1>1, <1>2, <1>3 DEF CursorInv

\* The plan covers one transaction after the other.
LEMMA CoveredGrows ==
    ASSUME Shapes, Covered(CurrentMax), NEW f \in files, Eligible(f), f.min <= CurrentMax + 1, f.max > CurrentMax,
           UNCHANGED <<files, target>>, CurrentMax' = f.max
    PROVE  Covered(CurrentMax)'
<1>1. \A g : Eligible(g)' <=> Eligible(g)
  BY DEF Eligible
<1>2. PICK c, n : c = CurrentMax /\ n = f.max
  OBVIOUS
<1>3. c \in Nat /\ n \in Nat /\ f.min \in Nat /\ c < n
  BY <1>2, FileNats
<1>4. ASSUME NEW t \in 1..n PROVE \E g \in files : g.min <= t /\ t <= g.max /\ g.max <= n /\ Eligible(g)
  <2>1. CASE t <= c
    <3>1. t \in 1..c
      BY <1>3, <2>1
    <3>2. PICK g \in files : g.min <= t /\ t <= g.max /\ g.max <= c /\ Eligible(g)
      BY <1>2, <3>1 DEF Covered
    <3>3. g.max <= n
      BY <1>3, <3>2, FileNats
    <3> QED
      BY <3>2, <3>3
  <2>2. CASE ~(t <= c)
    <3>1. f.min <= t /\ t <= f.max /\ f.max <= n
      BY <1>2, <1>3, <2>2
    <3> QED
      BY <3>1
  <2> QED
    BY <2>1, <2>2
<1> QED
  BY <1>1, <1>2, <1>4 DEF Covered

\* The target allows no file of the plan to go beyond it.
LEMMA AtMostTarget ==
    ASSUME Shapes, PlanIsChain, target.kind = "txid"
    PROVE  CurrentMax <= target.n /\ target.n \in Nat /\ target.n >= 1
<1>1. target.n \in Nat /\ target.n >= 1
  BY PlanBounds DEF Shapes, Targets, TXIDs
<1>2. CASE infos = <<>>
  BY <1>1, <1>2 DEF CurrentMax
<1>3. CASE infos # <<>>
  <2>1. Len(infos) \in 1..Len(infos) /\ CurrentMax = infos[Len(infos)].max
    BY <1>3 DEF Shapes, CurrentMax
  <2>2. Eligible(infos[Len(infos)])
    BY <2>1 DEF PlanIsChain
  <2> QED
    BY <1>1, <2>1, <2>2 DEF Eligible
<1> QED
  BY <1>1, <1>2, <1>3

LEMMA InitComplete == ASSUME Init PROVE CompleteInv
<1>1. PICK a \in SUBSET L0Files, b \in SUBSET SnapshotFiles, c \in UpperSets :
         files = a \cup b \cup c
  BY DEF Init
<1>2. c \subseteq UpperFiles
  BY DEF UpperSets, kSubset
<1>3. MaxTXID \in Nat
  BY PlanBounds
<1>4. \A f \in L0Files : f.min <= f.max
  BY <1>3 DEF L0Files, TXIDs
<1>5. \A f \in SnapshotFiles : f.min <= f.max
  BY <1>3 DEF SnapshotFiles, TXIDs
<1>6. \A f \in UpperFiles : f.min <= f.max
  BY DEF UpperFiles
<1>7. FilesInv
  BY <1>1, <1>2, <1>4, <1>5, <1>6 DEF FilesInv, Init
<1>8. CursorInv
  BY DEF CursorInv, Init
<1>9. CurrentMax = 0
  BY DEF CurrentMax, Init
<1>10. Covered(CurrentMax)
  BY <1>9 DEF Covered
<1>11. EndInv /\ ResultInv /\ pc = "snapshot"
  BY DEF Init, EndInv, ResultInv
<1> QED
  BY <1>7, <1>8, <1>10, <1>11 DEF CompleteInv

LEMMA PickComplete == ASSUME PlanInv, PlanInv', CompleteInv, PickSnapshot PROVE CompleteInv'
<1>1. /\ pc = "snapshot" /\ infos = <<>> /\ UNCHANGED <<files, target, rest, cand, done>>
      /\ Shapes /\ Shapes' /\ PlanIsChain' /\ CursorInv /\ FilesInv
  BY DEF PickSnapshot, PlanInv, StartsEmpty, CompleteInv
<1>2. CurrentMax = 0
  BY <1>1 DEF CurrentMax
<1>3. PICK snaps : snaps = {f \in files : f.level = SnapshotLevel /\ Eligible(f)}
  OBVIOUS
<1>4. \A g : Eligible(g)' <=> Eligible(g)
  BY <1>1 DEF Eligible
<1>5. \A f \in files : f.max \in Nat /\ f.min \in Nat /\ f.max >= 1 /\ f.min <= f.max
  BY <1>1, FileNats DEF FilesInv
<1>6. PICK c : c = CurrentMax'
  OBVIOUS
<1>7. c \in Nat
  BY <1>1, <1>6, CurrentMaxNat DEF Shapes, CurrentMax, FileInfo, TXIDs, PlanBounds
<1>8. CursorInv'
  <2>1. ASSUME NEW l \in Level, NEW f \in files, f.level = l, Eligible(f), f \notin rest[l], f.max > c
        PROVE  \E g \in cand[l] : g.max >= f.max
    <3>1. f.max > CurrentMax
      BY <1>2, <1>5, <1>7, <2>1
    <3> QED
      BY <1>1, <2>1, <3>1 DEF CursorInv
  <2> QED
    BY <1>1, <1>4, <1>6, <2>1 DEF CursorInv
<1>9. CASE snaps = {}
  <2>1. infos' = <<>> /\ pc' = "loop"
    BY <1>3, <1>9 DEF PickSnapshot
  <2>2. c = 0
    BY <1>6, <2>1 DEF CurrentMax
  <2>3. FilesInv'
    BY <1>1, <1>3, <1>4, <1>9 DEF FilesInv
  <2>4. Covered(CurrentMax)'
    BY <1>6, <2>2 DEF Covered
  <2> QED
    BY <1>8, <2>1, <2>3, <2>4 DEF CompleteInv, EndInv, ResultInv
<1>10. CASE snaps # {}
  <2>1. PICK s \in Best(snaps) :
           /\ infos' = <<s>>
           /\ pc' = IF target.kind = "txid" /\ s.max >= target.n THEN "ok" ELSE "loop"
    BY <1>3, <1>10 DEF PickSnapshot
  <2>2. snaps \subseteq FileInfo
    BY <1>1, <1>3 DEF Shapes
  <2>3. s \in files /\ s.level = SnapshotLevel /\ Eligible(s) /\ \A g \in snaps : g.max <= s.max
    BY <1>3, <2>1, <2>2, BestIsHighest
  <2>4. c = s.max /\ s.min = 1 /\ s.max > 0
    <3>1. infos' # <<>> /\ Len(infos') = 1 /\ infos'[1] = s
      BY <2>1
    <3>2. c = s.max
      BY <1>6, <3>1 DEF CurrentMax
    <3> QED
      BY <1>1, <1>5, <2>3, <3>2 DEF Shapes
  <2>5. FilesInv'
    BY <1>1, <1>3, <1>4, <1>6, <2>3, <2>4 DEF FilesInv
  <2>6. Covered(CurrentMax)'
    <3>1. s.min <= CurrentMax + 1 /\ s.max > CurrentMax
      BY <1>2, <2>4
    <3> QED
      BY <1>1, <1>6, <2>3, <2>4, <3>1, CoveredGrows DEF CompleteInv
  <2>7. CASE pc' = "loop"
    BY <1>8, <2>5, <2>6, <2>7 DEF CompleteInv, EndInv, ResultInv
  <2>8. CASE pc' = "ok" /\ target.kind = "txid" /\ s.max >= target.n
    <3>1. s.max = target.n /\ target.n \in Nat
      BY <1>1, <1>5, <2>3, <2>8, PlanBounds DEF Eligible, Shapes, Targets, TXIDs
    <3>2. ~HasGap' /\ infos' # <<>>
      BY <1>1, <2>1, <2>8 DEF HasGap
    <3>3. EndInv' /\ ResultInv'
      BY <1>1, <1>6, <2>4, <2>8, <3>1, <3>2 DEF EndInv, ResultInv
    <3> QED
      BY <1>8, <2>5, <2>6, <2>8, <3>3 DEF CompleteInv
  <2> QED
    BY <2>1, <2>7, <2>8
<1> QED
  BY <1>9, <1>10

LEMMA TakeComplete == ASSUME PlanInv, PlanInv', CompleteInv, TakeCandidate PROVE CompleteInv'
<1>1. /\ pc = "loop" /\ Refresh /\ UNCHANGED <<files, target>>
      /\ Shapes /\ Shapes' /\ CandidatesFit /\ PlanIsChain /\ PlanIsChain' /\ CursorInv /\ FilesInv
  BY DEF TakeCandidate, PlanInv, CompleteInv
<1>2. PICK f \in Best(Candidates) :
         /\ f.max > CurrentMax
         /\ infos' = Append(infos, f)
         /\ cand' = [l \in Level |-> Refreshed(l) \ {f}]
         /\ pc' = IF target.kind = "txid" /\ f.max >= target.n THEN "check" ELSE "loop"
  BY DEF TakeCandidate
<1>3. f \in files /\ Eligible(f) /\ f.min <= CurrentMax + 1
  BY <1>1, <1>2, RefreshedFits DEF Best, Candidates
<1>4. CurrentMax' = f.max /\ f.max \in Nat /\ CurrentMax \in Nat
  BY <1>1, <1>2, <1>3, ChainGrows, FileNats
<1>5. CursorInv'
  <2>1. PICK c, X : c = f.max /\ X = {f}
    OBVIOUS
  <2>2. c \in Nat /\ c = CurrentMax' /\ CurrentMax <= c /\ \A g \in X : ~(g.max > c)
    BY <1>2, <1>4, <2>1
  <2>3. cand' = [l \in Level |-> Refreshed(l) \ X]
    BY <1>2, <2>1
  <2> QED
    BY <1>1, <2>2, <2>3, CursorRound
<1>6. Covered(CurrentMax)'
  BY <1>1, <1>2, <1>3, <1>4, CoveredGrows DEF CompleteInv
<1>7. FilesInv'
  <2>1. \A g \in files : g.level = SnapshotLevel /\ Eligible(g) => g.max <= f.max
    BY <1>1, <1>2, <1>4, FileNats DEF FilesInv
  <2> QED
    BY <1>1, <1>4, <2>1 DEF FilesInv, Eligible
<1>8. ASSUME pc' = "check" PROVE target'.kind = "txid" /\ CurrentMax' = target'.n
  <2>1. target.kind = "txid" /\ f.max >= target.n
    BY <1>2, <1>8
  <2>2. f.max <= target.n /\ target.n \in Nat
    BY <1>1, <1>3, <2>1, AtMostTarget DEF Eligible
  <2> QED
    BY <1>1, <1>4, <2>1, <2>2
<1>9. pc' \in {"loop", "check"}
  BY <1>2
<1>10. EndInv' /\ ResultInv'
  BY <1>8, <1>9 DEF EndInv, ResultInv
<1> QED
  BY <1>5, <1>6, <1>7, <1>9, <1>10 DEF CompleteInv

LEMMA DropComplete == ASSUME PlanInv, CompleteInv, DropCandidate PROVE CompleteInv'
<1>1. /\ pc = "loop" /\ pc' = "loop" /\ Refresh /\ UNCHANGED <<files, target, infos>>
      /\ Shapes /\ CursorInv /\ FilesInv /\ Covered(CurrentMax)
  BY DEF DropCandidate, PlanInv, CompleteInv
<1>2. PICK f \in Best(Candidates) : f.max <= CurrentMax /\ cand' = [l \in Level |-> Refreshed(l) \ {f}]
  BY DEF DropCandidate
<1>3. CurrentMax' = CurrentMax /\ CurrentMax \in Nat
  BY <1>1, CurrentMaxNat DEF CurrentMax
<1>4. f \in files
  BY <1>1, <1>2 DEF Best, Candidates, Refreshed, Due, Shapes
<1>5. CursorInv'
  <2>1. PICK c, X : c = CurrentMax /\ X = {f}
    OBVIOUS
  <2>2. c \in Nat /\ c = CurrentMax' /\ CurrentMax <= c /\ \A g \in X : ~(g.max > c)
    BY <1>1, <1>2, <1>3, <1>4, <2>1, FileNats
  <2>3. cand' = [l \in Level |-> Refreshed(l) \ X]
    BY <1>2, <2>1
  <2> QED
    BY <1>1, <2>2, <2>3, CursorRound
<1>6. FilesInv' /\ Covered(CurrentMax)'
  BY <1>1, <1>3 DEF FilesInv, Covered, Eligible
<1> QED
  BY <1>1, <1>5, <1>6 DEF CompleteInv, EndInv, ResultInv

LEMMA EndComplete == ASSUME PlanInv, CompleteInv, EndLoop PROVE CompleteInv'
<1>1. /\ pc = "loop" /\ pc' = "check" /\ Refresh /\ UNCHANGED <<files, target, infos>>
      /\ cand' = [l \in Level |-> {}] /\ Candidates = {}
      /\ Shapes /\ CursorInv /\ FilesInv /\ Covered(CurrentMax)
  BY DEF EndLoop, PlanInv, CompleteInv
<1>2. \A l \in Level : Refreshed(l) = {}
  BY <1>1 DEF Candidates
<1>3. CurrentMax' = CurrentMax /\ CurrentMax \in Nat
  BY <1>1, CurrentMaxNat DEF CurrentMax
<1>4. CursorInv'
  <2>1. PICK c, X : c = CurrentMax /\ X = {}
    OBVIOUS
  <2>2. cand' = [l \in Level |-> Refreshed(l) \ X]
    BY <1>1, <1>2, <2>1
  <2>3. c \in Nat /\ c = CurrentMax' /\ CurrentMax <= c /\ \A g \in X : ~(g.max > c)
    BY <1>3, <2>1
  <2> QED
    BY <1>1, <2>2, <2>3, CursorRound
<1>5. FilesInv' /\ Covered(CurrentMax)'
  BY <1>1, <1>3 DEF FilesInv, Covered, Eligible
<1>6. ASSUME NEW l \in Level, NEW f \in rest'[l] PROVE f.min > CurrentMax + 1
  <2>1. rest'[l] = (IF done[l] THEN rest[l] ELSE rest[l] \ Due(l)) /\ (done[l] => rest[l] = {}) /\ rest[l] \subseteq files
    BY <1>1 DEF Refresh, CursorInv, Shapes
  <2>2. f \in rest[l] /\ ~(f.min <= CurrentMax + 1) /\ f \in files
    BY <1>6, <2>1 DEF Due
  <2> QED
    BY <1>1, <1>3, <2>2, FileNats
<1>7. EndInv'
  BY <1>1, <1>3, <1>6 DEF EndInv
<1> QED
  BY <1>1, <1>4, <1>5, <1>7 DEF CompleteInv, ResultInv

LEMMA CheckComplete == ASSUME PlanInv, CompleteInv, Check PROVE CompleteInv'
<1>1. /\ pc = "check" /\ pc' \in {"ok", "error"} /\ UNCHANGED <<files, target, rest, cand, done, infos>>
      /\ pc' = "error" <=> HasGap \/ infos = <<>> \/ (target.kind = "txid" /\ CurrentMax < target.n)
      /\ CursorInv /\ FilesInv /\ EndInv /\ Covered(CurrentMax)
  BY DEF Check, CompleteInv
<1>2. CurrentMax' = CurrentMax /\ (HasGap' <=> HasGap)
  BY <1>1 DEF CurrentMax, HasGap
<1>3. CursorInv' /\ FilesInv'
  BY <1>1, <1>2 DEF CursorInv, FilesInv, Eligible
<1>4. EndInv' /\ Covered(CurrentMax)'
  BY <1>1, <1>2 DEF EndInv, Covered, Eligible
<1>5. ResultInv'
  BY <1>1, <1>2 DEF ResultInv
<1> QED
  BY <1>1, <1>3, <1>4, <1>5 DEF CompleteInv

LEMMA NextComplete == ASSUME PlanInv, PlanInv', CompleteInv, [Next]_vars PROVE CompleteInv'
<1>1. CASE UNCHANGED vars
  <2>1. UNCHANGED <<files, target, rest, cand, done, infos, pc>> /\ CurrentMax' = CurrentMax
    BY <1>1 DEF vars, CurrentMax
  <2>2. CursorInv' /\ FilesInv' /\ EndInv' /\ Covered(CurrentMax)'
    BY <2>1 DEF CompleteInv, CursorInv, FilesInv, EndInv, Covered, Eligible
  <2>3. ResultInv'
    BY <2>1 DEF CompleteInv, ResultInv, HasGap
  <2> QED
    BY <2>1, <2>2, <2>3 DEF CompleteInv
<1> QED
  BY <1>1, PickComplete, TakeComplete, DropComplete, EndComplete, CheckComplete DEF Next, Returned

\* Nothing lies behind the end of the plan but a gap.
Stuck == \A f \in files : Eligible(f) => f.max <= CurrentMax \/ f.min > CurrentMax + 1

LEMMA StuckIsReachable ==
    ASSUME Shapes, PlanIsChain, Covered(CurrentMax), Stuck
    PROVE  /\ CurrentMax = Reachable
           /\ \A m \in Nat : m > CurrentMax => ~Covered(m)
<1>1. PICK c : c = CurrentMax
  OBVIOUS
<1>2. c \in Nat /\ MaxTXID \in Nat
  BY <1>1, FileNats
<1>3. ASSUME NEW m \in Nat, m > c PROVE ~Covered(m)
  <2> SUFFICES ASSUME Covered(m) PROVE FALSE
    OBVIOUS
  <2>1. c + 1 \in 1..m
    BY <1>2, <1>3
  <2>2. PICK f \in files : f.min <= c + 1 /\ c + 1 <= f.max /\ Eligible(f)
    BY <2>1 DEF Covered
  <2> QED
    BY <1>1, <1>2, <2>2, FileNats DEF Stuck
<1>4. c <= MaxTXID
  <2>1. CASE infos = <<>>
    BY <1>1, <1>2, <2>1 DEF CurrentMax
  <2>2. CASE infos # <<>>
    <3>1. Len(infos) \in 1..Len(infos) /\ c = infos[Len(infos)].max
      BY <1>1, <2>2 DEF CurrentMax, Shapes
    <3>2. infos[Len(infos)] \in files
      BY <3>1 DEF PlanIsChain
    <3> QED
      BY <3>1, <3>2, FileNats
  <2> QED
    BY <2>1, <2>2
<1>5. Covered(c) /\ c \in 0..MaxTXID /\ \A m \in (c + 1)..MaxTXID : ~Covered(m)
  BY <1>1, <1>2, <1>3, <1>4
<1>6. PICK r : r = Reachable
  OBVIOUS
<1>7. r \in 0..MaxTXID /\ Covered(r) /\ \A m \in (r + 1)..MaxTXID : ~Covered(m)
  BY <1>5, <1>6, Zenon DEF Reachable
<1>8. ~(r > c)
  BY <1>3, <1>7
<1>9. ~(r < c)
  BY <1>2, <1>5, <1>7
<1>10. r = c
  BY <1>2, <1>7, <1>8, <1>9
<1> QED
  BY <1>1, <1>3, <1>6, <1>10

\* When the loop has ended short of the target, the plan is stuck.
LEMMA EndIsStuck ==
    ASSUME PlanInv, CompleteInv, pc \in {"ok", "error"}, ~(target.kind = "txid" /\ CurrentMax = target.n)
    PROVE  Stuck
<1>1. \A l \in Level : cand[l] = {} /\ \A f \in rest[l] : f.min > CurrentMax + 1
  BY DEF CompleteInv, EndInv
<1>2. Shapes /\ CursorInv /\ FilesInv
  BY DEF PlanInv, CompleteInv
<1>3. ASSUME NEW f \in files, Eligible(f) PROVE f.max <= CurrentMax \/ f.min > CurrentMax + 1
  <2>1. f.max \in Nat /\ CurrentMax \in Nat /\ (f.level \in Level \/ f.level = SnapshotLevel)
    BY <1>2, FileNats
  <2>2. CASE f.level = SnapshotLevel
    BY <1>2, <1>3, <2>2 DEF FilesInv
  <2>3. CASE f.level \in Level
    <3>1. f \notin rest[f.level] => ~(f.max > CurrentMax)
      BY <1>1, <1>2, <1>3, <2>3 DEF CursorInv
    <3> QED
      BY <1>1, <2>1, <2>3, <3>1
  <2> QED
    BY <2>1, <2>2, <2>3
<1> QED
  BY <1>3 DEF Stuck

\* The iterators that are not exhausted show every gap.
LEMMA GapIsSeen ==
    ASSUME PlanInv, CompleteInv, pc \in {"ok", "error"}, target.kind = "latest", infos # <<>>
    PROVE  HasGap <=> ~ \A f \in files : f.max <= CurrentMax
<1>1. Shapes /\ CursorInv /\ FilesInv /\ CurrentMax \in Nat
  BY FileNats DEF PlanInv, CompleteInv
<1>2. \A l \in Level : cand[l] = {} /\ \A f \in rest[l] : f.min > CurrentMax + 1
  BY DEF CompleteInv, EndInv
<1>3. ASSUME HasGap PROVE ~ \A f \in files : f.max <= CurrentMax
  <2>1. PICK l \in Level : \E f \in rest[l] : f.min > CurrentMax + 1
    BY <1>3 DEF HasGap
  <2>2. PICK f \in rest[l] : f.min > CurrentMax + 1
    BY <2>1
  <2>3. f \in files /\ f.min <= f.max /\ f.min \in Nat /\ f.max \in Nat
    BY <1>1, <2>2, FileNats DEF CursorInv, FilesInv
  <2>4. ~(f.max <= CurrentMax)
    BY <1>1, <2>2, <2>3
  <2> QED
    BY <2>3, <2>4
<1>4. ASSUME NEW f \in files, ~(f.max <= CurrentMax) PROVE HasGap
  <2>1. f.max \in Nat /\ f.max > CurrentMax /\ (f.level \in Level \/ f.level = SnapshotLevel) /\ Eligible(f)
    BY <1>1, <1>4, FileNats DEF Eligible
  <2>2. f.level \in Level
    BY <1>1, <1>4, <2>1 DEF FilesInv
  <2>3. f \in rest[f.level]
    BY <1>1, <1>2, <2>1, <2>2 DEF CursorInv
  <2>4. ~done[f.level] /\ f.min > CurrentMax + 1
    BY <1>1, <1>2, <2>2, <2>3 DEF CursorInv
  <2> QED
    BY <2>2, <2>3, <2>4 DEF HasGap
<1> QED
  BY <1>3, <1>4

LEMMA ResultIsRight == ASSUME PlanInv, CompleteInv PROVE PlanIsComplete
<1> SUFFICES ASSUME pc \in {"ok", "error"}
             PROVE  CASE target.kind = "txid"   -> /\ (pc = "ok") <=> Covered(target.n)
                                                   /\ pc = "ok" => CurrentMax = target.n
                      [] target.kind = "time"   -> /\ CurrentMax = Reachable
                                                   /\ (pc = "ok") <=> Reachable > 0
                      [] target.kind = "latest" ->
                             /\ CurrentMax = Reachable
                             /\ (pc = "ok") <=> files # {} /\ \A f \in files : f.max <= CurrentMax
  BY DEF PlanIsComplete
<1>1. Shapes /\ PlanIsChain /\ Covered(CurrentMax) /\ CurrentMax \in Nat
  BY FileNats DEF PlanInv, CompleteInv
<1>2. pc = "error" <=> HasGap \/ infos = <<>> \/ (target.kind = "txid" /\ CurrentMax < target.n)
  BY DEF CompleteInv, ResultInv
<1>3. infos = <<>> <=> CurrentMax = 0
  <2>1. infos = <<>> => CurrentMax = 0
    BY DEF CurrentMax
  <2>2. ASSUME infos # <<>> PROVE CurrentMax # 0
    <3>1. Len(infos) \in 1..Len(infos) /\ CurrentMax = infos[Len(infos)].max
      BY <1>1, <2>2 DEF CurrentMax, Shapes
    <3>2. infos[Len(infos)] \in files
      BY <1>1, <3>1 DEF PlanIsChain
    <3> QED
      BY <1>1, <3>1, <3>2, FileNats
  <2> QED
    BY <2>1, <2>2
<1>4. ASSUME target.kind = "txid"
      PROVE  ((pc = "ok") <=> Covered(target.n)) /\ (pc = "ok" => CurrentMax = target.n)
  <2>1. CurrentMax <= target.n /\ target.n \in Nat /\ target.n >= 1 /\ ~HasGap
    BY <1>1, <1>4, AtMostTarget DEF HasGap
  <2>2. CASE CurrentMax = target.n
    BY <1>1, <1>2, <1>3, <1>4, <2>1, <2>2
  <2>3. CASE CurrentMax # target.n
    <3>1. pc = "error" /\ CurrentMax < target.n
      BY <1>1, <1>2, <1>4, <2>1, <2>3
    <3>2. Stuck
      BY <2>3, EndIsStuck
    <3>3. ~Covered(target.n)
      BY <1>1, <2>1, <3>1, <3>2, StuckIsReachable
    <3> QED
      BY <3>1, <3>3
  <2> QED
    BY <2>2, <2>3
<1>5. target.kind # "txid" => CurrentMax = Reachable
  BY <1>1, EndIsStuck, StuckIsReachable
<1>6. ASSUME target.kind = "time" PROVE CurrentMax = Reachable /\ ((pc = "ok") <=> Reachable > 0)
  BY <1>1, <1>2, <1>3, <1>5, <1>6 DEF HasGap
<1>7. ASSUME target.kind = "latest"
      PROVE  CurrentMax = Reachable /\ ((pc = "ok") <=> files # {} /\ \A f \in files : f.max <= CurrentMax)
  <2>1. CASE infos = <<>>
    <3>1. pc = "error" /\ CurrentMax = 0
      BY <1>2, <1>3, <2>1
    <3>2. \A f \in files : ~(f.max <= CurrentMax)
      BY <1>1, <3>1, FileNats
    <3> QED
      BY <1>5, <1>7, <3>1, <3>2
  <2>2. CASE infos # <<>>
    <3>1. files # {}
      BY <1>1, <2>2 DEF Shapes
    <3>2. pc = "error" <=> ~ \A f \in files : f.max <= CurrentMax
      BY <1>2, <1>7, <2>2, GapIsSeen
    <3> QED
      BY <1>5, <1>7, <3>1, <3>2
  <2> QED
    BY <2>1, <2>2
<1>8. target.kind \in {"txid", "time", "latest"}
  BY <1>1 DEF Shapes, Targets
<1> QED
  BY <1>4, <1>6, <1>7, <1>8

\* CalcRestorePlan finds a plan whenever the files allow one and never
\* returns a state older than the newest one that can be restored, although
\* every cursor reads its listing once, keeps one candidate and forgets the
\* others: what it forgets, its candidate reaches beyond.
THEOREM PlanComplete == Spec => []PlanIsComplete
<1>1. Init => PlanInv /\ CompleteInv
  BY InitPlanInv, InitComplete
<1>2. PlanInv /\ CompleteInv /\ [Next]_vars => (PlanInv /\ CompleteInv)'
  BY NextPlanInv, NextComplete
<1>3. PlanInv /\ CompleteInv => PlanIsComplete
  BY ResultIsRight
<1> QED
  BY <1>1, <1>2, <1>3, PTL DEF Spec

-----------------------------------------------------------------------------
(* The reader: the bytes of one file of the plan.                          *)

\* Byte k has been delivered twice; it is the last one so far, or there was
\* no repetition, if k is the number of bytes delivered.
Repeats(k) ==
    /\ k \in 0..offset
    /\ offset > 0 => k > 0
    /\ \A i \in 1..offset : got[i] = IF i <= k THEN i ELSE i - 1

\* The stream continues the bytes delivered, or is one byte behind r.offset.
Aligned(k) ==
    rc # Closed => (rc = offset /\ k = offset) \/ (rc = offset - 1 /\ offset > 0)

ReadInv ==
    /\ Len(got) = offset
    /\ offset <= Size + 1
    /\ \E k \in 0..offset : Repeats(k) /\ Aligned(k)

\* Every attempt of the running call was an interruption.
AttemptInv ==
    /\ stage = "read" => attempt <= credits /\ attempt <= MaxRetries
    /\ stage = "gaveUp" => credits > MaxRetries

ReaderInv == ReaderTypeOK /\ ReadInv /\ AttemptInv

-----------------------------------------------------------------------------

LEMMA ReaderInit == ASSUME NewResumableReader PROVE ReaderInv
BY SizeAssumption, ReaderBounds DEF NewResumableReader, ReaderInv, ReaderTypeOK, ReadInv, Repeats, Aligned, AttemptInv, Closed

\* A read appends the next bytes of the stream and keeps the alignment.
LEMMA TakeKeeps ==
    ASSUME ReaderInv, NEW n \in 0..MaxBuffer, Take(n), rc' \in {Closed, rc + n}
    PROVE  ReadInv' /\ got' \in Seq(1..Size) /\ offset' \in Nat /\ rc' \in 0..Size \cup {Closed}
<1>1. /\ rc \in 0..Size /\ rc # Closed /\ n \in Nat /\ rc + n <= Size
      /\ offset \in Nat /\ got \in Seq(1..Size) /\ Len(got) = offset
      /\ offset' = offset + n /\ got' = got \o Bytes(n)
  BY SizeAssumption, ReaderBounds DEF ReaderInv, ReaderTypeOK, ReadInv, Take, Chunk, Closed
<1>2. PICK k \in 0..offset : Repeats(k) /\ Aligned(k)
  BY DEF ReaderInv, ReadInv
<1>3. PICK b \in Seq(1..Size) : b = Bytes(n) /\ Len(b) = n /\ \A i \in 1..n : b[i] = rc + i
  <2>1. \A i \in (rc + 1)..(rc + n) : File[i] = i /\ i \in 1..Size
    BY SizeAssumption, ReaderBounds, <1>1 DEF File
  <2>2. PICK f : f = File
    OBVIOUS
  <2>3. PICK m \in Int, q \in Int : m = rc + 1 /\ q = rc + n
    BY <1>1
  <2>4. PICK S : S = 1..Size
    OBVIOUS
  <2>5. \A i \in m..q : f[i] \in S
    BY <1>1, <2>1, <2>2, <2>3, <2>4
  <2>6. /\ SubSeq(f, m, q) \in Seq(S)
        /\ Len(SubSeq(f, m, q)) = IF m <= q THEN q - m + 1 ELSE 0
        /\ \A i \in 1..(q - m + 1) : SubSeq(f, m, q)[i] = f[m + i - 1]
    BY <2>5, SubSeqProperties
  <2>7. Bytes(n) = SubSeq(f, m, q)
    BY <2>2, <2>3 DEF Bytes
  <2>8. Len(SubSeq(f, m, q)) = n /\ \A i \in 1..n : SubSeq(f, m, q)[i] = rc + i
    BY <1>1, <2>1, <2>2, <2>3, <2>6
  <2> QED
    BY <2>4, <2>6, <2>7, <2>8
<1>4. /\ got' \in Seq(1..Size) /\ Len(got') = offset + n
      /\ \A i \in 1..offset : got'[i] = got[i]
      /\ \A i \in (offset + 1)..(offset + n) : got'[i] = rc + (i - offset)
  <2>1. got' = got \o b
    BY <1>1, <1>3
  <2>2. /\ got \o b \in Seq(1..Size)
        /\ Len(got \o b) = Len(got) + Len(b)
        /\ \A i \in 1..(Len(got) + Len(b)) :
              (got \o b)[i] = IF i <= Len(got) THEN got[i] ELSE b[i - Len(got)]
    BY <1>1, ConcatProperties
  <2>3. got' \in Seq(1..Size) /\ Len(got') = offset + n
    BY <1>1, <1>3, <2>1, <2>2
  <2>4. \A i \in 1..(offset + n) : got'[i] = IF i <= offset THEN got[i] ELSE b[i - offset]
    BY <1>1, <1>3, <2>1, <2>2
  <2>5. \A i \in 1..offset : got'[i] = got[i]
    BY <1>1, <2>4
  <2>6. ASSUME NEW i \in (offset + 1)..(offset + n) PROVE got'[i] = rc + (i - offset)
    <3>1. i \in 1..(offset + n) /\ ~(i <= offset) /\ i - offset \in 1..n
      BY <1>1
    <3> QED
      BY <1>3, <2>4, <3>1
  <2> QED
    BY <2>3, <2>5, <2>6
<1>5. CASE rc = offset /\ k = offset
  <2>1. PICK m \in Nat : m = offset + n
    BY <1>1
  <2>2. Repeats(m)'
    BY <1>1, <1>2, <1>4, <1>5, <2>1 DEF Repeats
  <2>3. Aligned(m)'
    BY <1>1, <1>5, <2>1 DEF Aligned
  <2> QED
    BY SizeAssumption, ReaderBounds, <1>1, <1>4, <1>5, <2>1, <2>2, <2>3 DEF ReadInv
<1>6. CASE rc = offset - 1 /\ offset > 0
  <2>1. Repeats(k)' /\ Aligned(k)'
    BY <1>1, <1>2, <1>4, <1>6 DEF Repeats, Aligned
  <2> QED
    BY SizeAssumption, ReaderBounds, <1>1, <1>2, <1>4, <1>6, <2>1 DEF ReadInv
<1> QED
  BY <1>1, <1>2, <1>5, <1>6 DEF Aligned

LEMMA ReopenKeeps == ASSUME ReaderInv, Reopen PROVE ReaderInv'
<1>1. offset \in Nat /\ offset <= Size + 1 /\ Len(got) = offset /\ UNCHANGED <<size, offset, got, attempt>>
  BY DEF ReaderInv, ReaderTypeOK, ReadInv, Reopen
<1>2. PICK k \in 0..offset : Repeats(k) /\ Aligned(k)
  BY DEF ReaderInv, ReadInv
<1>3. Repeats(k)' /\ Aligned(k)'
  BY SizeAssumption, ReaderBounds, <1>1, <1>2 DEF Repeats, Aligned, Reopen, ResumeOffset, Closed
<1>4. ReadInv'
  BY <1>1, <1>2, <1>3 DEF ReadInv
<1>5. ReaderTypeOK' /\ AttemptInv'
  BY SizeAssumption, ReaderBounds, <1>1 DEF ReaderInv, ReaderTypeOK, AttemptInv, Reopen, ResumeOffset, Interrupted
<1> QED
  BY <1>4, <1>5 DEF ReaderInv

\* The loop variable after a broken stream.
LEMMA RetryKeeps ==
    ASSUME ReaderInv, NEW n \in 0..MaxBuffer, Take(n), Retry(n), UNCHANGED empty
    PROVE  ReaderInv'
<1>1. ReadInv' /\ got' \in Seq(1..Size) /\ offset' \in Nat /\ rc' \in 0..Size \cup {Closed}
  BY TakeKeeps DEF Retry
<1>2. ReaderTypeOK' /\ AttemptInv'
  BY SizeAssumption, ReaderBounds, <1>1 DEF ReaderInv, ReaderTypeOK, AttemptInv, Take, Retry, Interrupted
<1> QED
  BY <1>1, <1>2 DEF ReaderInv

LEMMA ReaderStep == ASSUME ReaderInv, [ReaderNext]_readerVars PROVE ReaderInv'
<1>1. CASE UNCHANGED readerVars
  BY <1>1 DEF ReaderInv, ReaderTypeOK, ReadInv, Repeats, Aligned, AttemptInv, readerVars
<1>2. CASE ReadCall
  <2>1. ReadInv'
    BY <1>2 DEF ReaderInv, ReadInv, Repeats, Aligned, ReadCall
  <2>2. ReaderTypeOK' /\ AttemptInv'
    BY SizeAssumption, ReaderBounds, <1>2 DEF ReaderInv, ReaderTypeOK, AttemptInv, ReadCall
  <2> QED
    BY <2>1, <2>2 DEF ReaderInv
<1>3. ASSUME NEW n \in 0..MaxBuffer, ReadOK(n) PROVE ReaderInv'
  <2>1. ReadInv' /\ got' \in Seq(1..Size) /\ offset' \in Nat /\ rc' \in 0..Size \cup {Closed}
    BY <1>3, TakeKeeps DEF ReadOK
  <2>2. ReaderTypeOK' /\ AttemptInv'
    BY SizeAssumption, ReaderBounds, <1>3, <2>1 DEF ReaderInv, ReaderTypeOK, AttemptInv, ReadOK, Take
  <2> QED
    BY <2>1, <2>2 DEF ReaderInv
<1>4. ASSUME NEW n \in 0..MaxBuffer, ReadEOF(n) PROVE ReaderInv'
  <2>1. CASE PrematureEOF(n)
    BY <1>4, <2>1, RetryKeeps DEF ReadEOF
  <2>2. CASE ~PrematureEOF(n)
    <3>1. ReadInv' /\ got' \in Seq(1..Size) /\ offset' \in Nat /\ rc' \in 0..Size \cup {Closed}
      BY <1>4, <2>2, TakeKeeps DEF ReadEOF
    <3>2. ReaderTypeOK' /\ AttemptInv'
      BY SizeAssumption, ReaderBounds, <1>4, <2>2, <3>1 DEF ReaderInv, ReaderTypeOK, AttemptInv, ReadEOF, Take
    <3> QED
      BY <3>1, <3>2 DEF ReaderInv
  <2> QED
    BY <2>1, <2>2
<1>5. ASSUME NEW n \in 0..MaxBuffer, ReadError(n) PROVE ReaderInv'
  BY <1>5, RetryKeeps DEF ReadError
<1> QED
  BY <1>1, <1>2, <1>3, <1>4, <1>5, ReopenKeeps DEF ReaderNext, Reader, Done

LEMMA ReaderInvariant == ReaderSpec => []ReaderInv
<1>1. NewResumableReader => ReaderInv
  BY ReaderInit
<1>2. ReaderInv /\ [ReaderNext]_readerVars => ReaderInv'
  BY ReaderStep
<1> QED
  BY <1>1, <1>2, PTL DEF ReaderSpec

\* Shape of the reader's fields, for every file size and buffer length.
THEOREM ReaderTypes == ReaderSpec => []ReaderTypeOK
<1>1. ReaderInv => ReaderTypeOK
  BY DEF ReaderInv
<1> QED
  BY <1>1, ReaderInvariant, PTL

\* No byte is missing before one that is delivered, for every file, every
\* buffer and every number of dropped connections.
THEOREM ReaderSkipsNothing == ReaderSpec => []NoByteSkipped
<1>1. ASSUME ReaderInv PROVE NoByteSkipped
  <2>1. PICK k \in 0..offset : Repeats(k)
    BY <1>1 DEF ReaderInv, ReadInv
  <2>2. offset \in Nat /\ Len(got) = offset
    BY <1>1 DEF ReaderInv, ReaderTypeOK, ReadInv
  <2>3. ASSUME NEW i \in 1..Len(got), NEW b \in 1..got[i]
        PROVE  \E j \in 1..i : got[j] = b
    <3>1. got[i] = IF i <= k THEN i ELSE i - 1
      BY <2>1, <2>2 DEF Repeats
    <3>2. b \in 1..i /\ (b <= k \/ b + 1 \in (k + 1)..i)
      BY <2>1, <2>2, <3>1
    <3>3. CASE b <= k
      BY <2>1, <2>2, <3>2, <3>3 DEF Repeats
    <3>4. CASE b + 1 \in (k + 1)..i
      <4>1. b + 1 \in 1..offset /\ ~(b + 1 <= k)
        BY <2>1, <2>2, <3>4
      <4>2. got[b + 1] = b
        BY <2>1, <2>2, <3>2, <4>1 DEF Repeats
      <4> QED
        BY <2>1, <2>2, <3>2, <3>4, <4>2
    <3> QED
      BY <3>2, <3>3, <3>4
  <2> QED
    BY <2>3 DEF NoByteSkipped
<1> QED
  BY <1>1, ReaderInvariant, PTL

\* Read gives up only after MaxRetries + 1 interruptions.
THEOREM ReaderGrantsBudget == ReaderSpec => []BudgetIsGranted
<1>1. ReaderInv => BudgetIsGranted
  BY DEF ReaderInv, AttemptInv, BudgetIsGranted
<1> QED
  BY <1>1, ReaderInvariant, PTL

=============================================================================
