---------------------------- MODULE VFSReadProofs ----------------------------
(***************************************************************************)
(* What a read-only connection of the VFS shows, for databases, histories  *)
(* and caches of every size.                                               *)
(*                                                                         *)
(* A restore plan and the listing of a poll are recursive functions.  All  *)
(* that is needed of them is that each of their files continues those      *)
(* before it (Linked).  The index of such a list then has the last write   *)
(* of a page: later transactions that wrote the page would have left it in *)
(* later files, unless the database shrank; and a page that comes back     *)
(* when the database grows again is written (HistInv).                     *)
(***************************************************************************)
EXTENDS VFSRead, WellFoundedInduction, TLAPS

-----------------------------------------------------------------------------
(* The inductive invariant.                                                *)

\* The transactions: the first one writes every page, and one that enlarges
\* the database writes the pages it adds.
HistInv ==
    /\ hist \in Seq([pages: SUBSET Page, commit: Page]) /\ Len(hist) \in 1..MaxTXID
    /\ hist[1].pages = Page
    /\ \A t \in 1..(Len(hist) - 1) :
          \A p \in Page : hist[t].commit < p /\ p <= hist[t + 1].commit => p \in hist[t + 1].pages

\* The files that the transactions so far can have given.
Stored ==
    {f \in File : /\ f.min <= f.max /\ f.max <= Len(hist)
                  /\ f.level = SnapshotLevel => f.min = 1}

\* An index entry is a file with that page.
IsEntry(p, e) == e = NoElem \/ (e \in Stored /\ p \in PagesOf(e))
IsIndex(idx) == idx \in Index /\ \A p \in Page : IsEntry(p, idx[p])

\* Each file of s continues the ones before, which end at lo.
Linked(s, lo) ==
    /\ s \in Seq(Stored)
    /\ s # <<>> => s[1].min <= lo + 1 /\ s[1].max > lo
    /\ \A i \in 1..(Len(s) - 1) : s[i + 1].min <= s[i].max + 1 /\ s[i].max < s[i + 1].max

ConnRec ==
    [op: {"closed", "idle", "fetch", "swap", "opened", "read"}, back: {"closed", "idle"},
     target: 0..MaxTXID, infos: Seq(File), pg: 0..MaxPage, elem: File \cup {NoElem}]

PollRec ==
    [pc: {"idle", "level0", "level1", "apply"}, pos: 0..MaxTXID, top0: 0..MaxTXID, max1: 0..MaxTXID,
     base: 0..MaxPage, combined: Index, newCommit: 0..MaxPage, replace: BOOLEAN]

TypeInv ==
    /\ files \subseteq Stored
    /\ IsIndex(index) /\ IsIndex(pending) /\ pendingReplace \in BOOLEAN
    /\ cache \in [Page -> 0..MaxTXID]
    /\ pos \in 0..Len(hist) /\ maxTXID1 \in 0..pos /\ commit \in 0..MaxPage /\ targetTime \in 0..MaxTXID
    /\ lockType \in {"NONE", "SHARED"}
    /\ raced \in BOOLEAN /\ travels \in 0..MaxTravels
    /\ conn \in ConnRec /\ poll \in PollRec

\* Polls leave entries pending only while the SHARED lock is held.
PendingInv == lockType = "NONE" => pending = EmptyIndex /\ ~pendingReplace

\* A plan under way reaches from the first transaction without a gap.  A page
\* under way is that of the index, but for the header of a file just opened.
ConnInv ==
    /\ conn.op \in {"fetch", "swap"} => conn.infos # <<>> /\ Linked(conn.infos, 0)
    /\ conn.op = "read" =>
          /\ conn.pg \in Page /\ conn.elem # NoElem /\ IsEntry(conn.pg, conn.elem)
          /\ lockType = "NONE" => conn.pg = 1
          /\ lockType = "SHARED" \/ targetTime # 0 => conn.elem = index[conn.pg]

PollInv ==
    /\ IsIndex(poll.combined)
    /\ poll.pos <= Len(hist) /\ poll.top0 <= Len(hist) /\ poll.max1 <= Len(hist)

\* At a target time every page is in the index, as of f.pos.
HistoricalInv ==
    targetTime # 0 =>
        /\ pending = EmptyIndex /\ ~pendingReplace /\ pos > 0
        /\ \A p \in 1..hist[pos].commit :
              /\ index[p] # NoElem /\ Content(p, index[p]) = LastWrite(p, pos)
              /\ cache[p] # 0 => cache[p] = Content(p, index[p])

\* The pages of idx have everything that was written up to t.
UpTo(idx, t) == \A p \in Lasting : idx[p] # NoElem => Content(p, idx[p]) >= LastWrite(p, t)

\* What the connection has and what a poll will add to it.
LevelInv ==
    ~raced =>
        /\ UpTo(Merged, maxTXID1)
        /\ poll.pc = "level0" => poll.pos = pos
        /\ poll.pc = "level1" => poll.max1 = maxTXID1 /\ UpTo(poll.combined, maxTXID1)
        /\ poll.pc = "apply" =>
              /\ maxTXID1 <= poll.max1 /\ UpTo(poll.combined, poll.max1)
              /\ \A p \in Lasting : poll.combined[p] = NoElem /\ ~poll.replace
                                       => LastWrite(p, poll.max1) = LastWrite(p, maxTXID1)

IInv == HistInv /\ TypeInv /\ PendingInv /\ ConnInv /\ PollInv /\ CacheAgrees /\ HistoricalInv /\ LevelInv

-----------------------------------------------------------------------------
(* The greatest element of a set.                                          *)

LEMMA NatHasLeast == ASSUME NEW T \in SUBSET Nat, T # {} PROVE \E x \in T : \A y \in T : x <= y
<1>1. PICK x \in T : \A y \in T : ~(<<y, x>> \in OpToRel(<, Nat))
  BY WFMin, NatLessThanWellFounded, Zenon
<1>2. ASSUME NEW y \in T PROVE x <= y
  <2>1. y \in Nat /\ x \in Nat
    OBVIOUS
  <2>2. y < x => <<y, x>> \in OpToRel(<, Nat)
    BY <2>1 DEF OpToRel
  <2>3. ~(y < x)
    BY <1>1, <2>2
  <2> QED
    BY <2>1, <2>3
<1> QED
  BY <1>2

LEMMA NatHasGreatest ==
    ASSUME NEW T \in SUBSET Nat, T # {}, NEW n \in Nat, \A y \in T : y <= n
    PROVE  \E x \in T : \A y \in T : y <= x
<1> DEFINE D == {n - y : y \in T}
<1>1. PICK d \in D : \A e \in D : d <= e
  <2>1. \A y \in T : n - y \in Nat
    OBVIOUS
  <2>2. D \in SUBSET Nat /\ D # {}
    BY <2>1
  <2> HIDE DEF D
  <2> QED
    BY <2>2, NatHasLeast
<1>2. PICK x \in T : d = n - x
  OBVIOUS
<1>3. ASSUME NEW y \in T PROVE y <= x
  <2>1. n - y \in D /\ x \in Nat /\ y \in Nat
    OBVIOUS
  <2>2. n - x <= n - y
    BY <1>1, <1>2, <2>1
  <2> QED
    BY <2>1, <2>2
<1> QED
  BY <1>3

\* Max is the greatest element of a set of numbers that has a bound.
LEMMA MaxIsIn ==
    ASSUME NEW S \in SUBSET Nat, S # {}, NEW n \in Nat, \A y \in S : y <= n
    PROVE  Max(S) \in S /\ \A y \in S : y <= Max(S)
<1>1. \E x \in S : \A y \in S : x >= y
  BY NatHasGreatest
<1>2. Max(S) \in S /\ \A y \in S : Max(S) >= y
  BY <1>1, Zenon DEF Max
<1> QED
  BY <1>2

LEMMA MaxOfTwo ==
    ASSUME NEW a \in Nat, NEW b \in Nat
    PROVE  Max({a, b}) \in {a, b} /\ a <= Max({a, b}) /\ b <= Max({a, b})
<1>1. {a, b} \in SUBSET Nat /\ {a, b} # {} /\ a + b \in Nat /\ \A y \in {a, b} : y <= a + b
  OBVIOUS
<1> QED
  BY <1>1, MaxIsIn

-----------------------------------------------------------------------------
(* The recursive functions of Plan and PollLevel.                          *)

\* restoreCandidateBetter orders the files by their end and their level.
LEMMA NextFileIn == ASSUME NEW C \in SUBSET File, C # {} PROVE NextFile(C) \in C
<1> DEFINE rank(f) == 10 * f.max + f.level
           R == {rank(f) : f \in C}
<1>1. \A f \in C : f.max \in Nat /\ f.max <= MaxTXID /\ f.level \in Nat /\ f.level <= 9
  BY VFSReadAssumption DEF File, TXID, SnapshotLevel
<1>2. PICK x \in R : \A y \in R : y <= x
  <2>1. R \in SUBSET Nat /\ R # {} /\ 10 * MaxTXID + 9 \in Nat /\ \A y \in R : y <= 10 * MaxTXID + 9
    BY <1>1, VFSReadAssumption
  <2> HIDE DEF R
  <2> QED
    BY <2>1, NatHasGreatest
<1>3. PICK f \in C : x = rank(f)
  OBVIOUS
<1>4. ASSUME NEW g \in C PROVE f.max > g.max \/ (f.max = g.max /\ f.level >= g.level)
  <2>1. rank(g) <= rank(f)
    BY <1>2, <1>3
  <2> QED
    BY <1>1, <2>1
<1>5. \E h \in C : \A g \in C : h.max > g.max \/ (h.max = g.max /\ h.level >= g.level)
  BY <1>4
<1> QED
  BY <1>5, Zenon DEF NextFile

LEMMA StoredType ==
    ASSUME NEW f \in Stored, HistInv
    PROVE  /\ f \in File /\ f.min \in Nat /\ f.max \in Nat /\ f.min >= 1 /\ f.min <= f.max /\ f.max <= Len(hist)
           /\ f.max \in 0..MaxTXID /\ f.max \in 1..Len(hist)
BY VFSReadAssumption DEF Stored, File, TXID, HistInv

LEMMA EmptyLinked == ASSUME NEW lo PROVE Linked(<<>>, lo)
<1>1. <<>> \in Seq(Stored) /\ Len(<<>>) = 0
  OBVIOUS
<1>2. 1..(0 - 1) = {}
  OBVIOUS
<1> QED
  BY <1>1, <1>2 DEF Linked

\* A file in front of a chain.
LEMMA LinkedCons ==
    ASSUME HistInv, NEW f \in Stored, NEW lo \in Nat, f.min <= lo + 1, f.max > lo, NEW s, Linked(s, f.max)
    PROVE  Linked(<<f>> \o s, lo)
<1>1. s \in Seq(Stored) /\ Len(s) \in Nat /\ f.max \in Nat
  BY StoredType DEF Linked
<1>2. PICK t : t = <<f>> \o s
  OBVIOUS
<1>3. t \in Seq(Stored) /\ Len(t) = Len(s) + 1 /\ t[1] = f /\ \A i \in 1..Len(s) : t[i + 1] = s[i]
  BY <1>1, <1>2
<1>4. ASSUME NEW i \in 1..(Len(t) - 1) PROVE t[i + 1].min <= t[i].max + 1 /\ t[i].max < t[i + 1].max
  <2>1. CASE i = 1
    <3>1. s # <<>> /\ t[2] = s[1] /\ t[1] = f
      BY <1>1, <1>3, <2>1
    <3>2. s[1].min <= f.max + 1 /\ s[1].max > f.max
      BY <3>1 DEF Linked
    <3>3. PICK m \in Nat : m = s[1].max
      BY <1>1, <3>1, StoredType
    <3> QED
      BY <1>1, <2>1, <3>1, <3>2, <3>3
  <2>2. CASE i # 1
    <3>1. PICK j \in 1..(Len(s) - 1) : i = j + 1 /\ j \in 1..Len(s) /\ j + 1 \in 1..Len(s)
      BY <1>1, <1>3, <2>2
    <3>2. t[i] = s[j] /\ t[i + 1] = s[j + 1]
      BY <1>3, <3>1
    <3> QED
      BY <3>1, <3>2 DEF Linked
  <2> QED
    BY <2>1, <2>2
<1>5. Linked(t, lo)
  BY <1>3, <1>4 DEF Linked
<1> QED
  BY <1>2, <1>5

\* The recursion: ext gives the files that may come next.
Value(ext, g, d) == IF ext[d] = {} THEN <<>> ELSE LET f == NextFile(ext[d]) IN <<f>> \o g[f.max]
Solves(ext, g, c) == g = [d \in c..MaxTXID |-> Value(ext, g, d)]

GoesOn(ext) ==
    \A c \in 0..MaxTXID : ext[c] # {} =>
        LET f == NextFile(ext[c]) IN f \in Stored /\ f.min <= c + 1 /\ f.max \in (c + 1)..MaxTXID

LEMMA FilesGoOn ==
    ASSUME HistInv, NEW ext,
           \A c \in 0..MaxTXID : ext[c] \in SUBSET Stored /\ \A f \in ext[c] : f.min <= c + 1 /\ f.max > c
    PROVE  GoesOn(ext)
<1> SUFFICES ASSUME NEW c \in 0..MaxTXID, ext[c] # {}, NEW f, f = NextFile(ext[c])
             PROVE  f \in Stored /\ f.min <= c + 1 /\ f.max \in (c + 1)..MaxTXID
  BY DEF GoesOn
<1>1. ext[c] \in SUBSET File
  BY DEF Stored
<1>2. f \in ext[c]
  BY <1>1, NextFileIn
<1>3. f \in Stored
  BY <1>2
<1> QED
  BY <1>2, <1>3, StoredType, VFSReadAssumption

LEMMA SolvesOneMore ==
    ASSUME NEW ext, GoesOn(ext), NEW x \in 0..MaxTXID, NEW h, Solves(ext, h, x + 1)
    PROVE  \E g : Solves(ext, g, x)
<1> DEFINE g == [d \in x..MaxTXID |-> IF d = x THEN Value(ext, h, x) ELSE h[d]]
<1>1. x \in Nat /\ MaxTXID \in Nat
  BY VFSReadAssumption
<1>2. \A d \in (x + 1)..MaxTXID : g[d] = h[d] /\ h[d] = Value(ext, h, d)
  <2>1. \A d \in (x + 1)..MaxTXID : d \in x..MaxTXID /\ d # x
    BY <1>1
  <2> QED
    BY <2>1 DEF Solves
<1>3. ASSUME NEW d \in x..MaxTXID PROVE Value(ext, g, d) = Value(ext, h, d)
  <2>1. CASE ext[d] = {}
    BY <2>1 DEF Value
  <2>2. CASE ext[d] # {}
    <3>1. PICK f : f = NextFile(ext[d]) /\ f.max \in (d + 1)..MaxTXID
      BY <1>1, <2>2 DEF GoesOn
    <3>2. f.max \in (x + 1)..MaxTXID
      BY <1>1, <3>1
    <3>3. g[f.max] = h[f.max]
      BY <1>2, <3>2
    <3> HIDE DEF g
    <3> QED
      BY <3>1, <3>3 DEF Value
  <2> QED
    BY <2>1, <2>2
<1>4. ASSUME NEW d \in x..MaxTXID PROVE g[d] = Value(ext, g, d)
  <2>1. CASE d = x
    <3>1. g[d] = Value(ext, h, d)
      BY <2>1
    <3> QED
      BY <1>3, <3>1
  <2>2. CASE d # x
    <3>1. d \in (x + 1)..MaxTXID
      BY <1>1, <2>2
    <3> QED
      BY <1>2, <1>3, <3>1
  <2> QED
    BY <2>1, <2>2
<1>5. g = [d \in x..MaxTXID |-> g[d]]
  OBVIOUS
<1> HIDE DEF g
<1>6. Solves(ext, g, x)
  BY <1>4, <1>5 DEF Solves
<1> QED
  BY <1>6

LEMMA SolutionExists == ASSUME NEW ext, GoesOn(ext) PROVE \E g : Solves(ext, g, 0)
<1> DEFINE T == {c \in 0..(MaxTXID + 1) : ~\E g : Solves(ext, g, c)}
<1>0. MaxTXID \in Nat
  BY VFSReadAssumption
<1>1. MaxTXID + 1 \notin T
  <2> DEFINE g == [d \in {} |-> <<>>]
  <2>1. (MaxTXID + 1)..MaxTXID = {}
    BY <1>0
  <2>2. g = [d \in {} |-> Value(ext, g, d)]
    OBVIOUS
  <2> HIDE DEF g
  <2>3. Solves(ext, g, MaxTXID + 1)
    BY <2>1, <2>2 DEF Solves
  <2> QED
    BY <2>3
<1>2. CASE T # {}
  <2>1. PICK x \in T : \A y \in T : y <= x
    <3>1. T \in SUBSET Nat /\ MaxTXID + 1 \in Nat /\ \A y \in T : y <= MaxTXID + 1
      BY <1>0
    <3> HIDE DEF T
    <3> QED
      BY <1>2, <3>1, NatHasGreatest
  <2>2. x \in 0..MaxTXID /\ x + 1 \in 0..(MaxTXID + 1) /\ ~(x + 1 <= x)
    BY <1>0, <1>1
  <2>3. x + 1 \notin T
    <3> HIDE DEF T
    <3> QED
      BY <2>1, <2>2
  <2>4. PICK h : Solves(ext, h, x + 1)
    BY <2>2, <2>3
  <2>5. \E g : Solves(ext, g, x)
    BY <2>2, <2>4, SolvesOneMore
  <2> QED
    BY <2>5
<1>3. CASE T = {}
  <2>1. 0 \in 0..(MaxTXID + 1)
    BY <1>0
  <2> QED
    BY <1>3, <2>1
<1> QED
  BY <1>2, <1>3

\* A chain at the end of a solution.
LEMMA SolutionLinked ==
    ASSUME HistInv, NEW ext, GoesOn(ext), NEW g, Solves(ext, g, 0), NEW lo \in 0..MaxTXID
    PROVE  Linked(g[lo], lo)
<1> DEFINE T == {c \in 0..MaxTXID : ~Linked(g[c], c)}
<1>0. MaxTXID \in Nat
  BY VFSReadAssumption
<1> SUFFICES ASSUME T # {} PROVE FALSE
  OBVIOUS
<1>1. PICK x \in T : \A y \in T : y <= x
  <2>1. T \in SUBSET Nat /\ \A y \in T : y <= MaxTXID
    BY <1>0
  <2> HIDE DEF T
  <2> QED
    BY <1>0, <2>1, NatHasGreatest
<1>2. g[x] = Value(ext, g, x)
  BY DEF Solves
<1>3. CASE ext[x] = {}
  <2>1. g[x] = <<>>
    BY <1>2, <1>3 DEF Value
  <2> QED
    BY <2>1, EmptyLinked
<1>4. CASE ext[x] # {}
  <2>1. PICK f : f = NextFile(ext[x]) /\ f \in Stored /\ f.min <= x + 1 /\ f.max \in (x + 1)..MaxTXID
    BY <1>4 DEF GoesOn
  <2>2. g[x] = <<f>> \o g[f.max]
    BY <1>2, <1>4, <2>1 DEF Value
  <2>3. x \in Nat /\ f.max \in 0..MaxTXID /\ f.max > x
    BY <1>0, <2>1
  <2>4. f.max \notin T
    <3> HIDE DEF T
    <3> QED
      BY <1>1, <2>3
  <2>5. Linked(g[f.max], f.max)
    BY <2>3, <2>4
  <2>6. Linked(<<f>> \o g[f.max], x)
    BY <2>1, <2>3, <2>5, LinkedCons
  <2> QED
    BY <2>2, <2>6
<1> QED
  BY <1>3, <1>4

\* What Plan and PollLevel compute: files of the listing that continue one another.
LEMMA PlanFromLinked ==
    ASSUME HistInv, NEW L \in SUBSET Stored, NEW lo \in 0..MaxTXID
    PROVE  Linked(PlanFrom(L, lo), lo)
<1> DEFINE ext == [c \in 0..MaxTXID |-> Extending(L, c)]
           F(g) == [c \in 0..MaxTXID |-> IF Extending(L, c) = {} THEN <<>>
                                         ELSE LET f == NextFile(Extending(L, c)) IN <<f>> \o g[f.max]]
           chain == CHOOSE g : g = F(g)
<1>1. \A c \in 0..MaxTXID : ext[c] = Extending(L, c)
  OBVIOUS
<1>2. GoesOn(ext)
  <2>1. \A c \in 0..MaxTXID : ext[c] \in SUBSET Stored /\ \A f \in ext[c] : f.min <= c + 1 /\ f.max > c
    BY DEF Extending
  <2> HIDE DEF ext
  <2> QED
    BY <2>1, FilesGoOn
<1>3. \A g : Solves(ext, g, 0) <=> g = F(g)
  <2> HIDE DEF ext
  <2> QED
    BY <1>1 DEF Solves, Value
<1>4. PICK g : g = F(g)
  <2> HIDE DEF ext, F
  <2> QED
    BY <1>2, <1>3, SolutionExists
<1>5. chain = F(chain)
  <2> HIDE DEF F
  <2> QED
    BY <1>4, Zenon
<1>6. PlanFrom(L, lo) = chain[lo]
  BY DEF PlanFrom
<1> HIDE DEF ext, F, chain
<1>7. Solves(ext, chain, 0)
  BY <1>3, <1>5
<1> QED
  BY <1>2, <1>6, <1>7, SolutionLinked

LEMMA ContiguousLinked ==
    ASSUME HistInv, NEW L \in SUBSET Stored, NEW lo \in 0..MaxTXID
    PROVE  Linked(Contiguous(L, lo), lo)
<1> DEFINE ext == [c \in 0..MaxTXID |-> Following(L, c)]
           F(g) == [c \in 0..MaxTXID |-> IF Following(L, c) = {} THEN <<>>
                                         ELSE LET f == NextFile(Following(L, c)) IN <<f>> \o g[f.max]]
           chain == CHOOSE g : g = F(g)
<1>1. \A c \in 0..MaxTXID : ext[c] = Following(L, c)
  OBVIOUS
<1>2. GoesOn(ext)
  <2>1. ASSUME NEW c \in 0..MaxTXID, NEW f \in ext[c] PROVE f.min <= c + 1 /\ f.max > c
    <3>1. f \in L /\ f.min = c + 1 /\ f \in Stored
      BY <2>1 DEF Following
    <3>2. c \in Nat /\ f.max \in Nat /\ f.min <= f.max
      BY <3>1, StoredType, VFSReadAssumption
    <3> QED
      BY <3>1, <3>2
  <2>2. \A c \in 0..MaxTXID : ext[c] \in SUBSET Stored
    BY DEF Following
  <2> HIDE DEF ext
  <2> QED
    BY <2>1, <2>2, FilesGoOn
<1>3. \A g : Solves(ext, g, 0) <=> g = F(g)
  <2> HIDE DEF ext
  <2> QED
    BY <1>1 DEF Solves, Value
<1>4. PICK g : g = F(g)
  <2> HIDE DEF ext, F
  <2> QED
    BY <1>2, <1>3, SolutionExists
<1>5. chain = F(chain)
  <2> HIDE DEF F
  <2> QED
    BY <1>4, Zenon
<1>6. Contiguous(L, lo) = chain[lo]
  BY DEF Contiguous
<1> HIDE DEF ext, F, chain
<1>7. Solves(ext, chain, 0)
  BY <1>3, <1>5
<1> QED
  BY <1>2, <1>6, <1>7, SolutionLinked

\* The plan that a call sets out with reaches from the first transaction on.
LEMMA PlanLinked ==
    ASSUME HistInv, NEW L \in SUBSET Stored
    PROVE  Linked(Plan(L), 0)
<1> DEFINE snapshots == {f \in L : f.level = SnapshotLevel}
           s == NextFile(snapshots)
<1>0. 0 \in 0..MaxTXID
  BY VFSReadAssumption
<1>1. CASE snapshots = {}
  <2>1. Plan(L) = PlanFrom(L, 0)
    BY <1>1 DEF Plan
  <2> QED
    BY <1>0, <2>1, PlanFromLinked
<1>2. CASE snapshots # {}
  <2>1. Plan(L) = <<s>> \o PlanFrom(L, s.max)
    BY <1>2 DEF Plan
  <2>2. s \in snapshots
    <3>1. snapshots \in SUBSET File
      BY DEF Stored
    <3> HIDE DEF snapshots
    <3> QED
      BY <1>2, <3>1, NextFileIn
  <2>3. s \in Stored /\ s.level = SnapshotLevel
    <3> HIDE DEF s
    <3> QED
      BY <2>2
  <2> HIDE DEF s
  <2>4. s.min = 1 /\ s.max \in 0..MaxTXID /\ s.max > 0 /\ s.min <= 0 + 1
    <3>1. s.min = 1
      BY <2>3 DEF Stored
    <3>2. s.max \in Nat /\ s.min <= s.max /\ s.max \in 0..MaxTXID
      BY <2>3, StoredType
    <3> QED
      BY <3>1, <3>2
  <2> QED
    BY <2>1, <2>3, <2>4, PlanFromLinked, LinkedCons
<1> QED
  BY <1>1, <1>2

-----------------------------------------------------------------------------
(* Files that continue one another.                                        *)

LEMMA LinkedType ==
    ASSUME HistInv, NEW s, NEW lo \in Nat, Linked(s, lo)
    PROVE  /\ s \in Seq(Stored) /\ Len(s) \in Nat /\ (s # <<>> => Len(s) >= 1 /\ Len(s) \in 1..Len(s))
           /\ \A i \in 1..Len(s) : s[i] \in Stored /\ s[i].min \in Nat /\ s[i].max \in Nat
                                   /\ s[i].min >= 1 /\ s[i].min <= s[i].max /\ s[i].max <= Len(hist)
<1>1. s \in Seq(Stored)
  BY DEF Linked
<1>2. Len(s) \in Nat /\ (s # <<>> => Len(s) >= 1 /\ Len(s) \in 1..Len(s)) /\ \A i \in 1..Len(s) : s[i] \in Stored
  BY <1>1
<1> QED
  BY <1>1, <1>2, StoredType

\* Their ends grow.
LEMMA LinkedGrows ==
    ASSUME HistInv, NEW s, NEW lo \in Nat, Linked(s, lo), NEW i \in 1..Len(s), NEW j \in 1..Len(s), i <= j
    PROVE  s[i].max <= s[j].max
<1> DEFINE T == {k \in i..Len(s) : s[i].max > s[k].max}
<1>1. /\ Len(s) \in Nat /\ i \in Nat /\ j \in Nat
      /\ \A k \in 1..Len(s) : s[k].max \in Nat
  BY LinkedType
<1> SUFFICES ASSUME T # {} PROVE FALSE
  BY <1>1
<1>2. PICK k \in T : \A m \in T : k <= m
  <2>1. T \in SUBSET Nat
    BY <1>1
  <2> HIDE DEF T
  <2> QED
    BY <2>1, NatHasLeast
<1>3. k \in i..Len(s) /\ k # i /\ k \in 1..Len(s) /\ k - 1 \in i..Len(s) /\ k - 1 \in 1..(Len(s) - 1) /\ k \in Nat
  BY <1>1
<1>4. k - 1 \notin T
  <2> HIDE DEF T
  <2> QED
    BY <1>2, <1>3
<1>5. PICK m \in 1..(Len(s) - 1) : m = k - 1 /\ m + 1 = k /\ m \in 1..Len(s)
  BY <1>1, <1>3
<1>6. s[m].max < s[k].max
  BY <1>5 DEF Linked
<1>7. s[i].max <= s[m].max
  BY <1>1, <1>3, <1>4, <1>5
<1>8. s[i].max > s[k].max
  OBVIOUS
<1>9. PICK a \in Nat, b \in Nat, c \in Nat : a = s[i].max /\ b = s[m].max /\ c = s[k].max
  BY <1>1, <1>3, <1>5
<1>10. a <= b /\ b < c /\ a > c
  BY <1>6, <1>7, <1>8, <1>9
<1> QED
  BY <1>10

\* Every transaction behind lo is in one of them.
LEMMA LinkedCovers ==
    ASSUME HistInv, NEW s, NEW lo \in Nat, Linked(s, lo), s # <<>>, NEW u \in Nat, lo < u, u <= LastMax(s)
    PROVE  \E i \in 1..Len(s) : u \in s[i].min..s[i].max
<1> DEFINE T == {i \in 1..Len(s) : u <= s[i].max}
<1>1. /\ Len(s) \in Nat /\ Len(s) \in 1..Len(s)
      /\ \A i \in 1..Len(s) : s[i].max \in Nat /\ s[i].min \in Nat
  BY LinkedType
<1>2. PICK i \in T : \A k \in T : i <= k
  <2>1. T \in SUBSET Nat /\ T # {}
    BY <1>1 DEF LastMax
  <2> HIDE DEF T
  <2> QED
    BY <2>1, NatHasLeast
<1>3. i \in 1..Len(s) /\ u <= s[i].max /\ i \in Nat
  BY <1>1
<1>4. s[i].min <= u
  <2>1. CASE i = 1
    <3>1. s[1].min <= lo + 1
      BY DEF Linked
    <3> QED
      BY <1>1, <1>3, <2>1, <3>1
  <2>2. CASE i # 1
    <3>1. PICK m \in 1..(Len(s) - 1) : m + 1 = i /\ m \in 1..Len(s) /\ ~(i <= m)
      <4>1. i - 1 \in 1..(Len(s) - 1) /\ (i - 1) + 1 = i /\ i - 1 \in 1..Len(s) /\ ~(i <= i - 1)
        BY <1>1, <1>3, <2>2
      <4> QED
        BY <4>1
    <3>2. m \notin T
      <4> HIDE DEF T
      <4> QED
        BY <1>2, <3>1
    <3>3. s[m].max < u
      BY <1>1, <3>1, <3>2
    <3>4. s[i].min <= s[m].max + 1
      BY <3>1 DEF Linked
    <3> QED
      BY <1>1, <1>3, <3>1, <3>3, <3>4
  <2> QED
    BY <2>1, <2>2
<1> QED
  BY <1>1, <1>3, <1>4

-----------------------------------------------------------------------------
(* What files hold.                                                        *)

LEMMA ElementOfSeq == ASSUME NEW R, NEW s \in Seq(R), NEW i \in 1..Len(s) PROVE s[i] \in R
  OBVIOUS

LEMMA HistType ==
    ASSUME HistInv
    PROVE  /\ Len(hist) \in Nat /\ Len(hist) >= 1 /\ Len(hist) <= MaxTXID
           /\ \A t \in 1..Len(hist) : hist[t].pages \in SUBSET Page /\ hist[t].commit \in Page /\ hist[t].commit \in Nat
<1>1. Len(hist) \in Nat /\ Len(hist) >= 1 /\ Len(hist) <= MaxTXID
  BY VFSReadAssumption DEF HistInv
<1>2. PICK R : R = [pages: SUBSET Page, commit: Page] /\ hist \in Seq(R)
  BY DEF HistInv
<1>3. \A t \in 1..Len(hist) : hist[t] \in R
  BY <1>1, <1>2, ElementOfSeq
<1>4. Page \in SUBSET Nat
  BY VFSReadAssumption DEF Page
<1>5. \A t \in 1..Len(hist) : hist[t].pages \in SUBSET Page /\ hist[t].commit \in Page
  BY <1>2, <1>3
<1> QED
  BY <1>1, <1>4, <1>5

LEMMA NoElemIsNoFile == NoElem \notin File
BY DEF NoElem, File, SnapshotLevel

LEMMA ContentIs ==
    ASSUME HistInv, NEW f \in Stored, NEW p \in PagesOf(f)
    PROVE  /\ Content(p, f) \in f.min..f.max /\ p \in hist[Content(p, f)].pages
           /\ \A u \in f.min..f.max : p \in hist[u].pages => u <= Content(p, f)
<1> DEFINE W == {t \in f.min..f.max : p \in hist[t].pages}
<1>1. f.min \in Nat /\ f.max \in Nat
  BY StoredType
<1>2. W \in SUBSET Nat /\ W # {} /\ \A t \in W : t <= f.max
  BY <1>1 DEF PagesOf
<1>3. Max(W) \in W /\ \A t \in W : t <= Max(W)
  <2> HIDE DEF W
  <2> QED
    BY <1>1, <1>2, MaxIsIn
<1>4. Content(p, f) = Max(W)
  BY DEF Content
<1> QED
  BY <1>3, <1>4

LEMMA LastWriteIs ==
    ASSUME NEW p, NEW t \in Nat
    PROVE  /\ LastWrite(p, t) \in 0..t
           /\ LastWrite(p, t) > 0 => p \in hist[LastWrite(p, t)].pages
           /\ \A u \in 1..t : p \in hist[u].pages => u <= LastWrite(p, t)
<1> DEFINE W == {0} \cup {u \in 1..t : p \in hist[u].pages}
<1>1. W \in SUBSET Nat /\ W # {} /\ \A u \in W : u <= t
  OBVIOUS
<1>2. Max(W) \in W /\ \A u \in W : u <= Max(W)
  <2> HIDE DEF W
  <2> QED
    BY <1>1, MaxIsIn
<1>3. LastWrite(p, t) = Max(W)
  BY DEF LastWrite
<1> QED
  BY <1>2, <1>3

\* Nothing has been written to a page between two transactions.
Unwritten(p, s, t) == \A u \in (s + 1)..t : p \notin hist[u].pages

LEMMA LastWriteKept ==
    ASSUME NEW p, NEW s \in Nat, NEW t \in Nat, s <= t
    PROVE  /\ LastWrite(p, s) <= LastWrite(p, t)
           /\ Unwritten(p, s, t) => LastWrite(p, t) = LastWrite(p, s)
<1>1. PICK a \in 0..s, b \in 0..t : a = LastWrite(p, s) /\ b = LastWrite(p, t)
  BY LastWriteIs
<1>2. a > 0 => p \in hist[a].pages
  BY <1>1, LastWriteIs
<1>3. b > 0 => p \in hist[b].pages
  BY <1>1, LastWriteIs
<1>4. a <= b
  <2>1. CASE a > 0
    <3>1. a \in 1..t
      BY <2>1
    <3> QED
      BY <1>1, <1>2, <2>1, <3>1, LastWriteIs
  <2> QED
    BY <2>1
<1>5. ASSUME Unwritten(p, s, t) PROVE b = a
  <2>1. b <= s
    <3>1. CASE b > s
      <4>1. b \in (s + 1)..t /\ b > 0
        BY <3>1
      <4> QED
        BY <1>3, <1>5, <4>1 DEF Unwritten
    <3> QED
      BY <3>1
  <2>2. b <= a
    <3>1. CASE b > 0
      <4>1. b \in 1..s
        BY <2>1, <3>1
      <4> QED
        BY <1>1, <1>3, <3>1, <4>1, LastWriteIs
    <3> QED
      BY <3>1
  <2> QED
    BY <1>4, <2>2
<1> QED
  BY <1>1, <1>4, <1>5

\* A file holds the last write of a page if there is none behind it.
LEMMA EntryExact ==
    ASSUME HistInv, NEW f \in Stored, NEW p \in PagesOf(f), NEW t \in Nat, f.max <= t, Unwritten(p, f.max, t)
    PROVE  Content(p, f) = LastWrite(p, t)
<1>1. f.min \in Nat /\ f.max \in Nat /\ f.min >= 1
  BY StoredType
<1>2. PICK c \in f.min..f.max : c = Content(p, f)
  BY ContentIs
<1>3. p \in hist[c].pages /\ \A u \in f.min..f.max : p \in hist[u].pages => u <= c
  BY <1>2, ContentIs
<1>4. PICK w \in 0..f.max : w = LastWrite(p, f.max)
  BY <1>1, LastWriteIs
<1>5. (w > 0 => p \in hist[w].pages) /\ \A u \in 1..f.max : p \in hist[u].pages => u <= w
  BY <1>1, <1>4, LastWriteIs
<1>6. c <= w
  <2>1. c \in 1..f.max
    BY <1>1, <1>2
  <2> QED
    BY <1>3, <1>5, <2>1
<1>7. w <= c
  <2>1. w \in f.min..f.max /\ w > 0
    BY <1>1, <1>2, <1>6
  <2> QED
    BY <1>3, <1>5, <2>1
<1>8. w = c
  BY <1>1, <1>2, <1>4, <1>6, <1>7
<1>9. LastWrite(p, t) = w
  BY <1>1, <1>4, LastWriteKept
<1> QED
  BY <1>2, <1>8, <1>9

LEMMA PagesOfType == ASSUME HistInv, NEW f \in Stored PROVE PagesOf(f) \in SUBSET Page
<1>1. f.max \in 1..Len(hist)
  BY StoredType
<1>2. hist[f.max].commit \in Page
  BY <1>1, HistType
<1> QED
  BY <1>2, VFSReadAssumption DEF PagesOf, Page

\* The pages that the database has had in every state.
LEMMA LeastSize ==
    ASSUME NEW h \in Seq([pages: SUBSET Page, commit: Page]), Len(h) >= 1, NEW p
    PROVE  p \in 1..Min({h[t].commit : t \in DOMAIN h})
             <=> p \in Nat /\ p >= 1 /\ \A t \in 1..Len(h) : p <= h[t].commit
<1> DEFINE C == {h[t].commit : t \in DOMAIN h}
<1>1. DOMAIN h = 1..Len(h) /\ Len(h) \in Nat /\ \A t \in 1..Len(h) : h[t].commit \in Nat
  <2>1. PICK R : R = [pages: SUBSET Page, commit: Page] /\ h \in Seq(R)
    OBVIOUS
  <2>2. \A t \in 1..Len(h) : h[t] \in R
    BY <2>1, ElementOfSeq
  <2>3. Page \in SUBSET Nat
    BY VFSReadAssumption DEF Page
  <2>4. DOMAIN h = 1..Len(h) /\ Len(h) \in Nat
    BY <2>1
  <2> QED
    BY <2>1, <2>2, <2>3, <2>4
<1>2. C \in SUBSET Nat /\ C # {}
  <2>1. 1 \in DOMAIN h
    BY <1>1
  <2> QED
    BY <1>1, <2>1
<1>3. Min(C) \in C /\ \A c \in C : Min(C) <= c
  <2>1. \E x \in C : \A y \in C : x <= y
    <3> HIDE DEF C
    <3> QED
      BY <1>2, NatHasLeast
  <2> HIDE DEF C
  <2> QED
    BY <2>1, Zenon DEF Min
<1>4. PICK s \in 1..Len(h) : Min(C) = h[s].commit /\ \A t \in 1..Len(h) : h[s].commit <= h[t].commit
  BY <1>1, <1>3
<1>5. PICK m \in Nat : m = Min(C) /\ m = h[s].commit /\ \A t \in 1..Len(h) : m <= h[t].commit
  BY <1>1, <1>4
<1>6. ASSUME p \in Nat, p <= m, NEW t \in 1..Len(h) PROVE p <= h[t].commit
  <2>1. PICK c \in Nat : c = h[t].commit /\ m <= c
    BY <1>1, <1>5
  <2> QED
    BY <1>6, <2>1
<1>7. p \in 1..m <=> p \in Nat /\ p >= 1 /\ p <= m
  OBVIOUS
<1>8. p \in 1..m <=> p \in Nat /\ p >= 1 /\ \A t \in 1..Len(h) : p <= h[t].commit
  <2> HIDE DEF C
  <2> QED
    BY <1>5, <1>6, <1>7
<1> QED
  BY <1>5, <1>8

LEMMA LastingSize ==
    ASSUME HistInv, NEW p \in Lasting
    PROVE  p \in Page /\ p \in Nat /\ p >= 1 /\ \A t \in 1..Len(hist) : p <= hist[t].commit
<1>1. hist \in Seq([pages: SUBSET Page, commit: Page]) /\ Len(hist) >= 1 /\ 1 \in 1..Len(hist)
  BY HistType DEF HistInv
<1>2. p \in Nat /\ p >= 1 /\ \A t \in 1..Len(hist) : p <= hist[t].commit
  <2>1. p \in 1..Min({hist[t].commit : t \in DOMAIN hist})
    BY DEF Lasting
  <2> QED
    BY <1>1, <2>1, LeastSize
<1>3. p \in Page
  <2>1. p <= hist[1].commit /\ hist[1].commit \in 1..MaxPage
    BY <1>1, <1>2, HistType DEF Page
  <2> QED
    BY <1>2, <2>1, VFSReadAssumption DEF Page
<1> QED
  BY <1>2, <1>3

\* A lasting page that a transaction of a file wrote is in the file.
LEMMA LastingInFile ==
    ASSUME HistInv, NEW f \in Stored, NEW p \in Lasting, NEW u \in f.min..f.max, p \in hist[u].pages
    PROVE  p \in PagesOf(f)
<1>1. f.max \in 1..Len(hist)
  BY StoredType
<1>2. p <= hist[f.max].commit /\ p \in Nat /\ p >= 1
  BY <1>1, LastingSize
<1> QED
  BY <1>1, <1>2, HistType DEF PagesOf

-----------------------------------------------------------------------------
(* Indexes.                                                                *)

\* idx has the newest entries of the files of s from the k-th on.
Newest(idx, s, k) ==
    \A p \in Page :
        IF idx[p] = NoElem THEN \A i \in k..Len(s) : p \notin PagesOf(s[i])
        ELSE \E j \in k..Len(s) : /\ idx[p] = s[j] /\ p \in PagesOf(s[j])
                                  /\ \A i \in (j + 1)..Len(s) : p \notin PagesOf(s[i])

LEMMA IndexOfNewest ==
    ASSUME HistInv, NEW s \in Seq(Stored)
    PROVE  IsIndex(IndexOf(s)) /\ Newest(IndexOf(s), s, 1)
<1>1. DOMAIN s = 1..Len(s) /\ Len(s) \in Nat /\ \A i \in 1..Len(s) : s[i] \in Stored /\ s[i] \in File /\ s[i] # NoElem
  <2>1. DOMAIN s = 1..Len(s) /\ Len(s) \in Nat /\ \A i \in 1..Len(s) : s[i] \in Stored
    OBVIOUS
  <2>2. Stored \subseteq File
    BY DEF Stored
  <2> QED
    BY <2>1, <2>2, NoElemIsNoFile
<1>2. ASSUME NEW p \in Page
      PROVE  /\ IndexOf(s)[p] \in File \cup {NoElem} /\ IsEntry(p, IndexOf(s)[p])
             /\ IF IndexOf(s)[p] = NoElem THEN \A i \in 1..Len(s) : p \notin PagesOf(s[i])
                ELSE \E j \in 1..Len(s) : /\ IndexOf(s)[p] = s[j] /\ p \in PagesOf(s[j])
                                          /\ \A i \in (j + 1)..Len(s) : p \notin PagesOf(s[i])
  <2> DEFINE having == {i \in DOMAIN s : p \in PagesOf(s[i])}
  <2>1. IndexOf(s)[p] = IF having = {} THEN NoElem ELSE s[Max(having)]
    BY DEF IndexOf
  <2>2. CASE having = {}
    <3>1. IndexOf(s)[p] = NoElem
      BY <2>1, <2>2
    <3>2. \A i \in 1..Len(s) : p \notin PagesOf(s[i])
      BY <1>1, <2>2
    <3> QED
      BY <3>1, <3>2 DEF IsEntry
  <2>3. CASE having # {}
    <3>1. having \in SUBSET Nat /\ \A i \in having : i <= Len(s)
      BY <1>1
    <3>2. Max(having) \in having /\ \A i \in having : i <= Max(having)
      <4> HIDE DEF having
      <4> QED
        BY <1>1, <2>3, <3>1, MaxIsIn
    <3>3. PICK j \in 1..Len(s) : j = Max(having) /\ p \in PagesOf(s[j])
      BY <1>1, <3>2
    <3>4. ASSUME NEW i \in (j + 1)..Len(s) PROVE p \notin PagesOf(s[i])
      <4>1. i \in 1..Len(s) /\ ~(i <= j)
        BY <1>1, <3>3
      <4> QED
        BY <1>1, <3>2, <3>3, <4>1
    <3>5. IndexOf(s)[p] = s[j]
      BY <2>1, <2>3, <3>3
    <3> HIDE DEF having
    <3>6. s[j] \in File /\ s[j] \in Stored /\ s[j] # NoElem
      BY <1>1, <3>3
    <3> QED
      BY <3>3, <3>4, <3>5, <3>6 DEF IsEntry
  <2> QED
    BY <2>2, <2>3
<1>3. IndexOf(s) = [p \in Page |-> IndexOf(s)[p]]
  BY DEF IndexOf
<1>4. IndexOf(s) \in Index
  BY <1>2, <1>3 DEF Index
<1> QED
  BY <1>2, <1>4 DEF IsIndex, Newest

LEMMA IndexOfSuffix ==
    ASSUME HistInv, NEW s \in Seq(Stored), NEW k \in 1..Len(s)
    PROVE  IsIndex(IndexOf(SubSeq(s, k, Len(s)))) /\ Newest(IndexOf(SubSeq(s, k, Len(s))), s, k)
<1>1. PICK n \in Nat : n = Len(s) /\ k <= n /\ k >= 1 /\ k \in Nat
  OBVIOUS
<1>2. PICK t : t = SubSeq(s, k, Len(s))
  OBVIOUS
<1>3. t \in Seq(Stored) /\ Len(t) = n - k + 1 /\ \A i \in 1..(n - k + 1) : t[i] = s[k + i - 1]
  BY <1>1, <1>2
<1>4. IsIndex(IndexOf(t)) /\ Newest(IndexOf(t), t, 1)
  BY <1>3, IndexOfNewest
<1>5. \A i \in k..n : i - k + 1 \in 1..Len(t) /\ t[i - k + 1] = s[i]
  <2>1. \A i \in k..n : i - k + 1 \in 1..(n - k + 1) /\ k + (i - k + 1) - 1 = i
    BY <1>1
  <2> QED
    BY <1>3, <2>1
<1>6. PICK idx : idx = IndexOf(t)
  OBVIOUS
<1>7. ASSUME NEW p \in Page
      PROVE  IF idx[p] = NoElem THEN \A i \in k..n : p \notin PagesOf(s[i])
             ELSE \E j \in k..n : /\ idx[p] = s[j] /\ p \in PagesOf(s[j])
                                  /\ \A i \in (j + 1)..n : p \notin PagesOf(s[i])
  <2>1. CASE idx[p] = NoElem
    <3>1. \A i \in 1..Len(t) : p \notin PagesOf(t[i])
      BY <1>4, <1>6, <2>1 DEF Newest
    <3>2. \A i \in k..n : p \notin PagesOf(s[i])
      BY <1>5, <3>1
    <3> QED
      BY <2>1, <3>2
  <2>2. CASE idx[p] # NoElem
    <3>1. PICK l \in 1..Len(t) : /\ idx[p] = t[l] /\ p \in PagesOf(t[l])
                                 /\ \A i \in (l + 1)..Len(t) : p \notin PagesOf(t[i])
      BY <1>4, <1>6, <2>2 DEF Newest
    <3>2. PICK j \in k..n : j = k + l - 1 /\ t[l] = s[j]
      <4>1. k + l - 1 \in k..n /\ l \in 1..(n - k + 1)
        BY <1>1, <1>3
      <4> QED
        BY <1>3, <4>1
    <3>3. ASSUME NEW i \in (j + 1)..n PROVE p \notin PagesOf(s[i])
      <4>1. i \in k..n /\ i - k + 1 \in (l + 1)..Len(t)
        BY <1>1, <1>3, <3>2
      <4> QED
        BY <1>5, <3>1, <4>1
    <3> QED
      BY <2>2, <3>1, <3>2, <3>3
  <2> QED
    BY <2>1, <2>2
<1> QED
  BY <1>1, <1>2, <1>4, <1>6, <1>7 DEF Newest

\* The entries are newer than where the files start.
LEMMA NewestType ==
    ASSUME HistInv, NEW s, NEW lo \in Nat, Linked(s, lo), NEW k \in 1..Len(s), NEW idx, Newest(idx, s, k),
           NEW p \in Page, idx[p] # NoElem
    PROVE  \E j \in k..Len(s) : /\ j \in 1..Len(s) /\ idx[p] = s[j] /\ s[j] \in Stored /\ p \in PagesOf(s[j])
                                /\ \A i \in (j + 1)..Len(s) : p \notin PagesOf(s[i])
<1>1. PICK j \in k..Len(s) : /\ idx[p] = s[j] /\ p \in PagesOf(s[j])
                             /\ \A i \in (j + 1)..Len(s) : p \notin PagesOf(s[i])
  BY DEF Newest
<1>2. j \in 1..Len(s) /\ Len(s) \in Nat
  BY LinkedType
<1> QED
  BY <1>1, <1>2, LinkedType

\* No file behind the newest one with a page: no write of it either, if the
\* file with the last write has the page.
LEMMA UnwrittenBehind ==
    ASSUME HistInv, NEW s, NEW lo \in Nat, Linked(s, lo), NEW j \in 1..Len(s), NEW p,
           \A i \in (j + 1)..Len(s) : p \notin PagesOf(s[i]),
           \A f \in Stored : LastWrite(p, LastMax(s)) \in f.min..f.max /\ f.max <= LastMax(s) => p \in PagesOf(f)
    PROVE  Unwritten(p, s[j].max, LastMax(s))
<1> SUFFICES ASSUME NEW v \in (s[j].max + 1)..LastMax(s), p \in hist[v].pages PROVE FALSE
  BY DEF Unwritten
<1>1. /\ Len(s) \in Nat /\ s # <<>> /\ Len(s) \in 1..Len(s) /\ j \in Nat
      /\ \A i \in 1..Len(s) : s[i] \in Stored /\ s[i].max \in Nat /\ s[i].min \in Nat /\ s[i].min >= 1
  BY LinkedType
<1>2. PICK m \in Nat, n \in Nat : m = s[j].max /\ n = LastMax(s) /\ m >= 0
  BY <1>1 DEF LastMax
<1>3. PICK u \in Nat : u = LastWrite(p, LastMax(s)) /\ u > m /\ u <= n
  <2>1. PICK w \in 0..n : w = LastWrite(p, n)
    BY LastWriteIs
  <2>2. v \in 1..n /\ v > m
    BY <1>2
  <2>3. v <= w
    BY <2>1, <2>2, LastWriteIs
  <2>4. w \in Nat /\ w > m /\ w <= n
    BY <2>1, <2>2, <2>3
  <2> QED
    BY <1>2, <2>1, <2>4
<1>4. lo < s[j].max
  <2>1. 1 \in 1..Len(s) /\ 1 <= j
    BY <1>1
  <2>2. s[1].max > lo /\ s[1].max <= s[j].max /\ s[1].max \in Nat
    BY <1>1, <2>1, LinkedGrows DEF Linked
  <2> QED
    BY <1>2, <2>2
<1>5. PICK i \in 1..Len(s) : u \in s[i].min..s[i].max
  <2>1. lo < u
    BY <1>2, <1>3, <1>4
  <2> QED
    BY <1>1, <1>2, <1>3, <2>1, LinkedCovers
<1>6. i > j
  <2> SUFFICES ASSUME i <= j PROVE FALSE
    BY <1>1
  <2>1. s[i].max <= s[j].max
    BY LinkedGrows
  <2>2. PICK b \in Nat : b = s[i].max /\ u <= b
    BY <1>1, <1>3, <1>5
  <2> QED
    BY <1>2, <1>3, <2>1, <2>2
<1>7. s[i].max <= LastMax(s)
  <2>1. i <= Len(s)
    BY <1>1
  <2> QED
    BY <1>1, <2>1, LinkedGrows DEF LastMax
<1>8. p \in PagesOf(s[i])
  BY <1>1, <1>3, <1>5, <1>7
<1>9. i \in (j + 1)..Len(s)
  BY <1>1, <1>6
<1> QED
  BY <1>8, <1>9

\* A page that the database has after t, and that nothing has written since w,
\* was never dropped since w.
LEMMA PageStays ==
    ASSUME HistInv, NEW t \in 1..Len(hist), NEW p \in Page, p <= hist[t].commit, NEW w \in Nat, Unwritten(p, w, t),
           NEW v \in w..t, v >= 1
    PROVE  p <= hist[v].commit
<1> DEFINE T == {x \in v..t : ~(p <= hist[x].commit)}
<1>1. /\ t \in Nat /\ v \in Nat /\ p \in Nat /\ Len(hist) \in Nat
      /\ \A x \in v..t : x \in 1..Len(hist) /\ hist[x].commit \in Nat
  BY HistType, VFSReadAssumption DEF Page
<1> SUFFICES ASSUME T # {} PROVE FALSE
  BY <1>1
<1>2. PICK x \in T : \A y \in T : y <= x
  <2>1. T \in SUBSET Nat /\ \A y \in T : y <= t
    BY <1>1
  <2> HIDE DEF T
  <2> QED
    BY <1>1, <2>1, NatHasGreatest
<1>3. x \in v..t /\ hist[x].commit < p /\ x # t
  BY <1>1
<1>4. x + 1 \in v..t /\ ~(x + 1 <= x) /\ x \in 1..(Len(hist) - 1) /\ x + 1 \in (w + 1)..t
  BY <1>1, <1>3
<1>5. p <= hist[x + 1].commit
  <2>1. x + 1 \notin T
    <3> HIDE DEF T
    <3> QED
      BY <1>2, <1>4
  <2> QED
    BY <1>4, <2>1
<1>6. p \in hist[x + 1].pages
  BY <1>3, <1>4, <1>5 DEF HistInv
<1> QED
  BY <1>4, <1>6 DEF Unwritten

\* The index of a plan is the database at its end.
LEMMA PlanExact ==
    ASSUME HistInv, NEW s, Linked(s, 0), s # <<>>, NEW p \in 1..hist[LastMax(s)].commit
    PROVE  IndexOf(s)[p] # NoElem /\ Content(p, IndexOf(s)[p]) = LastWrite(p, LastMax(s))
<1>1. /\ s \in Seq(Stored) /\ Len(s) \in Nat /\ Len(s) \in 1..Len(s) /\ 1 \in 1..Len(s)
      /\ \A i \in 1..Len(s) : s[i] \in Stored /\ s[i].min \in Nat /\ s[i].max \in Nat
                              /\ s[i].min >= 1 /\ s[i].min <= s[i].max /\ s[i].max <= Len(hist)
  BY LinkedType
<1>2. PICK t \in 1..Len(hist) : t = LastMax(s) /\ t \in Nat
  <2>1. LastMax(s) \in 1..Len(hist) /\ LastMax(s) \in Nat
    BY <1>1, StoredType DEF LastMax
  <2> QED
    BY <2>1
<1>3. p \in Page /\ p \in Nat /\ p <= hist[t].commit /\ p >= 1
  <2>1. hist[t].commit \in Page /\ hist[t].commit \in Nat
    BY HistType
  <2> QED
    BY <1>2, <2>1, VFSReadAssumption DEF Page
<1>4. PICK w \in 0..t : w = LastWrite(p, t)
  BY <1>2, LastWriteIs
<1>5. (w > 0 => p \in hist[w].pages) /\ \A u \in 1..t : p \in hist[u].pages => u <= w
  BY <1>2, <1>4, LastWriteIs
<1>6. w >= 1
  <2>1. 1 \in 1..t /\ p \in hist[1].pages
    BY <1>2, <1>3 DEF HistInv
  <2> QED
    BY <1>5, <2>1
<1>7. Unwritten(p, w, t)
  BY <1>2, <1>4, <1>5 DEF Unwritten
<1>8. ASSUME NEW f \in Stored, w \in f.min..f.max, f.max <= t PROVE p \in PagesOf(f)
  <2>1. f.max \in Nat /\ f.max \in 1..Len(hist)
    BY StoredType
  <2>2. f.max \in w..t /\ f.max >= 1
    BY <1>2, <1>6, <1>8, <2>1
  <2>3. p <= hist[f.max].commit
    BY <1>2, <1>3, <1>4, <1>7, <2>2, PageStays
  <2>4. hist[f.max].commit \in Nat
    BY <2>1, HistType
  <2> QED
    BY <1>3, <1>5, <1>6, <1>8, <2>3, <2>4 DEF PagesOf
<1>9. Newest(IndexOf(s), s, 1)
  BY <1>1, IndexOfNewest
<1>10. IndexOf(s)[p] # NoElem
  <2> SUFFICES ASSUME IndexOf(s)[p] = NoElem PROVE FALSE
    OBVIOUS
  <2>1. \A i \in 1..Len(s) : p \notin PagesOf(s[i])
    BY <1>3, <1>9 DEF Newest
  <2>2. PICK i \in 1..Len(s) : w \in s[i].min..s[i].max
    BY <1>2, <1>4, <1>6, LinkedCovers
  <2>3. i <= Len(s) /\ s[i] \in Stored
    BY <1>1
  <2>4. s[i].max <= t
    BY <1>1, <1>2, <2>3, LinkedGrows DEF LastMax
  <2> QED
    BY <1>8, <2>1, <2>2, <2>3, <2>4
<1>11. PICK j \in 1..Len(s) : /\ IndexOf(s)[p] = s[j] /\ s[j] \in Stored /\ p \in PagesOf(s[j])
                              /\ \A i \in (j + 1)..Len(s) : p \notin PagesOf(s[i])
  BY <1>1, <1>3, <1>9, <1>10, NewestType
<1>12. Unwritten(p, s[j].max, LastMax(s))
  BY <1>2, <1>4, <1>8, <1>11, UnwrittenBehind
<1>13. s[j].max <= t
  <2>1. j <= Len(s)
    BY <1>1
  <2> QED
    BY <1>1, <1>2, <2>1, LinkedGrows DEF LastMax
<1> QED
  BY <1>2, <1>10, <1>11, <1>12, <1>13, EntryExact

\* The index of files that continue one another, from the k-th on: a lasting
\* page in it is that of the last write.
LEMMA ListedExact ==
    ASSUME HistInv, NEW s, NEW lo \in Nat, Linked(s, lo), NEW k \in 1..Len(s), NEW idx, Newest(idx, s, k),
           NEW p \in Lasting, idx[p] # NoElem
    PROVE  Content(p, idx[p]) = LastWrite(p, LastMax(s))
<1>1. /\ s \in Seq(Stored) /\ Len(s) \in Nat /\ Len(s) \in 1..Len(s)
      /\ \A i \in 1..Len(s) : s[i] \in Stored /\ s[i].min \in Nat /\ s[i].max \in Nat
                              /\ s[i].min >= 1 /\ s[i].min <= s[i].max /\ s[i].max <= Len(hist)
  BY LinkedType
<1>2. PICK j \in k..Len(s) : /\ j \in 1..Len(s) /\ idx[p] = s[j] /\ s[j] \in Stored /\ p \in PagesOf(s[j])
                             /\ \A i \in (j + 1)..Len(s) : p \notin PagesOf(s[i])
  BY LastingSize, NewestType
<1>3. PICK t \in Nat : t = LastMax(s) /\ s[j].max <= t
  <2>1. j <= Len(s)
    BY <1>1
  <2>2. s[j].max <= LastMax(s) /\ LastMax(s) \in Nat
    BY <1>1, <1>2, <2>1, LinkedGrows DEF LastMax
  <2> QED
    BY <2>2
<1>4. ASSUME NEW f \in Stored, LastWrite(p, t) \in f.min..f.max PROVE p \in PagesOf(f)
  <2>1. PICK w \in 0..t : w = LastWrite(p, t) /\ (w > 0 => p \in hist[w].pages)
    BY LastWriteIs
  <2>2. w > 0
    BY <1>4, <2>1, StoredType
  <2> QED
    BY <1>4, <2>1, <2>2, LastingInFile
<1>5. Unwritten(p, s[j].max, LastMax(s))
  BY <1>2, <1>3, <1>4, UnwrittenBehind
<1> QED
  BY <1>2, <1>3, <1>5, EntryExact

\* A lasting page that none of them has is older than all of them.
LEMMA UnlistedUnwritten ==
    ASSUME HistInv, NEW s, NEW lo \in Nat, Linked(s, lo), s # <<>>, NEW idx, Newest(idx, s, 1),
           NEW p \in Lasting, idx[p] = NoElem
    PROVE  Unwritten(p, lo, LastMax(s))
<1> SUFFICES ASSUME NEW u \in (lo + 1)..LastMax(s), p \in hist[u].pages PROVE FALSE
  BY DEF Unwritten
<1>1. LastMax(s) \in Nat /\ \A i \in 1..Len(s) : s[i] \in Stored
  BY LinkedType DEF LastMax
<1>2. \A i \in 1..Len(s) : p \notin PagesOf(s[i])
  BY LastingSize DEF Newest
<1>3. u \in Nat /\ lo < u /\ u <= LastMax(s)
  BY <1>1
<1>4. PICK i \in 1..Len(s) : u \in s[i].min..s[i].max
  BY <1>3, LinkedCovers
<1> QED
  BY <1>1, <1>2, <1>4, LastingInFile

-----------------------------------------------------------------------------
(* What pollLevel returns.                                                 *)

Polled(r, prev) ==
    /\ r.max \in prev..Len(hist) /\ IsIndex(r.idx) /\ r.commit \in 0..MaxPage /\ r.replace \in BOOLEAN
    /\ UpTo(r.idx, r.max)
    /\ ~r.replace => \A p \in Lasting : r.idx[p] = NoElem => LastWrite(p, r.max) = LastWrite(p, prev)

LEMMA PollLevelGives ==
    ASSUME HistInv, files \subseteq Stored, NEW level, NEW prev \in 0..Len(hist), NEW base \in 0..MaxPage,
           NEW r, r = PollLevel(level, prev, base)
    PROVE  Polled(r, prev)
<1> DEFINE infos == Contiguous(LTXFiles(level, prev + 1), prev)
           sizeBefore(i) == IF i = 1 THEN base ELSE CommitOf(infos[i - 1])
           shrinks == {i \in DOMAIN infos : CommitOf(infos[i]) < sizeBefore(i)}
           k == Max({1} \cup shrinks)
<1>0. Len(hist) \in Nat /\ prev \in Nat /\ prev \in 0..MaxTXID
  BY HistType, VFSReadAssumption
<1>1. /\ r.max = (IF infos = <<>> THEN prev ELSE LastMax(infos))
      /\ r.idx = IndexOf(SubSeq(infos, k, Len(infos)))
      /\ r.commit = (IF infos = <<>> THEN base ELSE CommitOf(infos[Len(infos)]))
      /\ r.replace = (shrinks # {})
  BY DEF PollLevel
<1>2. Linked(infos, prev)
  <2>1. LTXFiles(level, prev + 1) \in SUBSET Stored
    BY DEF LTXFiles
  <2> QED
    BY <1>0, <2>1, ContiguousLinked
<1>3. shrinks \subseteq DOMAIN infos
  OBVIOUS
<1> HIDE DEF infos, shrinks
<1>4. /\ infos \in Seq(Stored) /\ Len(infos) \in Nat /\ DOMAIN infos = 1..Len(infos)
      /\ \A i \in 1..Len(infos) : infos[i] \in Stored /\ infos[i].max \in Nat /\ infos[i].max \in 1..Len(hist)
  <2>1. infos \in Seq(Stored) /\ \A i \in 1..Len(infos) : infos[i] \in Stored
    BY <1>0, <1>2, LinkedType
  <2> QED
    BY <2>1, StoredType
<1>5. CASE infos = <<>>
  <2>1. shrinks = {} /\ Len(infos) = 0
    BY <1>3, <1>5
  <2>2. r.max = prev /\ r.commit = base /\ r.replace = FALSE
    BY <1>1, <1>5, <2>1
  <2>3. SubSeq(infos, k, Len(infos)) = <<>>
    <3>1. k = 1
      <4>1. {1} \cup shrinks = {1}
        BY <2>1
      <4>2. {1} \in SUBSET Nat /\ {1} # {} /\ \A y \in {1} : y <= 1
        OBVIOUS
      <4>3. Max({1}) \in {1}
        BY <4>2, MaxIsIn
      <4> QED
        BY <4>1, <4>3
    <3> QED
      BY <1>5, <2>1, <3>1
  <2>4. IsIndex(r.idx) /\ Newest(r.idx, <<>>, 1)
    <3>1. <<>> \in Seq(Stored)
      OBVIOUS
    <3> QED
      BY <1>1, <2>3, <3>1, IndexOfNewest
  <2>5. \A p \in Page : r.idx[p] = NoElem
    <3>1. Len(<<>>) = 0 /\ 1..0 = {}
      OBVIOUS
    <3> QED
      BY <2>4, <3>1 DEF Newest
  <2>6. UpTo(r.idx, r.max)
    BY <2>5, LastingSize DEF UpTo
  <2>7. r.max \in prev..Len(hist) /\ r.commit \in 0..MaxPage /\ r.replace \in BOOLEAN
    <3>1. prev \in prev..Len(hist) /\ FALSE \in BOOLEAN
      BY <1>0
    <3> QED
      BY <2>2, <3>1, Zenon
  <2>8. \A p \in Lasting : LastWrite(p, r.max) = LastWrite(p, prev)
    BY <2>2, Zenon
  <2> QED
    BY <2>4, <2>6, <2>7, <2>8, Zenon DEF Polled
<1>6. CASE infos # <<>>
  <2>1. Len(infos) \in 1..Len(infos) /\ 1 \in 1..Len(infos)
    BY <1>4, <1>6
  <2>2. PICK n \in 1..Len(hist) : n = LastMax(infos) /\ r.max = n
    BY <1>1, <1>4, <1>6, <2>1 DEF LastMax
  <2>3. prev <= n
    <3>1. infos[1].max > prev
      BY <1>6, <1>2 DEF Linked
    <3>2. infos[1].max <= infos[Len(infos)].max
      BY <1>0, <1>2, <1>4, <2>1, LinkedGrows
    <3> QED
      BY <1>0, <1>4, <2>1, <2>2, <3>1, <3>2 DEF LastMax
  <2>4. k \in 1..Len(infos) /\ (shrinks = {} => k = 1)
    <3>1. {1} \cup shrinks \in SUBSET Nat /\ {1} \cup shrinks # {} /\ \A y \in {1} \cup shrinks : y \in 1..Len(infos) /\ y <= Len(infos)
      BY <1>3, <1>4, <2>1
    <3>2. k \in {1} \cup shrinks
      BY <1>4, <3>1, MaxIsIn
    <3> QED
      BY <3>1, <3>2
  <2> HIDE DEF k
  <2>5. IsIndex(r.idx) /\ Newest(r.idx, infos, k)
    BY <1>1, <1>4, <2>4, IndexOfSuffix
  <2>6. ASSUME NEW p \in Lasting, r.idx[p] # NoElem PROVE Content(p, r.idx[p]) >= LastWrite(p, r.max)
    <3>1. Content(p, r.idx[p]) = LastWrite(p, n)
      BY <1>0, <1>2, <2>2, <2>4, <2>5, <2>6, ListedExact
    <3>2. PICK w \in 0..n : w = LastWrite(p, n)
      BY LastWriteIs
    <3> QED
      BY <2>2, <3>1, <3>2
  <2>7. ASSUME ~r.replace, NEW p \in Lasting, r.idx[p] = NoElem PROVE LastWrite(p, r.max) = LastWrite(p, prev)
    <3>1. k = 1
      BY <1>1, <2>4, <2>7
    <3>2. Unwritten(p, prev, n)
      BY <1>0, <1>2, <1>6, <2>2, <2>5, <2>7, <3>1, UnlistedUnwritten
    <3> QED
      BY <1>0, <2>2, <2>3, <3>2, LastWriteKept
  <2>8. r.commit \in 0..MaxPage
    <3>1. infos[Len(infos)].max \in 1..Len(hist)
      BY <1>4, <2>1
    <3>2. CommitOf(infos[Len(infos)]) \in Page
      BY <3>1, HistType DEF CommitOf
    <3> QED
      BY <1>1, <1>6, <3>2, VFSReadAssumption DEF Page
  <2>9. r.max \in prev..Len(hist) /\ r.replace \in BOOLEAN
    BY <1>0, <1>1, <2>2, <2>3
  <2> QED
    BY <2>5, <2>6, <2>7, <2>8, <2>9 DEF Polled, UpTo
<1> QED
  BY <1>5, <1>6

-----------------------------------------------------------------------------
(* The primary goes on.                                                    *)

HistGrows == Len(hist) <= Len(hist') /\ \A t \in 1..Len(hist) : hist'[t] = hist[t]

LEMMA StoredGrows ==
    ASSUME HistInv, HistInv', HistGrows
    PROVE  /\ Stored \subseteq Stored'
           /\ \A f \in Stored : /\ PagesOf(f)' = PagesOf(f)
                                /\ \A p \in PagesOf(f) : Content(p, f)' = Content(p, f)
<1>1. Len(hist) \in Nat /\ Len(hist') \in Nat /\ Len(hist) <= Len(hist')
  BY HistType DEF HistGrows, HistInv
<1>2. ASSUME NEW f \in Stored PROVE f \in Stored'
  <2>1. f.max <= Len(hist) /\ f.max \in Nat
    BY StoredType
  <2>2. f.max <= Len(hist')
    BY <1>1, <2>1
  <2> QED
    BY <2>2 DEF Stored
<1>3. ASSUME NEW f \in Stored PROVE /\ PagesOf(f)' = PagesOf(f)
                                    /\ \A p \in PagesOf(f) : Content(p, f)' = Content(p, f)
  <2>1. f.max \in 1..Len(hist) /\ \A t \in f.min..f.max : t \in 1..Len(hist)
    BY <1>1, StoredType
  <2>2. hist'[f.max] = hist[f.max] /\ \A t \in f.min..f.max : hist'[t] = hist[t]
    BY <2>1 DEF HistGrows
  <2>3. PagesOf(f)' = PagesOf(f)
    BY <2>2 DEF PagesOf
  <2>4. ASSUME NEW p PROVE Content(p, f)' = Content(p, f)
    <3>1. {t \in f.min..f.max : p \in hist'[t].pages} = {t \in f.min..f.max : p \in hist[t].pages}
      BY <2>2
    <3> QED
      BY <3>1, Zenon DEF Content
  <2> QED
    BY <2>3, <2>4
<1> QED
  BY <1>2, <1>3

LEMMA WritesKept ==
    ASSUME HistInv, HistGrows, NEW p, NEW t \in 0..Len(hist)
    PROVE  LastWrite(p, t)' = LastWrite(p, t)
<1>1. \A u \in 1..t : hist'[u] = hist[u]
  <2>1. \A u \in 1..t : u \in 1..Len(hist)
    BY HistType
  <2> QED
    BY <2>1 DEF HistGrows
<1>2. {u \in 1..t : p \in hist'[u].pages} = {u \in 1..t : p \in hist[u].pages}
  BY <1>1
<1> QED
  BY <1>2, Zenon DEF LastWrite

LEMMA LastingLess == ASSUME HistInv, HistInv', HistGrows PROVE Lasting' \subseteq Lasting
<1> SUFFICES ASSUME NEW p \in Lasting' PROVE p \in Lasting
  OBVIOUS
<1>1. /\ hist \in Seq([pages: SUBSET Page, commit: Page]) /\ Len(hist) >= 1 /\ Len(hist) \in Nat
      /\ hist' \in Seq([pages: SUBSET Page, commit: Page]) /\ Len(hist') >= 1 /\ Len(hist') \in Nat
  BY HistType DEF HistInv
<1>2. p \in Nat /\ p >= 1 /\ \A t \in 1..Len(hist') : p <= hist'[t].commit
  <2>1. p \in 1..Min({hist'[t].commit : t \in DOMAIN hist'})
    BY DEF Lasting
  <2> QED
    BY <1>1, <2>1, LeastSize
<1>3. \A t \in 1..Len(hist) : t \in 1..Len(hist') /\ hist'[t] = hist[t]
  BY <1>1 DEF HistGrows
<1>4. p \in 1..Min({hist[t].commit : t \in DOMAIN hist})
  BY <1>1, <1>2, <1>3, LeastSize
<1> QED
  BY <1>4 DEF Lasting

LEMMA IndexKept == ASSUME HistInv, HistInv', HistGrows, NEW idx, IsIndex(idx) PROVE IsIndex(idx)'
<1>1. \A p \in Page : idx[p] = NoElem \/ (idx[p] \in Stored' /\ p \in PagesOf(idx[p]))
  BY StoredGrows DEF IsIndex, IsEntry
<1>2. \A p \in Page, f \in Stored : p \in PagesOf(f) => p \in PagesOf(f)'
  BY StoredGrows
<1> QED
  BY <1>1, <1>2, StoredGrows DEF IsIndex, IsEntry

LEMMA UpToKept ==
    ASSUME HistInv, HistInv', HistGrows, NEW idx, IsIndex(idx), NEW t \in 0..Len(hist), UpTo(idx, t)
    PROVE  UpTo(idx, t)'
<1> SUFFICES ASSUME NEW p \in Lasting', idx[p] # NoElem PROVE Content(p, idx[p])' >= LastWrite(p, t)'
  BY DEF UpTo
<1>1. p \in Lasting /\ p \in Page
  BY LastingLess, LastingSize
<1>2. idx[p] \in Stored /\ p \in PagesOf(idx[p])
  BY <1>1 DEF IsIndex, IsEntry
<1>3. Content(p, idx[p])' = Content(p, idx[p])
  BY <1>2, StoredGrows
<1>4. LastWrite(p, t)' = LastWrite(p, t)
  BY WritesKept
<1> QED
  BY <1>1, <1>3, <1>4 DEF UpTo

-----------------------------------------------------------------------------
(* What a step leaves of a part of the invariant whose variables it does   *)
(* not change, while the primary goes on.                                  *)

LEMMA PendingKept == ASSUME PendingInv, UNCHANGED <<pending, pendingReplace, lockType>> PROVE PendingInv'
BY DEF PendingInv

LEMMA ConnKept ==
    ASSUME IInv, HistInv', HistGrows, UNCHANGED <<conn, lockType, targetTime, index>>
    PROVE  ConnInv'
<1>1. HistInv /\ ConnInv
  BY DEF IInv
<1>2. ASSUME conn.op \in {"fetch", "swap"} PROVE conn.infos # <<>> /\ Linked(conn.infos, 0)'
  <2>1. conn.infos # <<>> /\ Linked(conn.infos, 0)
    BY <1>1, <1>2 DEF ConnInv
  <2>2. conn.infos \in Seq(Stored')
    <3>1. conn.infos \in Seq(Stored) /\ Stored \subseteq Stored'
      BY <1>1, <2>1, StoredGrows DEF Linked
    <3> QED
      BY <3>1
  <2> QED
    BY <2>1, <2>2 DEF Linked
<1>3. ASSUME conn.op = "read" PROVE IsEntry(conn.pg, conn.elem)'
  <2>1. conn.elem \in Stored /\ conn.pg \in PagesOf(conn.elem)
    BY <1>1, <1>3 DEF ConnInv, IsEntry
  <2>2. PICK f, p : f = conn.elem /\ p = conn.pg /\ f \in Stored /\ p \in PagesOf(f)
    BY <2>1
  <2>3. f \in Stored' /\ p \in PagesOf(f)'
    BY <1>1, <2>2, StoredGrows
  <2> QED
    BY <2>2, <2>3 DEF IsEntry
<1> QED
  BY <1>1, <1>2, <1>3 DEF ConnInv

LEMMA PollKept == ASSUME IInv, HistInv', HistGrows, UNCHANGED poll PROVE PollInv'
<1>1. HistInv /\ PollInv /\ poll \in PollRec
  BY DEF IInv, TypeInv
<1>2. IsIndex(poll.combined)'
  BY <1>1, IndexKept DEF PollInv
<1>3. Len(hist) \in Nat /\ Len(hist') \in Nat /\ Len(hist) <= Len(hist')
  BY HistType DEF HistInv, HistGrows
<1>4. poll.pos \in Nat /\ poll.top0 \in Nat /\ poll.max1 \in Nat
  BY <1>1, VFSReadAssumption DEF PollRec
<1> QED
  BY <1>1, <1>2, <1>3, <1>4 DEF PollInv

LEMMA EntryType ==
    ASSUME HistInv, NEW idx, IsIndex(idx), NEW p \in Page, idx[p] # NoElem
    PROVE  idx[p] \in Stored /\ p \in PagesOf(idx[p])
BY DEF IsIndex, IsEntry

LEMMA CacheKept == ASSUME IInv, HistInv', HistGrows, UNCHANGED <<cache, index>> PROVE CacheAgrees'
<1>1. HistInv /\ IsIndex(index) /\ CacheAgrees
  BY DEF IInv, TypeInv
<1>2. ASSUME NEW p \in Page, index[p] # NoElem PROVE Content(p, index[p])' = Content(p, index[p])
  BY <1>1, <1>2, EntryType, StoredGrows
<1> QED
  BY <1>1, <1>2 DEF CacheAgrees, Stale

LEMMA HistoricalKept ==
    ASSUME IInv, HistInv', HistGrows, UNCHANGED <<targetTime, pending, pendingReplace, pos, index, cache>>
    PROVE  HistoricalInv'
<1>1. HistInv /\ IsIndex(index) /\ HistoricalInv /\ pos \in 0..Len(hist)
  BY DEF IInv, TypeInv
<1> SUFFICES ASSUME targetTime # 0
             PROVE  /\ pending = EmptyIndex /\ ~pendingReplace /\ pos > 0
                    /\ \A p \in 1..hist'[pos].commit :
                          /\ index[p] # NoElem /\ Content(p, index[p])' = LastWrite(p, pos)'
                          /\ cache[p] # 0 => cache[p] = Content(p, index[p])'
  BY DEF HistoricalInv
<1>2. pos > 0 /\ pending = EmptyIndex /\ ~pendingReplace
  BY <1>1 DEF HistoricalInv
<1>3. pos \in 1..Len(hist) /\ hist'[pos] = hist[pos]
  BY <1>1, <1>2, HistType DEF HistGrows
<1>4. ASSUME NEW p \in 1..hist[pos].commit
      PROVE  /\ index[p] # NoElem /\ Content(p, index[p])' = LastWrite(p, pos)'
             /\ cache[p] # 0 => cache[p] = Content(p, index[p])'
  <2>1. p \in Page
    <3>1. hist[pos].commit \in Page
      BY <1>1, <1>3, HistType
    <3> QED
      BY <3>1, VFSReadAssumption DEF Page
  <2>2. /\ index[p] # NoElem /\ Content(p, index[p]) = LastWrite(p, pos)
        /\ cache[p] # 0 => cache[p] = Content(p, index[p])
    BY <1>1 DEF HistoricalInv
  <2>3. Content(p, index[p])' = Content(p, index[p])
    BY <1>1, <2>1, <2>2, EntryType, StoredGrows
  <2>4. LastWrite(p, pos)' = LastWrite(p, pos)
    BY <1>1, WritesKept
  <2> QED
    BY <2>2, <2>3, <2>4
<1> QED
  BY <1>2, <1>3, <1>4

LEMMA MergedType == ASSUME TypeInv PROVE IsIndex(Merged)
BY DEF TypeInv, IsIndex, IsEntry, Merged, Overlay, Index

LEMMA LevelKept ==
    ASSUME IInv, HistInv', HistGrows, UNCHANGED <<raced, index, pending, pendingReplace, maxTXID1, poll, pos>>
    PROVE  LevelInv'
<1>1. HistInv /\ TypeInv /\ PollInv /\ LevelInv
  BY DEF IInv
<1> SUFFICES ASSUME ~raced
             PROVE  /\ UpTo(Merged, maxTXID1)'
                    /\ poll.pc = "level0" => poll.pos = pos
                    /\ poll.pc = "level1" => poll.max1 = maxTXID1 /\ UpTo(poll.combined, maxTXID1)'
                    /\ poll.pc = "apply" =>
                          /\ maxTXID1 <= poll.max1 /\ UpTo(poll.combined, poll.max1)'
                          /\ \A p \in Lasting' : poll.combined[p] = NoElem /\ ~poll.replace
                                                   => LastWrite(p, poll.max1)' = LastWrite(p, maxTXID1)'
  BY DEF LevelInv
<1>2. maxTXID1 \in 0..Len(hist) /\ poll.max1 \in 0..Len(hist)
  <2>1. poll.max1 \in Nat /\ poll.max1 <= Len(hist)
    BY <1>1, VFSReadAssumption DEF TypeInv, PollRec, PollInv
  <2>2. pos \in 0..Len(hist) /\ maxTXID1 \in 0..pos
    BY <1>1 DEF TypeInv
  <2> QED
    BY <2>1, <2>2, HistType, <1>1
<1>3. UpTo(Merged, maxTXID1)'
  <2>1. PICK i : i = Merged
    OBVIOUS
  <2>2. Merged' = i
    BY <2>1 DEF Merged, Overlay
  <2>3. IsIndex(i) /\ UpTo(i, maxTXID1)
    BY <1>1, <2>1, MergedType DEF LevelInv
  <2>4. UpTo(i, maxTXID1)'
    BY <1>1, <1>2, <2>3, UpToKept
  <2> QED
    BY <2>2, <2>4
<1>4. IsIndex(poll.combined)
  BY <1>1 DEF PollInv
<1>5. ASSUME poll.pc = "level1" PROVE poll.max1 = maxTXID1 /\ UpTo(poll.combined, maxTXID1)'
  <2>1. poll.max1 = maxTXID1 /\ UpTo(poll.combined, maxTXID1)
    BY <1>1, <1>5 DEF LevelInv
  <2> QED
    BY <1>1, <1>2, <1>4, <2>1, UpToKept
<1>6. ASSUME poll.pc = "apply"
      PROVE  /\ maxTXID1 <= poll.max1 /\ UpTo(poll.combined, poll.max1)'
             /\ \A p \in Lasting' : poll.combined[p] = NoElem /\ ~poll.replace
                                      => LastWrite(p, poll.max1)' = LastWrite(p, maxTXID1)'
  <2>1. /\ maxTXID1 <= poll.max1 /\ UpTo(poll.combined, poll.max1)
        /\ \A p \in Lasting : poll.combined[p] = NoElem /\ ~poll.replace
                                 => LastWrite(p, poll.max1) = LastWrite(p, maxTXID1)
    BY <1>1, <1>6 DEF LevelInv
  <2>2. UpTo(poll.combined, poll.max1)'
    BY <1>1, <1>2, <1>4, <2>1, UpToKept
  <2>3. Lasting' \subseteq Lasting
    BY <1>1, LastingLess
  <2>4. \A p : LastWrite(p, poll.max1)' = LastWrite(p, poll.max1) /\ LastWrite(p, maxTXID1)' = LastWrite(p, maxTXID1)
    BY <1>1, <1>2, WritesKept
  <2> QED
    BY <2>1, <2>2, <2>3, <2>4
<1>7. poll.pc = "level0" => poll.pos = pos
  BY <1>1 DEF LevelInv
<1> QED
  BY <1>3, <1>5, <1>6, <1>7

-----------------------------------------------------------------------------
(* Steps that change one part of the state.                                *)

LEMMA HistSame == ASSUME HistInv, UNCHANGED hist PROVE HistInv' /\ HistGrows
BY HistType DEF HistInv, HistGrows

\* The parts of TypeInv that a growing history leaves as they are.
LEMMA TypesKept ==
    ASSUME IInv, HistInv', HistGrows
    PROVE  /\ \A f \in files : f \in Stored'
           /\ pos \in 0..Len(hist')
           /\ UNCHANGED index => IsIndex(index)'
           /\ UNCHANGED pending => IsIndex(pending)'
<1>1. HistInv /\ TypeInv
  BY DEF IInv
<1>2. \A f \in files : f \in Stored'
  BY <1>1, StoredGrows DEF TypeInv
<1>3. pos \in 0..Len(hist')
  BY <1>1, HistType DEF TypeInv, HistInv, HistGrows
<1>4. ASSUME UNCHANGED index PROVE IsIndex(index)'
  BY <1>1, <1>4, IndexKept DEF TypeInv
<1>5. ASSUME UNCHANGED pending PROVE IsIndex(pending)'
  BY <1>1, <1>5, IndexKept DEF TypeInv
<1> QED
  BY <1>2, <1>3, <1>4, <1>5

\* The replica alone.
LEMMA ReplicaOnly ==
    ASSUME IInv, HistInv', HistGrows, files' \subseteq Stored',
           UNCHANGED <<view, marks, lockType, conn, poll, raced, travels>>
    PROVE  IInv'
<1> USE DEF view, marks
<1>1. PendingInv' /\ ConnInv' /\ PollInv' /\ CacheAgrees' /\ HistoricalInv' /\ LevelInv'
  BY PendingKept, ConnKept, PollKept, CacheKept, HistoricalKept, LevelKept DEF IInv
<1>2. TypeInv'
  BY TypesKept DEF TypeInv, IInv
<1> QED
  BY <1>1, <1>2 DEF IInv

\* SQLite's thread moves on; f.commit may change.
LEMMA ConnOnly ==
    ASSUME IInv, UNCHANGED <<replica, view, pos, maxTXID1, targetTime, lockType, poll, raced>>,
           commit' \in 0..MaxPage, travels' \in 0..MaxTravels, conn' \in ConnRec, ConnInv'
    PROVE  IInv'
<1> USE DEF view, replica
<1>1. HistInv' /\ HistGrows
  BY HistSame DEF IInv
<1>2. PendingInv' /\ PollInv' /\ CacheAgrees' /\ HistoricalInv' /\ LevelInv'
  BY <1>1, PendingKept, PollKept, CacheKept, HistoricalKept, LevelKept DEF IInv
<1>3. TypeInv'
  BY <1>1, TypesKept DEF TypeInv, IInv
<1> QED
  BY <1>1, <1>2, <1>3 DEF IInv

\* The polling thread moves on.
LEMMA PollOnly ==
    ASSUME IInv, UNCHANGED <<replica, view, marks, lockType, conn, raced, travels>>,
           poll' \in PollRec, PollInv', LevelInv'
    PROVE  IInv'
<1> USE DEF view, replica, marks
<1>1. HistInv' /\ HistGrows
  BY HistSame DEF IInv
<1>2. PendingInv' /\ ConnInv' /\ CacheAgrees' /\ HistoricalInv'
  BY <1>1, PendingKept, ConnKept, CacheKept, HistoricalKept DEF IInv
<1>3. TypeInv'
  BY <1>1, TypesKept DEF TypeInv, IInv
<1> QED
  BY <1>1, <1>2, <1>3 DEF IInv

-----------------------------------------------------------------------------
(* The replica's steps.                                                    *)

LEMMA UploadKeeps == ASSUME IInv, Upload PROVE IInv'
<1>1. HistInv /\ files \subseteq Stored
  BY DEF IInv, TypeInv
<1>2. PICK size \in Page, pages \in SUBSET Page :
          LET old  == hist[Len(hist)].commit
              must == IF size = old THEN {} ELSE {1} \cup ((old + 1)..size)
          IN  /\ must \subseteq pages
              /\ hist' = Append(hist, [pages |-> pages, commit |-> size])
              /\ files' = files \cup {[level |-> 0, min |-> Len(hist) + 1, max |-> Len(hist) + 1]}
  <2>1. \A size \in Page : SUBSET (1..size) \subseteq SUBSET Page
    BY VFSReadAssumption DEF Page
  <2> QED
    BY <2>1 DEF Upload
<1>3. PICK n \in Nat : n = Len(hist) /\ n >= 1 /\ n < MaxTXID
  BY <1>1, HistType DEF Upload
<1>4. PICK r : r = [pages |-> pages, commit |-> size]
  OBVIOUS
<1>5. r \in [pages: SUBSET Page, commit: Page] /\ r.pages = pages /\ r.commit = size
  BY <1>4
<1>6. PICK R : R = [pages: SUBSET Page, commit: Page] /\ hist \in Seq(R)
  BY <1>1 DEF HistInv
<1>7. /\ hist' \in Seq(R) /\ Len(hist') = n + 1 /\ hist'[n + 1] = r
      /\ \A t \in 1..n : hist'[t] = hist[t]
  BY <1>2, <1>3, <1>4, <1>5, <1>6
<1>8. HistGrows
  BY <1>3, <1>7 DEF HistGrows
<1>9. ASSUME NEW t \in 1..n, NEW p \in Page, hist'[t].commit < p, p <= hist'[t + 1].commit
      PROVE  p \in hist'[t + 1].pages
  <2>1. CASE t = n
    <3>1. hist[n].commit < p /\ p <= size
      BY <1>3, <1>5, <1>7, <1>9, <2>1
    <3>2. p \in Nat /\ hist[n].commit \in Nat /\ size \in Nat
      BY <1>1, <1>3, HistType, VFSReadAssumption DEF Page
    <3>3. p \in (hist[n].commit + 1)..size /\ size # hist[n].commit
      BY <3>1, <3>2
    <3>4. p \in pages
      BY <1>2, <1>3, <3>3
    <3> QED
      BY <1>5, <1>7, <2>1, <3>4
  <2>2. CASE t # n
    <3>1. t \in 1..(Len(hist) - 1) /\ t + 1 \in 1..n
      BY <1>3, <2>2
    <3>2. hist'[t] = hist[t] /\ hist'[t + 1] = hist[t + 1]
      BY <1>7, <3>1
    <3> QED
      BY <1>1, <1>9, <3>1, <3>2 DEF HistInv
  <2> QED
    BY <2>1, <2>2
<1>10. HistInv'
  <2>1. hist' \in Seq([pages: SUBSET Page, commit: Page]) /\ Len(hist') \in 1..MaxTXID
    BY <1>3, <1>6, <1>7, VFSReadAssumption
  <2>2. hist'[1].pages = Page
    BY <1>1, <1>3, <1>7 DEF HistInv
  <2>3. Len(hist') - 1 = n
    BY <1>3, <1>7
  <2> QED
    BY <1>9, <2>1, <2>2, <2>3 DEF HistInv
<1>11. files' \subseteq Stored'
  <2>1. PICK f : f = [level |-> 0, min |-> n + 1, max |-> n + 1]
    OBVIOUS
  <2>2. f \in File /\ f.min = n + 1 /\ f.max = n + 1 /\ f.level = 0
    BY <1>3, <2>1, VFSReadAssumption DEF File, TXID
  <2>3. f \in Stored'
    BY <1>3, <1>7, <2>2 DEF Stored, SnapshotLevel
  <2> QED
    BY <1>1, <1>2, <1>3, <1>8, <1>10, <2>1, <2>3, StoredGrows
<1> QED
  BY <1>8, <1>10, <1>11, ReplicaOnly DEF Upload

LEMMA Level1MaxIs ==
    ASSUME HistInv, files \subseteq Stored PROVE Level1Max \in 0..Len(hist)
<1> DEFINE S == {0} \cup {f.max : f \in {g \in files : g.level = 1}}
<1>1. Len(hist) \in Nat /\ \A x \in S : x \in 0..Len(hist)
  BY HistType, StoredType
<1>2. S # {} /\ Level1Max = Max(S)
  BY DEF Level1Max
<1> HIDE DEF S
<1>3. S \in SUBSET Nat /\ \A x \in S : x <= Len(hist)
  BY <1>1
<1>4. Max(S) \in S
  BY <1>1, <1>2, <1>3, MaxIsIn
<1> QED
  BY <1>1, <1>2, <1>4

LEMMA CompactKeeps == ASSUME IInv, Compact PROVE IInv'
<1>1. HistInv /\ files \subseteq Stored
  BY DEF IInv, TypeInv
<1>2. HistInv' /\ HistGrows
  BY <1>1, HistSame DEF Compact
<1>3. PICK n \in Nat : n = Len(hist) /\ n <= MaxTXID
  BY <1>1, HistType
<1>4. PICK m \in Nat : m = Level1Max /\ m < n
  BY <1>1, <1>3, Level1MaxIs DEF Compact
<1>5. PICK f : f = [level |-> 1, min |-> m + 1, max |-> n]
  OBVIOUS
<1>6. f \in File /\ f.min <= f.max /\ f.max <= Len(hist) /\ f.level # SnapshotLevel
  BY <1>3, <1>4, <1>5, VFSReadAssumption DEF File, TXID, SnapshotLevel
<1>7. f \in Stored
  BY <1>6 DEF Stored
<1>8. files' \subseteq Stored'
  BY <1>1, <1>2, <1>3, <1>4, <1>5, <1>7, StoredGrows DEF Compact
<1> QED
  BY <1>2, <1>8, ReplicaOnly DEF Compact

LEMMA RetentionKeeps == ASSUME IInv, EnforceL0Retention PROVE IInv'
<1>1. HistInv /\ files \subseteq Stored
  BY DEF IInv, TypeInv
<1>2. HistInv' /\ HistGrows
  BY <1>1, HistSame DEF EnforceL0Retention
<1>3. files' \subseteq files
  BY DEF EnforceL0Retention
<1>4. files' \subseteq Stored'
  BY <1>1, <1>2, <1>3, StoredGrows
<1> QED
  BY <1>2, <1>4, ReplicaOnly DEF EnforceL0Retention

LEMMA Stutters == ASSUME IInv, UNCHANGED vars PROVE IInv'
<1>1. HistInv /\ files \subseteq Stored
  BY DEF IInv, TypeInv
<1>2. UNCHANGED <<hist, files, view, marks, lockType, conn, poll, raced, travels>>
  BY DEF vars, view, marks
<1>3. HistInv' /\ HistGrows
  BY <1>1, <1>2, HistSame
<1>4. files' \subseteq Stored'
  BY <1>1, <1>2, <1>3, StoredGrows
<1> QED
  BY <1>2, <1>3, <1>4, ReplicaOnly

-----------------------------------------------------------------------------
(* The steps of SQLite's thread.                                           *)

LEMMA SeqOfFiles == ASSUME NEW s \in Seq(Stored) PROVE s \in Seq(File)
<1>1. Stored \subseteq File
  BY DEF Stored
<1> QED
  BY <1>1

LEMMA ConnIdleType ==
    /\ ConnIdle \in ConnRec /\ ConnIdle.op = "idle" /\ ConnIdle.back = "idle" /\ ConnIdle.infos = <<>>
    /\ ConnIdle = [op |-> "idle", back |-> "idle", target |-> 0, infos |-> <<>>, pg |-> 0, elem |-> NoElem]
<1>1. 0 \in 0..MaxTXID /\ 0 \in 0..MaxPage /\ <<>> \in Seq(File)
  BY VFSReadAssumption
<1> QED
  BY <1>1 DEF ConnIdle, ConnRec

LEMMA BeginKeeps ==
    ASSUME IInv, NEW back \in {"closed", "idle"}, NEW target \in 0..MaxTXID, Begin(back, target),
           travels' \in 0..MaxTravels
    PROVE  IInv'
<1>1. HistInv /\ files \subseteq Stored /\ commit \in 0..MaxPage
  BY DEF IInv, TypeInv
<1>2. PICK s : s = Plan({f \in files : Eligible(f, target)})
  OBVIOUS
<1>3. s # <<>> /\ conn' = [ConnIdle EXCEPT !.op = "fetch", !.back = back, !.target = target, !.infos = s]
  BY <1>2 DEF Begin
<1>4. Linked(s, 0)
  BY <1>1, <1>2, PlanLinked
<1>5. conn' = [op |-> "fetch", back |-> back, target |-> target, infos |-> s, pg |-> 0, elem |-> NoElem]
  BY <1>3 DEF ConnIdle
<1>6. conn' \in ConnRec
  <2>1. s \in Seq(File) /\ 0 \in 0..MaxPage
    BY <1>4, SeqOfFiles, VFSReadAssumption DEF Linked
  <2> QED
    BY <1>5, <2>1 DEF ConnRec
<1>7. HistInv' /\ HistGrows
  BY <1>1, HistSame DEF Begin, replica
<1>8. Linked(s, 0)'
  <2>1. Stored' = Stored
    BY DEF Begin, replica, Stored
  <2> QED
    BY <1>4, <2>1 DEF Linked
<1>9. conn'.op = "fetch" /\ conn'.infos = s
  BY <1>5
<1>10. ConnInv'
  <2>1. conn'.infos # <<>> /\ Linked(conn.infos, 0)'
    BY <1>3, <1>8, <1>9 DEF Linked
  <2> QED
    BY <1>9, <2>1 DEF ConnInv
<1> QED
  BY <1>1, <1>6, <1>10, ConnOnly DEF Begin, marks

LEMMA OpenKeeps == ASSUME IInv, Open PROVE IInv'
<1>1. travels' \in 0..MaxTravels /\ 0 \in 0..MaxTXID
  BY VFSReadAssumption DEF Open, IInv, TypeInv
<1> QED
  BY <1>1, BeginKeeps DEF Open

LEMMA TravelKeeps == ASSUME IInv, NEW t \in 0..MaxTXID, Travel(t) PROVE IInv'
<1>1. travels' \in 0..MaxTravels
  BY VFSReadAssumption DEF Travel, IInv, TypeInv
<1> QED
  BY <1>1, BeginKeeps DEF Travel

LEMMA BuildIndexMapKeeps == ASSUME IInv, BuildIndexMap PROVE IInv'
<1>1. HistInv /\ TypeInv /\ ConnInv
  BY DEF IInv
<1>2. PICK s : s = conn.infos /\ Linked(s, 0) /\ s # <<>>
  BY <1>1 DEF ConnInv, BuildIndexMap
<1>3. Len(s) \in 1..Len(s) /\ s[Len(s)].max \in 1..Len(hist)
  <2>1. Len(s) \in 1..Len(s) /\ s[Len(s)] \in Stored
    BY <1>1, <1>2, LinkedType
  <2> QED
    BY <1>1, <2>1, StoredType
<1>4. commit' \in 0..MaxPage
  <2>1. CommitOf(s[Len(s)]) \in Page
    BY <1>1, <1>3, HistType DEF CommitOf
  <2> QED
    BY <1>2, <2>1, VFSReadAssumption DEF BuildIndexMap, Page
<1>5. conn' \in ConnRec /\ conn'.op = "swap" /\ conn'.infos = s
  BY <1>1, <1>2 DEF BuildIndexMap, TypeInv, ConnRec
<1>6. Linked(s, 0)'
  <2>1. Stored' = Stored
    BY DEF BuildIndexMap, replica, Stored
  <2> QED
    BY <1>2, <2>1 DEF Linked
<1>7. ConnInv'
  <2>1. conn'.infos # <<>> /\ Linked(conn.infos, 0)'
    BY <1>2, <1>5, <1>6 DEF Linked
  <2> QED
    BY <1>5, <2>1 DEF ConnInv
<1>8. travels' \in 0..MaxTravels
  BY <1>1 DEF BuildIndexMap, TypeInv
<1> QED
  BY <1>4, <1>5, <1>7, <1>8, ConnOnly DEF BuildIndexMap

LEMMA CallFailsKeeps == ASSUME IInv, CallFails PROVE IInv'
<1>1. TypeInv
  BY DEF IInv
<1>2. conn' \in ConnRec /\ conn'.op \in {"closed", "idle"}
  BY <1>1, ConnIdleType DEF CallFails, TypeInv, ConnRec
<1>3. ConnInv'
  BY <1>2 DEF ConnInv
<1> QED
  BY <1>1, <1>2, <1>3, ConnOnly DEF CallFails, TypeInv, marks

LEMMA ReadFailsKeeps == ASSUME IInv, ReadFails PROVE IInv'
<1>1. TypeInv
  BY DEF IInv
<1>2. conn' \in ConnRec /\ conn'.op = "idle"
  BY ConnIdleType DEF ReadFails
<1>3. ConnInv'
  BY <1>2 DEF ConnInv
<1> QED
  BY <1>1, <1>2, <1>3, ConnOnly DEF ReadFails, TypeInv, marks

LEMMA ReadAtKeeps ==
    ASSUME IInv, NEW p \in Page, ReadAt(p), lockType = "NONE" => p = 1 PROVE IInv'
<1>1. HistInv /\ TypeInv
  BY DEF IInv
<1>2. index[p] # NoElem /\ index[p] \in Stored /\ p \in PagesOf(index[p])
  BY <1>1, EntryType DEF ReadAt, TypeInv
<1>3. PICK e : e = index[p]
  OBVIOUS
<1>4. conn' = [op |-> "read", back |-> "idle", target |-> 0, infos |-> <<>>, pg |-> p, elem |-> e]
  BY <1>3 DEF ReadAt, ConnIdle
<1>5. conn' \in ConnRec
  <2>1. e \in File /\ p \in 0..MaxPage /\ 0 \in 0..MaxTXID /\ <<>> \in Seq(File)
    BY <1>1, <1>2, <1>3, StoredType, VFSReadAssumption DEF Page
  <2> QED
    BY <1>4, <2>1 DEF ConnRec
<1>6. conn'.op = "read" /\ conn'.pg = p /\ conn'.elem = e
  BY <1>4
<1>7. ConnInv'
  <2>1. e \in Stored' /\ p \in PagesOf(e)'
    BY <1>2, <1>3 DEF ReadAt, replica, Stored, PagesOf
  <2>2. IsEntry(conn.pg, conn.elem)'
    BY <1>6, <2>1 DEF IsEntry, PagesOf
  <2>3. index' = index /\ lockType' = lockType
    BY DEF ReadAt, view
  <2> QED
    BY <1>2, <1>3, <1>6, <2>2, <2>3 DEF ConnInv
<1> QED
  BY <1>1, <1>5, <1>7, ConnOnly DEF ReadAt, TypeInv, marks

LEMMA LockKeeps == ASSUME IInv, Lock PROVE IInv'
<1> USE DEF Lock, view, replica, marks
<1>1. HistInv' /\ HistGrows
  BY HistSame DEF IInv
<1>2. PollInv' /\ CacheAgrees' /\ HistoricalInv' /\ LevelInv'
  BY <1>1, PollKept, CacheKept, HistoricalKept, LevelKept DEF IInv
<1>3. TypeInv'
  BY <1>1, TypesKept DEF TypeInv, IInv
<1>4. PendingInv'
  BY DEF PendingInv
<1>5. ConnInv'
  BY DEF ConnInv
<1> QED
  BY <1>1, <1>2, <1>3, <1>4, <1>5 DEF IInv

LEMMA OverlayEmpty == ASSUME NEW idx \in Index PROVE Overlay(idx, EmptyIndex) = idx
BY DEF Overlay, EmptyIndex, Index

LEMMA EmptyIsIndex == IsIndex(EmptyIndex) /\ Keys(EmptyIndex) = {}
BY DEF IsIndex, IsEntry, EmptyIndex, Index, Keys

LEMMA UnlockKeeps == ASSUME IInv, Unlock PROVE IInv'
<1>1. HistInv /\ TypeInv /\ CacheAgrees /\ HistoricalInv /\ LevelInv /\ PollInv
  BY DEF IInv
<1>2. HistInv' /\ HistGrows
  BY <1>1, HistSame DEF Unlock, replica
<1>3. PICK i : i = Merged /\ index' = i /\ IsIndex(i)
  BY <1>1, MergedType DEF Unlock, Merged
<1>4. IsIndex(i)' /\ IsIndex(EmptyIndex)'
  BY <1>1, <1>2, <1>3, EmptyIsIndex, IndexKept
<1>5. TypeInv'
  <2>1. IsIndex(index)' /\ IsIndex(pending)'
    BY <1>3, <1>4 DEF Unlock
  <2>2. cache' \in [Page -> 0..MaxTXID]
    BY <1>1, VFSReadAssumption DEF Unlock, TypeInv
  <2> QED
    BY <1>1, <1>2, <2>1, <2>2, TypesKept DEF Unlock, TypeInv, replica, marks, IInv
<1>6. PendingInv'
  BY DEF PendingInv, Unlock
<1>7. ConnInv'
  BY DEF ConnInv, Unlock
<1>8. PollInv'
  BY <1>2, PollKept DEF Unlock
<1>9. ASSUME NEW q \in Page, cache'[q] # 0
      PROVE  cache'[q] = cache[q] /\ index'[q] = index[q]
  <2>1. ~pendingReplace /\ q \notin Keys(pending) /\ cache'[q] = cache[q]
    BY <1>9 DEF Unlock
  <2>2. index'[q] = Overlay(index, pending)[q] /\ pending[q] = NoElem
    BY <2>1 DEF Unlock, Keys
  <2> QED
    BY <2>1, <2>2 DEF Overlay
<1>10. CacheAgrees'
  <2>1. \A q \in Page : \A e : Content(q, e)' = Content(q, e)
    BY DEF Unlock, replica, Content
  <2>2. ASSUME NEW q \in Page, cache'[q] # 0, index'[q] # NoElem, cache'[q] # Content(q, index'[q]) PROVE q = 1
    BY <1>1, <1>9, <2>2 DEF CacheAgrees, Stale
  <2>3. \A q \in Page : Content(q, index[q])' = Content(q, index'[q])
    BY DEF Unlock, replica, Content
  <2> QED
    BY <2>2, <2>3 DEF CacheAgrees, Stale
<1>11. HistoricalInv'
  <2> SUFFICES ASSUME targetTime # 0 PROVE HistoricalInv'
    BY DEF HistoricalInv, Unlock, marks
  <2>1. pending = EmptyIndex /\ ~pendingReplace
    BY <1>1 DEF HistoricalInv
  <2>2. index' = index
    BY <1>1, <2>1, OverlayEmpty DEF Unlock, TypeInv, IsIndex
  <2>3. cache' = cache
    BY <1>1, <2>1, EmptyIsIndex DEF Unlock, TypeInv
  <2>4. pending' = pending /\ pendingReplace' = pendingReplace
    BY <1>1, <2>1 DEF Unlock, TypeInv
  <2> QED
    BY <1>2, <2>2, <2>3, <2>4, HistoricalKept DEF Unlock, marks
<1>12. LevelInv'
  <2> SUFFICES ASSUME ~raced PROVE LevelInv'
    BY DEF LevelInv, Unlock
  <2>1. Merged' = i
    <3>1. Overlay(i, EmptyIndex) = i
      BY <1>3, OverlayEmpty DEF IsIndex
    <3> QED
      BY <1>3, <3>1 DEF Merged, Unlock, Overlay, EmptyIndex
  <2>2. UpTo(i, maxTXID1)
    BY <1>1, <1>3 DEF LevelInv
  <2>3. /\ poll.pc = "level0" => poll.pos = pos
        /\ poll.pc = "level1" => poll.max1 = maxTXID1 /\ UpTo(poll.combined, maxTXID1)
        /\ poll.pc = "apply" =>
              /\ maxTXID1 <= poll.max1 /\ UpTo(poll.combined, poll.max1)
              /\ \A p \in Lasting : poll.combined[p] = NoElem /\ ~poll.replace
                                       => LastWrite(p, poll.max1) = LastWrite(p, maxTXID1)
    BY <1>1 DEF LevelInv
  <2>4. UNCHANGED <<hist, maxTXID1, poll, pos, raced>>
    BY DEF Unlock, replica, marks
  <2>5. Lasting' = Lasting /\ \A p, t : LastWrite(p, t)' = LastWrite(p, t)
    BY <2>4 DEF Lasting, LastWrite
  <2>6. \A x, t : UpTo(x, t)' <=> UpTo(x, t)
    BY <2>4 DEF UpTo, Lasting, LastWrite, Content
  <2> QED
    BY <2>1, <2>2, <2>3, <2>4, <2>5, <2>6 DEF LevelInv
<1> QED
  BY <1>2, <1>5, <1>6, <1>7, <1>8, <1>10, <1>11, <1>12 DEF IInv

LEMMA ReadDoneKeeps == ASSUME IInv, ReadDone PROVE IInv'
<1>1. HistInv /\ TypeInv /\ CacheAgrees /\ HistoricalInv /\ ConnInv
  BY DEF IInv
<1>2. HistInv' /\ HistGrows
  BY <1>1, HistSame DEF ReadDone, replica
<1>3. PICK p, e : p = conn.pg /\ e = conn.elem
  OBVIOUS
<1>4. /\ p \in Page /\ e \in Stored /\ p \in PagesOf(e)
      /\ lockType = "NONE" => p = 1
      /\ lockType = "SHARED" \/ targetTime # 0 => e = index[p]
  BY <1>1, <1>3 DEF ConnInv, IsEntry, ReadDone
<1>5. Content(p, e) \in 0..MaxTXID
  <2>1. Content(p, e) \in e.min..e.max
    BY <1>1, <1>4, ContentIs
  <2>2. e.min \in Nat /\ e.max \in 0..MaxTXID
    BY <1>1, <1>4, StoredType
  <2> QED
    BY <2>1, <2>2, VFSReadAssumption
<1>6. /\ cache' \in [Page -> 0..MaxTXID]
      /\ \A q \in Page : \/ cache'[q] = 0
                         \/ q = p /\ cache'[q] = Content(p, e)
                         \/ q # p /\ cache'[q] = cache[q]
  <2>1. PICK added : added = [cache EXCEPT ![p] = Content(p, e)]
    OBVIOUS
  <2>2. cache' = added \/ \E q \in Page : cache' = [added EXCEPT ![q] = 0]
    BY <1>3, <2>1 DEF ReadDone
  <2>3. added \in [Page -> 0..MaxTXID] /\ added[p] = Content(p, e) /\ \A q \in Page : q # p => added[q] = cache[q]
    BY <1>1, <1>4, <1>5, <2>1 DEF TypeInv
  <2>4. 0 \in 0..MaxTXID
    BY VFSReadAssumption
  <2> QED
    BY <2>2, <2>3, <2>4
<1>7. UNCHANGED <<hist, files, index, pending, pendingReplace, marks, lockType, poll, raced, travels>>
  BY DEF ReadDone, replica
<1>8. TypeInv'
  <2>1. conn' \in ConnRec
    BY ConnIdleType DEF ReadDone
  <2> QED
    BY <1>1, <1>2, <1>6, <1>7, <2>1, TypesKept DEF TypeInv, marks
<1>9. ConnInv'
  BY ConnIdleType DEF ConnInv, ReadDone
<1>10. PendingInv' /\ PollInv' /\ LevelInv'
  BY <1>2, <1>7, PendingKept, PollKept, LevelKept DEF IInv, marks
<1>11. CacheAgrees'
  <2>1. SUFFICES ASSUME NEW q \in Page, cache'[q] # 0, index[q] # NoElem, cache'[q] # Content(q, index[q]) PROVE q = 1
    <3>1. \A q \in Page : Content(q, index[q])' = Content(q, index[q])
      BY <1>7 DEF Content
    <3> QED
      BY <1>7, <3>1 DEF CacheAgrees, Stale
  <2>2. CASE q = p
    BY <1>1, <1>4, <1>6, <2>1, <2>2 DEF TypeInv
  <2>3. CASE q # p
    BY <1>1, <1>6, <2>1, <2>3 DEF CacheAgrees, Stale
  <2> QED
    BY <2>2, <2>3
<1>12. HistoricalInv'
  <2> SUFFICES ASSUME targetTime # 0 PROVE HistoricalInv'
    BY <1>7 DEF HistoricalInv, marks
  <2>1. UNCHANGED <<hist, targetTime, pending, pendingReplace, pos, index>>
    BY <1>7 DEF marks
  <2>2. /\ pending = EmptyIndex /\ ~pendingReplace /\ pos > 0
        /\ \A q \in 1..hist[pos].commit :
              /\ index[q] # NoElem /\ Content(q, index[q]) = LastWrite(q, pos)
              /\ cache[q] # 0 => cache[q] = Content(q, index[q])
    BY <1>1 DEF HistoricalInv
  <2>3. 1..hist[pos].commit \subseteq Page
    <3>1. pos \in 1..Len(hist)
      BY <1>1, <2>2, HistType DEF TypeInv
    <3>2. hist[pos].commit \in Page
      BY <1>1, <3>1, HistType
    <3> QED
      BY <3>2, VFSReadAssumption DEF Page
  <2>4. \A q \in 1..hist[pos].commit : cache'[q] # 0 => cache'[q] = Content(q, index[q])
    BY <1>4, <1>6, <2>2, <2>3
  <2>5. \A q : Content(q, index[q])' = Content(q, index[q]) /\ LastWrite(q, pos)' = LastWrite(q, pos)
    BY <2>1 DEF Content, LastWrite
  <2> QED
    BY <2>1, <2>2, <2>4, <2>5 DEF HistoricalInv
<1> QED
  BY <1>2, <1>8, <1>9, <1>10, <1>11, <1>12 DEF IInv

LEMMA RebuildIndexKeeps == ASSUME IInv, RebuildIndex PROVE IInv'
<1>1. HistInv /\ TypeInv /\ ConnInv
  BY DEF IInv
<1>2. HistInv' /\ HistGrows
  BY <1>1, HistSame DEF RebuildIndex, replica
<1>3. PICK s : s = conn.infos /\ Linked(s, 0) /\ s # <<>>
  BY <1>1 DEF ConnInv, RebuildIndex
<1>4. PICK i : i = IndexOf(s) /\ index' = i /\ IsIndex(i)
  <2>1. s \in Seq(Stored)
    BY <1>3 DEF Linked
  <2> QED
    BY <1>1, <1>3, <2>1, IndexOfNewest DEF RebuildIndex
<1>5. /\ Len(s) \in Nat /\ Len(s) \in 1..Len(s) /\ DOMAIN s = 1..Len(s)
      /\ \A j \in 1..Len(s) : s[j].max \in Nat /\ s[j].max >= 1 /\ s[j].max <= s[Len(s)].max
      /\ s[Len(s)].max \in 1..Len(hist)
  <2>1. Len(s) \in Nat /\ Len(s) \in 1..Len(s) /\ \A j \in 1..Len(s) : s[j] \in Stored
    BY <1>1, <1>3, LinkedType
  <2>2. \A j \in 1..Len(s) : s[j].max \in Nat /\ s[j].max \in 1..Len(hist)
    BY <1>1, <2>1, StoredType
  <2>3. \A j \in 1..Len(s) : s[j].max <= s[Len(s)].max
    <3>1. \A j \in 1..Len(s) : j <= Len(s)
      BY <2>1
    <3> QED
      BY <1>1, <1>3, <2>1, <3>1, LinkedGrows
  <2>4. DOMAIN s = 1..Len(s)
    BY <1>3 DEF Linked
  <2> QED
    BY <2>1, <2>2, <2>3, <2>4, <1>1, HistType
<1>6. PICK n \in 1..Len(hist) : n = LastMax(s) /\ n \in Nat
  BY <1>5, <1>1, HistType DEF LastMax
<1>7. PICK m \in 0..n : m = MaxLevelTXID(s, 1)
  <2> DEFINE S == {0} \cup {s[j].max : j \in {k \in DOMAIN s : s[k].level = 1}}
  <2>1. S # {} /\ MaxLevelTXID(s, 1) = Max(S) /\ \A x \in S : x \in 0..n
    BY <1>5, <1>6 DEF MaxLevelTXID, LastMax
  <2> HIDE DEF S
  <2>2. S \in SUBSET Nat /\ \A x \in S : x <= n
    BY <1>6, <2>1
  <2>3. Max(S) \in S
    BY <1>6, <2>1, <2>2, MaxIsIn
  <2> QED
    BY <2>1, <2>3
<1>8. PICK x \in 1..n : x = IF m = 0 THEN n ELSE m
  BY <1>6, <1>7
<1>9. pos' = n /\ maxTXID1' = x
  BY <1>3, <1>6, <1>7, <1>8 DEF RebuildIndex
<1>10. /\ UNCHANGED <<hist, files, commit, lockType, poll, travels>>
       /\ pending' = EmptyIndex /\ pendingReplace' = FALSE
       /\ cache' = [p \in Page |-> 0] /\ targetTime' = conn.target
       /\ raced' = (raced \/ poll.pc # "idle")
  BY DEF RebuildIndex, replica
<1>11. conn' \in ConnRec /\ conn'.op \in {"opened", "idle"}
  BY ConnIdleType DEF RebuildIndex, ConnRec
<1>12. TypeInv'
  <2>1. IsIndex(index)' /\ IsIndex(pending)'
    BY <1>1, <1>2, <1>4, <1>10, EmptyIsIndex, IndexKept
  <2>2. cache' \in [Page -> 0..MaxTXID]
    <3>1. 0 \in 0..MaxTXID
      BY VFSReadAssumption
    <3> QED
      BY <1>10, <3>1
  <2>3. pos' \in 0..Len(hist') /\ maxTXID1' \in 0..pos'
    BY <1>6, <1>8, <1>9, <1>10, <1>1, HistType
  <2>4. targetTime' \in 0..MaxTXID
    BY <1>1, <1>10 DEF TypeInv, ConnRec
  <2>5. raced' \in BOOLEAN
    BY <1>10, Zenon
  <2> QED
    BY <1>1, <1>2, <1>10, <1>11, <2>1, <2>2, <2>3, <2>4, <2>5, TypesKept DEF TypeInv
<1>13. PendingInv' /\ ConnInv' /\ PollInv'
  BY <1>2, <1>10, <1>11, PollKept DEF PendingInv, ConnInv
<1>14. CacheAgrees'
  BY <1>10 DEF CacheAgrees, Stale
<1>15. \A p \in 1..hist[n].commit : p \in Page /\ i[p] # NoElem /\ Content(p, i[p]) = LastWrite(p, n)
  <2>1. hist[n].commit \in Page
    BY <1>1, <1>6, HistType
  <2>2. 1..hist[n].commit \subseteq Page
    BY <2>1, VFSReadAssumption DEF Page
  <2>3. \A p \in 1..hist[LastMax(s)].commit : i[p] # NoElem /\ Content(p, i[p]) = LastWrite(p, LastMax(s))
    BY <1>1, <1>3, <1>4, PlanExact
  <2> QED
    BY <1>6, <2>2, <2>3
<1>16. HistoricalInv'
  <2>1. hist' = hist
    BY <1>10
  <2>2. \A p : Content(p, i)' = Content(p, i) /\ LastWrite(p, n)' = LastWrite(p, n) /\ Content(p, i[p])' = Content(p, i[p])
    BY <2>1 DEF Content, LastWrite
  <2>3. n > 0
    BY <1>6
  <2>4. \A p \in 1..hist'[n].commit : i[p] # NoElem /\ Content(p, i[p])' = LastWrite(p, n)' /\ cache'[p] = 0
    BY <1>10, <1>15, <2>1, <2>2
  <2>5. \A p \in 1..hist'[pos'].commit :
              /\ index'[p] # NoElem /\ Content(p, index[p])' = LastWrite(p, pos)'
              /\ cache'[p] # 0 => cache'[p] = Content(p, index[p])'
    BY <1>4, <1>9, <2>4 DEF Content, LastWrite
  <2> QED
    BY <1>9, <1>10, <2>3, <2>5 DEF HistoricalInv
<1>17. LevelInv'
  <2> SUFFICES ASSUME poll.pc = "idle" PROVE LevelInv'
    BY <1>10 DEF LevelInv
  <2>1. Merged' = i
    <3>1. Overlay(i, EmptyIndex) = i
      BY <1>4, OverlayEmpty DEF IsIndex
    <3> QED
      BY <1>4, <1>10, <3>1 DEF Merged, Overlay, EmptyIndex
  <2>2. ASSUME NEW p \in Lasting PROVE Content(p, i[p]) >= LastWrite(p, x)
    <3>1. p \in 1..hist[n].commit
      BY <1>1, <1>6, LastingSize, HistType
    <3>2. Content(p, i[p]) = LastWrite(p, n)
      BY <1>15, <3>1
    <3>3. LastWrite(p, x) <= LastWrite(p, n)
      BY <1>6, <1>8, LastWriteKept
    <3>4. PICK a \in Nat, b \in Nat : a = LastWrite(p, n) /\ b = LastWrite(p, x)
      BY <1>6, <1>8, LastWriteIs
    <3> QED
      BY <3>2, <3>3, <3>4
  <2>3. UpTo(i, x)
    BY <2>2 DEF UpTo
  <2>4. UpTo(i, x)'
    <3>1. x \in 0..Len(hist)
      BY <1>6, <1>8, <1>1, HistType
    <3> QED
      BY <1>1, <1>2, <1>4, <2>3, <3>1, UpToKept
  <2> QED
    BY <1>9, <1>10, <2>1, <2>4 DEF LevelInv
<1> QED
  BY <1>2, <1>12, <1>13, <1>14, <1>16, <1>17 DEF IInv

-----------------------------------------------------------------------------
(* The steps of the polling thread.                                        *)

LEMMA PollIdleType ==
    /\ PollIdle \in PollRec /\ PollIdle.pc = "idle"
    /\ PollIdle = [pc |-> "idle", pos |-> 0, top0 |-> 0, max1 |-> 0, base |-> 0,
                   combined |-> EmptyIndex, newCommit |-> 0, replace |-> FALSE]
<1>1. 0 \in 0..MaxTXID /\ 0 \in 0..MaxPage /\ EmptyIndex \in Index
  BY VFSReadAssumption, EmptyIsIndex DEF IsIndex
<1> QED
  BY <1>1 DEF PollIdle, PollRec

\* PollInv for the record q of a poll.
PollFits(q) ==
    /\ q \in PollRec /\ IsIndex(q.combined)
    /\ q.pos <= Len(hist) /\ q.top0 <= Len(hist) /\ q.max1 <= Len(hist)

LEMMA PollFitsNext ==
    ASSUME IInv, NEW q, PollFits(q), poll' = q, UNCHANGED hist
    PROVE  PollInv' /\ poll' \in PollRec
<1>1. HistInv
  BY DEF IInv
<1>2. HistInv' /\ HistGrows
  BY <1>1, HistSame
<1>3. IsIndex(q.combined)'
  BY <1>1, <1>2, IndexKept DEF PollFits
<1>4. IsIndex(poll.combined)'
  BY <1>3 DEF IsIndex, IsEntry, Stored, PagesOf
<1> QED
  BY <1>4 DEF PollFits, PollInv

LEMMA IdleFits == ASSUME HistInv PROVE PollFits(PollIdle)
<1>1. 0 <= Len(hist)
  BY HistType
<1>2. PollIdle.combined = EmptyIndex /\ PollIdle.pos = 0 /\ PollIdle.top0 = 0 /\ PollIdle.max1 = 0
  BY PollIdleType
<1> QED
  BY <1>1, <1>2, PollIdleType, EmptyIsIndex DEF PollFits

\* What LevelInv says when the poll in flight is q.
LevelWith(q) ==
    ~raced =>
        /\ q.pc = "level0" => q.pos = pos
        /\ q.pc = "level1" => q.max1 = maxTXID1 /\ UpTo(q.combined, maxTXID1)
        /\ q.pc = "apply" =>
              /\ maxTXID1 <= q.max1 /\ UpTo(q.combined, q.max1)
              /\ \A p \in Lasting : q.combined[p] = NoElem /\ ~q.replace
                                       => LastWrite(p, q.max1) = LastWrite(p, maxTXID1)

LEMMA PollKeeps ==
    ASSUME IInv, NEW q, PollFits(q), LevelWith(q), poll' = q,
           UNCHANGED <<replica, view, marks, lockType, conn, raced, travels>>
    PROVE  IInv'
<1>1. UNCHANGED <<hist, index, pending, pendingReplace, pos, maxTXID1, raced>>
  BY DEF replica, view, marks
<1>2. PollInv' /\ poll' \in PollRec
  BY <1>1, PollFitsNext
<1>3. LevelInv'
  <2> SUFFICES ASSUME ~raced PROVE LevelInv'
    BY <1>1 DEF LevelInv
  <2>1. \A x, t : UpTo(x, t)' <=> UpTo(x, t)
    BY <1>1 DEF UpTo, Lasting, LastWrite, Content
  <2>2. Lasting' = Lasting /\ \A p, t : LastWrite(p, t)' = LastWrite(p, t)
    BY <1>1 DEF Lasting, LastWrite
  <2>3. UpTo(Merged, maxTXID1)
    BY DEF IInv, LevelInv
  <2>4. UpTo(Merged, maxTXID1)'
    <3>1. PICK i : i = Merged
      OBVIOUS
    <3>2. Merged' = i
      BY <1>1, <3>1 DEF Merged, Overlay
    <3>3. UpTo(i, maxTXID1)'
      BY <1>1, <2>3, <3>1 DEF UpTo, Lasting, LastWrite, Content
    <3> QED
      BY <3>2, <3>3 DEF UpTo
  <2>5. UpTo(poll.combined, maxTXID1)' <=> UpTo(q.combined, maxTXID1)
    BY <1>1 DEF UpTo, Lasting, LastWrite, Content
  <2>6. UpTo(poll.combined, poll.max1)' <=> UpTo(q.combined, q.max1)
    BY <1>1 DEF UpTo, Lasting, LastWrite, Content
  <2>7. \A p : LastWrite(p, poll.max1)' = LastWrite(p, q.max1) /\ LastWrite(p, maxTXID1)' = LastWrite(p, maxTXID1)
    BY <1>1 DEF LastWrite
  <2>8. poll' = q /\ pos' = pos /\ maxTXID1' = maxTXID1
    BY <1>1
  <2> QED
    BY <2>2, <2>4, <2>5, <2>6, <2>7, <2>8 DEF LevelInv, LevelWith
<1> QED
  BY <1>2, <1>3, PollOnly

LEMMA PollStartKeeps == ASSUME IInv, PollStart PROVE IInv'
<1>1. HistInv /\ TypeInv
  BY DEF IInv
<1>2. PICK q : q = [PollIdle EXCEPT !.pc = "level0", !.pos = pos]
  OBVIOUS
<1>3. poll' = q
  BY <1>2 DEF PollStart
<1>4. pos \in 0..MaxTXID /\ pos <= Len(hist) /\ 0 <= Len(hist)
  BY <1>1, HistType, VFSReadAssumption DEF TypeInv
<1>5. PollIdle.combined = EmptyIndex /\ PollIdle.top0 = 0 /\ PollIdle.max1 = 0
  BY PollIdleType
<1>6. /\ q \in PollRec /\ q.combined = EmptyIndex /\ q.pos = pos /\ q.top0 = 0 /\ q.max1 = 0
      /\ q.pc = "level0"
  BY <1>2, <1>4, <1>5, PollIdleType DEF PollRec
<1>7. PollFits(q) /\ LevelWith(q)
  BY <1>4, <1>6, EmptyIsIndex DEF PollFits, LevelWith
<1> QED
  BY <1>3, <1>7, PollKeeps DEF PollStart

LEMMA PollFailsKeeps == ASSUME IInv, PollFails PROVE IInv'
<1>1. PollFits(PollIdle) /\ LevelWith(PollIdle)
  BY IdleFits, PollIdleType DEF IInv, LevelWith
<1> QED
  BY <1>1, PollKeeps DEF PollFails

\* What is as new as t is as new as anything before t.
LEMMA UpToLess ==
    ASSUME NEW idx, NEW s \in Nat, NEW t \in Nat, s <= t, UpTo(idx, t), HistInv, IsIndex(idx) PROVE UpTo(idx, s)
<1> SUFFICES ASSUME NEW p \in Lasting, idx[p] # NoElem PROVE Content(p, idx[p]) >= LastWrite(p, s)
  BY DEF UpTo
<1>1. PICK a \in Nat, b \in Nat : a = LastWrite(p, s) /\ b = LastWrite(p, t) /\ a <= b
  BY LastWriteIs, LastWriteKept
<1>2. p \in Page
  BY LastingSize
<1>3. PICK f \in Stored : f = idx[p] /\ p \in PagesOf(f)
  BY <1>2, EntryType
<1>4. PICK c \in Nat : c = Content(p, f)
  BY <1>3, ContentIs, StoredType
<1>5. c >= b
  BY <1>1, <1>3, <1>4 DEF UpTo
<1> QED
  BY <1>1, <1>3, <1>4, <1>5

LEMMA PollL0Keeps == ASSUME IInv, PollL0 PROVE IInv'
<1>1. HistInv /\ TypeInv /\ PollInv /\ LevelInv
  BY DEF IInv
<1>2. PICK r : r = PollLevel(0, poll.pos, commit)
  OBVIOUS
<1>3. PICK q : q = [poll EXCEPT !.pc = "level1", !.pos = 0, !.top0 = r.max, !.max1 = maxTXID1,
                                !.base = IF r.replace \/ Keys(r.idx) # {} THEN r.commit ELSE commit,
                                !.combined = r.idx,
                                !.newCommit = IF r.replace THEN r.commit ELSE Max({commit, r.commit}),
                                !.replace = r.replace]
  OBVIOUS
<1>4. poll' = q
  BY <1>2, <1>3 DEF PollL0
<1>5. PICK n \in Nat : n = Len(hist) /\ n <= MaxTXID
  BY <1>1, HistType
<1>6. PICK v \in 0..n : v = poll.pos
  BY <1>1, <1>5, VFSReadAssumption DEF PollInv, TypeInv, PollRec
<1>7. Polled(r, v)
  BY <1>1, <1>2, <1>5, <1>6, PollLevelGives DEF TypeInv
<1>8. maxTXID1 \in 0..n /\ maxTXID1 \in 0..pos /\ pos \in 0..n /\ commit \in 0..MaxPage
  BY <1>1, <1>5 DEF TypeInv
<1>9. r.max \in v..n /\ r.commit \in 0..MaxPage /\ r.replace \in BOOLEAN /\ IsIndex(r.idx)
  BY <1>5, <1>7 DEF Polled
<1>10. PollFits(q)
  <2>1. Max({commit, r.commit}) \in 0..MaxPage
    BY <1>8, <1>9, MaxOfTwo, VFSReadAssumption
  <2>2. PICK b : b = IF r.replace \/ Keys(r.idx) # {} THEN r.commit ELSE commit
    OBVIOUS
  <2>3. b \in 0..MaxPage
    BY <1>8, <1>9, <2>2
  <2>4. PICK c : c = IF r.replace THEN r.commit ELSE Max({commit, r.commit})
    OBVIOUS
  <2>5. c \in 0..MaxPage
    BY <1>9, <2>1, <2>4
  <2>6. poll \in PollRec
    BY <1>1 DEF TypeInv
  <2>7. r.max \in 0..MaxTXID /\ 0 \in 0..MaxTXID /\ maxTXID1 \in 0..MaxTXID
    BY <1>5, <1>6, <1>8, <1>9, VFSReadAssumption
  <2>8. q = [poll EXCEPT !.pc = "level1", !.pos = 0, !.top0 = r.max, !.max1 = maxTXID1, !.base = b,
                         !.combined = r.idx, !.newCommit = c, !.replace = r.replace]
    BY <1>3, <2>2, <2>4
  <2>9. r.idx \in Index
    BY <1>9 DEF IsIndex
  <2>10. q \in PollRec /\ q.combined = r.idx /\ q.pos = 0 /\ q.top0 = r.max /\ q.max1 = maxTXID1
    BY <1>9, <2>3, <2>5, <2>6, <2>7, <2>8, <2>9 DEF PollRec
  <2> QED
    BY <1>5, <1>6, <1>8, <1>9, <2>10 DEF PollFits
<1>11. LevelWith(q)
  <2> SUFFICES ASSUME ~raced PROVE LevelWith(q)
    BY DEF LevelWith
  <2>1. q.pc = "level1" /\ q.max1 = maxTXID1 /\ q.combined = r.idx
    BY <1>1, <1>3 DEF TypeInv, PollRec
  <2>2. v = pos
    BY <1>1, <1>6 DEF LevelInv, PollL0
  <2>3. PICK m \in v..n, x \in 0..v : m = r.max /\ x = maxTXID1
    BY <1>8, <1>9, <2>2
  <2>4. UpTo(r.idx, x)
    BY <1>1, <1>6, <1>7, <1>9, <2>3, UpToLess DEF Polled
  <2> QED
    BY <2>1, <2>3, <2>4 DEF LevelWith
<1> QED
  BY <1>4, <1>10, <1>11, PollKeeps DEF PollL0

LEMMA OverlaysFit == ASSUME NEW a, IsIndex(a), NEW b, IsIndex(b) PROVE IsIndex(Overlay(a, b))
BY DEF IsIndex, IsEntry, Overlay, Index

LEMMA PollL1Keeps == ASSUME IInv, PollL1 PROVE IInv'
<1>1. HistInv /\ TypeInv /\ PollInv /\ LevelInv
  BY DEF IInv
<1>2. PICK r : r = PollLevel(1, poll.max1, poll.base)
  OBVIOUS
<1>3. CASE ~r.ok
  <2>1. PollFits(PollIdle) /\ LevelWith(PollIdle)
    BY <1>1, IdleFits, PollIdleType DEF LevelWith
  <2>2. poll' = PollIdle
    BY <1>2, <1>3 DEF PollL1
  <2> QED
    BY <2>1, <2>2, PollKeeps DEF PollL1
<1>4. CASE r.ok
  <2>1. PICK n \in Nat : n = Len(hist) /\ n <= MaxTXID
    BY <1>1, HistType
  <2>2. PICK v \in 0..n : v = poll.max1
    BY <1>1, <2>1, VFSReadAssumption DEF PollInv, TypeInv, PollRec
  <2>3. poll.base \in 0..MaxPage /\ poll.newCommit \in 0..MaxPage /\ poll.replace \in BOOLEAN
    BY <1>1 DEF TypeInv, PollRec
  <2>4. Polled(r, v)
    BY <1>1, <1>2, <2>1, <2>2, <2>3, PollLevelGives DEF TypeInv
  <2>5. r.max \in v..n /\ r.commit \in 0..MaxPage /\ r.replace \in BOOLEAN /\ IsIndex(r.idx)
    BY <2>1, <2>4 DEF Polled
  <2>6. PICK m \in v..n : m = r.max
    BY <2>5
  <2>7. PICK both : both = IF r.replace THEN r.idx ELSE Overlay(poll.combined, r.idx)
    OBVIOUS
  <2>8. IsIndex(both)
    BY <1>1, <2>5, <2>7, OverlaysFit DEF PollInv
  <2>9. PICK c \in 0..MaxPage : c = IF r.replace THEN r.commit ELSE Max({poll.newCommit, r.commit})
    BY <2>3, <2>5, MaxOfTwo, VFSReadAssumption
  <2>10. PICK w \in BOOLEAN : w = (poll.replace \/ r.replace)
    BY Zenon
  <2>11. PICK q : q = [poll EXCEPT !.pc = "apply", !.max1 = m, !.base = 0, !.combined = both,
                                   !.newCommit = c, !.replace = w]
    OBVIOUS
  <2>12. poll' = q
    BY <1>2, <1>4, <2>6, <2>7, <2>9, <2>10, <2>11, Zenon DEF PollL1
  <2>13. /\ q \in PollRec /\ q.pc = "apply" /\ q.max1 = m /\ q.combined = both
         /\ q.pos = poll.pos /\ q.top0 = poll.top0 /\ q.replace = w
    <3>1. poll \in PollRec /\ 0 \in 0..MaxPage /\ m \in 0..MaxTXID /\ both \in Index
      BY <1>1, <2>1, <2>2, <2>8, VFSReadAssumption DEF TypeInv, IsIndex
    <3> QED
      BY <2>11, <3>1 DEF PollRec
  <2>14. PollFits(q)
    BY <1>1, <2>1, <2>2, <2>8, <2>13 DEF PollFits, PollInv
  <2>15. LevelWith(q)
    <3> SUFFICES ASSUME ~raced PROVE LevelWith(q)
      BY DEF LevelWith
    <3>1. v = maxTXID1 /\ UpTo(poll.combined, v)
      BY <1>1, <2>2 DEF LevelInv, PollL1
    <3>2. UpTo(r.idx, m)
      BY <2>4, <2>6 DEF Polled
    <3>3. ~r.replace => \A p \in Lasting : r.idx[p] = NoElem => LastWrite(p, m) = LastWrite(p, v)
      BY <2>4, <2>6 DEF Polled
    <3>4. ASSUME NEW p \in Lasting, both[p] # NoElem PROVE Content(p, both[p]) >= LastWrite(p, m)
      <4>1. p \in Page
        BY <1>1, LastingSize
      <4>2. CASE both[p] = r.idx[p]
        BY <3>2, <3>4, <4>2 DEF UpTo
      <4>3. CASE both[p] # r.idx[p]
        <5>1. ~r.replace /\ r.idx[p] = NoElem /\ both[p] = poll.combined[p]
          BY <2>7, <4>1, <4>3 DEF Overlay
        <5>2. LastWrite(p, m) = LastWrite(p, v) /\ Content(p, poll.combined[p]) >= LastWrite(p, v)
          BY <3>1, <3>3, <3>4, <5>1 DEF UpTo
        <5> QED
          BY <5>1, <5>2
      <4> QED
        BY <4>2, <4>3
    <3>5. ASSUME NEW p \in Lasting, both[p] = NoElem, ~w PROVE LastWrite(p, m) = LastWrite(p, v)
      <4>1. p \in Page /\ ~r.replace
        BY <1>1, <2>10, <3>5, LastingSize
      <4>2. r.idx[p] = NoElem
        BY <2>7, <3>5, <4>1 DEF Overlay
      <4> QED
        BY <3>3, <4>1, <4>2
    <3>6. v <= m
      BY <2>1, <2>2, <2>6
    <3> QED
      BY <2>13, <3>1, <3>4, <3>5, <3>6 DEF LevelWith, UpTo
  <2> QED
    BY <2>12, <2>14, <2>15, PollKeeps DEF PollL1
<1> QED
  BY <1>3, <1>4

\* What the next transaction sees of page p once the poll is applied.
LEMMA AppliedMerged ==
    ASSUME TypeInv, PendingInv, IsIndex(poll.combined), ApplyPages, NEW p \in Page
    PROVE  Merged'[p] = IF poll.combined[p] # NoElem THEN poll.combined[p]
                        ELSE IF poll.replace THEN NoElem ELSE Merged[p]
<1> USE DEF Overlay
<1>1. PICK c, i, d : c = poll.combined /\ i = index /\ d = pending
  OBVIOUS
<1>2. CASE lockType = "SHARED"
  <2>1. PICK new : new = IF poll.replace THEN c ELSE Overlay(d, c)
    OBVIOUS
  <2>2. pending' = new /\ (pendingReplace' <=> pendingReplace \/ poll.replace) /\ index' = i
    BY <1>1, <1>2, <2>1 DEF ApplyPages
  <2>3. Merged'[p] = IF pendingReplace \/ poll.replace THEN new[p]
                     ELSE IF new[p] # NoElem THEN new[p] ELSE i[p]
    BY <2>2 DEF Merged
  <2>4. Merged[p] = IF pendingReplace THEN d[p] ELSE IF d[p] # NoElem THEN d[p] ELSE i[p]
    BY <1>1 DEF Merged
  <2>5. new[p] = IF poll.replace THEN c[p] ELSE IF c[p] # NoElem THEN c[p] ELSE d[p]
    BY <2>1
  <2> HIDE DEF Overlay
  <2> QED
    BY <1>1, <2>3, <2>4, <2>5, Zenon
<1>3. CASE lockType = "NONE"
  <2>1. PICK new : new = IF poll.replace THEN c ELSE Overlay(i, c)
    OBVIOUS
  <2>2. index' = new /\ pendingReplace' = FALSE /\ pending' = d
    BY <1>1, <1>3, <2>1 DEF ApplyPages
  <2>3. d = EmptyIndex /\ ~pendingReplace
    BY <1>1, <1>3 DEF PendingInv
  <2>4. d[p] = NoElem
    BY <2>3 DEF EmptyIndex
  <2>5. Merged'[p] = new[p]
    BY <2>2, <2>4 DEF Merged
  <2>6. Merged[p] = i[p]
    BY <1>1, <2>3, <2>4 DEF Merged
  <2>7. new[p] = IF poll.replace THEN c[p] ELSE IF c[p] # NoElem THEN c[p] ELSE i[p]
    BY <2>1
  <2> HIDE DEF Overlay
  <2> QED
    BY <1>1, <2>5, <2>6, <2>7, Zenon
<1> QED
  BY <1>2, <1>3 DEF TypeInv

\* The parts of the connection that applying a poll writes.
LEMMA AppliedTypes ==
    ASSUME IInv, ApplyPages, UNCHANGED <<hist, lockType>>
    PROVE  /\ IsIndex(index)' /\ IsIndex(pending)' /\ pendingReplace' \in BOOLEAN
           /\ cache' \in [Page -> 0..MaxTXID] /\ PendingInv' /\ CacheAgrees'
           /\ lockType = "SHARED" => index' = index
<1>1. HistInv /\ TypeInv /\ PendingInv /\ CacheAgrees /\ IsIndex(poll.combined) /\ poll.replace \in BOOLEAN
  BY DEF IInv, PollInv, TypeInv, PollRec
<1>2. HistInv' /\ HistGrows
  BY <1>1, HistSame
<1>3. PICK c, i, d : c = poll.combined /\ i = index /\ d = pending /\ IsIndex(c) /\ IsIndex(i) /\ IsIndex(d)
  BY <1>1 DEF TypeInv
<1>4. \A x : IsIndex(x) => IsIndex(x)'
  BY <1>1, <1>2, IndexKept
<1>5. CASE lockType = "SHARED"
  <2>1. PICK new : new = (IF poll.replace THEN c ELSE Overlay(d, c)) /\ IsIndex(new)
    BY <1>3, OverlaysFit
  <2>2. pending' = new /\ pendingReplace' = (pendingReplace \/ poll.replace) /\ index' = i /\ cache' = cache
    BY <1>3, <1>5, <2>1 DEF ApplyPages
  <2>3. IsIndex(index)' /\ IsIndex(pending)'
    <3>1. IsIndex(new)' /\ IsIndex(i)'
      BY <1>3, <1>4, <2>1
    <3> QED
      BY <2>2, <3>1 DEF IsIndex, IsEntry, Stored, PagesOf
  <2>4. pendingReplace' \in BOOLEAN
    BY <2>2, Zenon
  <2>5. cache' \in [Page -> 0..MaxTXID] /\ PendingInv'
    BY <1>1, <1>5, <2>2 DEF TypeInv, PendingInv
  <2>6. CacheAgrees'
    BY <1>2, <1>3, <2>2, CacheKept
  <2> QED
    BY <1>3, <2>2, <2>3, <2>4, <2>5, <2>6
<1>6. CASE lockType = "NONE"
  <2>1. PICK new : new = (IF poll.replace THEN c ELSE Overlay(i, c)) /\ IsIndex(new)
    BY <1>3, OverlaysFit
  <2>2. /\ index' = new /\ pendingReplace' = FALSE /\ pending' = d
        /\ cache' = [p \in Page |-> IF p \in Keys(c) THEN 0 ELSE cache[p]]
    BY <1>3, <1>6, <2>1 DEF ApplyPages
  <2>3. IsIndex(index)' /\ IsIndex(pending)'
    <3>1. IsIndex(new)' /\ IsIndex(d)'
      BY <1>3, <1>4, <2>1
    <3> QED
      BY <2>2, <3>1 DEF IsIndex, IsEntry, Stored, PagesOf
  <2>4. pendingReplace' \in BOOLEAN
    BY <2>2
  <2>5. PendingInv'
    BY <1>1, <1>3, <1>6, <2>2 DEF PendingInv
  <2>6. cache' \in [Page -> 0..MaxTXID]
    <3>1. 0 \in 0..MaxTXID
      BY VFSReadAssumption
    <3> QED
      BY <1>1, <2>2, <3>1 DEF TypeInv
  <2>7. ASSUME NEW q \in Page, cache'[q] # 0, new[q] # NoElem, cache'[q] # Content(q, new[q]) PROVE q = 1
    <3>1. c[q] = NoElem /\ cache'[q] = cache[q]
      BY <2>2, <2>7 DEF Keys
    <3>2. new[q] = i[q]
      BY <2>1, <2>7, <3>1 DEF Overlay
    <3> QED
      BY <1>1, <1>3, <2>7, <3>1, <3>2 DEF CacheAgrees, Stale
  <2>8. CacheAgrees'
    <3>1. \A q \in Page : Content(q, new[q])' = Content(q, new[q]) /\ Content(q, index[q])' = Content(q, new[q])
      BY <2>2 DEF Content
    <3> QED
      BY <2>2, <2>7, <3>1 DEF CacheAgrees, Stale
  <2> QED
    BY <1>6, <2>3, <2>4, <2>5, <2>6, <2>8
<1> QED
  BY <1>1, <1>5, <1>6 DEF TypeInv

LEMMA PollApplyKeeps == ASSUME IInv, PollApply PROVE IInv'
<1>1. HistInv /\ TypeInv /\ PollInv /\ LevelInv /\ ConnInv /\ PendingInv
  BY DEF IInv
<1>2. PollFits(PollIdle) /\ PollIdle.pc = "idle"
  BY <1>1, IdleFits, PollIdleType
<1>3. CASE targetTime # 0
  <2>1. LevelWith(PollIdle)
    BY <1>2 DEF LevelWith
  <2> QED
    BY <1>2, <1>3, <2>1, PollKeeps DEF PollApply
<1>4. CASE targetTime = 0
  <2>1. /\ ApplyPages
        /\ UNCHANGED <<hist, files, targetTime, lockType, conn, raced, travels>>
        /\ pos' = Max({poll.top0, poll.max1}) /\ maxTXID1' = poll.max1
        /\ commit' \in {commit, poll.newCommit} /\ poll' = PollIdle
    BY <1>4 DEF PollApply, replica
  <2>2. HistInv' /\ HistGrows
    BY <1>1, <2>1, HistSame
  <2>3. PICK n \in Nat : n = Len(hist) /\ n <= MaxTXID
    BY <1>1, HistType
  <2>4. PICK t \in 0..n, m \in 0..n : t = poll.top0 /\ m = poll.max1
    BY <1>1, <2>3, VFSReadAssumption DEF PollInv, TypeInv, PollRec
  <2>5. pos' \in 0..n /\ m <= pos' /\ maxTXID1' = m
    BY <2>1, <2>3, <2>4, MaxOfTwo
  <2>6. /\ IsIndex(index)' /\ IsIndex(pending)' /\ pendingReplace' \in BOOLEAN
        /\ cache' \in [Page -> 0..MaxTXID] /\ PendingInv' /\ CacheAgrees'
        /\ lockType = "SHARED" => index' = index
    BY <2>1, AppliedTypes
  <2>7. PollInv' /\ poll' \in PollRec
    BY <1>2, <2>1, PollFitsNext
  <2>8. TypeInv'
    <3>1. commit' \in 0..MaxPage
      BY <1>1, <2>1 DEF TypeInv, PollRec
    <3>2. pos' \in 0..Len(hist') /\ maxTXID1' \in 0..pos'
      BY <2>1, <2>3, <2>5
    <3>3. files' \subseteq Stored'
      BY <1>1, <2>1, <2>2, StoredGrows DEF TypeInv
    <3> QED
      BY <1>1, <2>1, <2>6, <2>7, <3>1, <3>2, <3>3 DEF TypeInv
  <2>9. ConnInv'
    <3>1. Stored' = Stored /\ \A x, y : IsEntry(x, y)' <=> IsEntry(x, y)
      BY <2>1 DEF IsEntry, Stored, PagesOf
    <3>2. conn' = conn /\ lockType' = lockType /\ targetTime' = 0
      BY <1>4, <2>1
    <3>3. conn.op \in {"fetch", "swap"} => conn'.infos # <<>> /\ Linked(conn.infos, 0)'
      BY <1>1, <3>1, <3>2 DEF ConnInv, Linked
    <3>4. conn.op = "read" => IsEntry(conn.pg, conn.elem)'
      BY <1>1, <3>1, <3>2 DEF ConnInv, IsEntry, PagesOf, Stored
    <3>5. conn.op = "read" /\ lockType = "SHARED" => conn.elem = index'[conn.pg]
      BY <1>1, <2>6 DEF ConnInv
    <3> QED
      BY <1>1, <3>2, <3>3, <3>4, <3>5 DEF ConnInv
  <2>10. HistoricalInv'
    BY <1>4, <2>1 DEF HistoricalInv
  <2>11. LevelInv'
    <3> SUFFICES ASSUME ~raced PROVE LevelInv'
      BY <2>1 DEF LevelInv
    <3>1. PICK x \in 0..n : x = maxTXID1
      BY <1>1, <2>3 DEF TypeInv
    <3>2. PICK c : c = poll.combined /\ IsIndex(c)
      BY <1>1 DEF PollInv
    <3>3. /\ UpTo(Merged, x) /\ UpTo(c, m)
          /\ \A p \in Lasting : c[p] = NoElem /\ ~poll.replace => LastWrite(p, m) = LastWrite(p, x)
      BY <1>1, <2>4, <3>1, <3>2 DEF LevelInv, PollApply
    <3>4. PICK k : k = Merged'
      OBVIOUS
    <3>5. \A p \in Page : k[p] = IF c[p] # NoElem THEN c[p] ELSE IF poll.replace THEN NoElem ELSE Merged[p]
      BY <1>1, <2>1, <3>2, <3>4, AppliedMerged
    <3>6. ASSUME NEW p \in Lasting, k[p] # NoElem PROVE Content(p, k[p]) >= LastWrite(p, m)
      <4>1. p \in Page
        BY <1>1, LastingSize
      <4>2. CASE c[p] # NoElem
        BY <3>3, <3>5, <4>1, <4>2 DEF UpTo
      <4>3. CASE c[p] = NoElem
        <5>1. ~poll.replace /\ k[p] = Merged[p]
          BY <3>5, <3>6, <4>1, <4>3
        <5>2. LastWrite(p, m) = LastWrite(p, x) /\ Content(p, Merged[p]) >= LastWrite(p, x)
          BY <3>3, <3>6, <4>3, <5>1 DEF UpTo
        <5> QED
          BY <5>1, <5>2
      <4> QED
        BY <4>2, <4>3
    <3>7. UpTo(k, m)
      BY <3>6 DEF UpTo
    <3>8. UpTo(k, m)'
      BY <2>1, <3>7 DEF UpTo, Lasting, LastWrite, Content
    <3>9. poll'.pc = "idle"
      BY <1>2, <2>1
    <3>10. UpTo(Merged, maxTXID1)'
      BY <2>5, <3>4, <3>8 DEF UpTo
    <3> QED
      BY <3>9, <3>10 DEF LevelInv
  <2> QED
    BY <2>2, <2>6, <2>7, <2>8, <2>9, <2>10, <2>11 DEF IInv
<1> QED
  BY <1>3, <1>4

-----------------------------------------------------------------------------
(* The invariant is inductive.                                             *)

LEMMA InitHolds == Init => IInv
<1> SUFFICES ASSUME Init PROVE IInv
  OBVIOUS
<1>1. PICK h : h = [pages |-> Page, commit |-> MaxPage]
  OBVIOUS
<1>2. hist = <<h>> /\ h \in [pages: SUBSET Page, commit: Page] /\ h.pages = Page
  BY <1>1, VFSReadAssumption DEF Init, Page
<1>3. Len(hist) = 1 /\ hist[1] = h
  BY <1>2
<1>4. HistInv
  <2>1. hist \in Seq([pages: SUBSET Page, commit: Page]) /\ Len(hist) \in 1..MaxTXID
    BY <1>2, <1>3, VFSReadAssumption
  <2>2. 1..(Len(hist) - 1) = {}
    BY <1>3
  <2> QED
    BY <1>2, <1>3, <2>1, <2>2 DEF HistInv
<1>5. files \subseteq Stored
  BY <1>3, VFSReadAssumption DEF Init, Stored, File, TXID, SnapshotLevel
<1>6. /\ index = EmptyIndex /\ pending = EmptyIndex /\ pendingReplace = FALSE /\ pos = 0 /\ maxTXID1 = 0
      /\ targetTime = 0 /\ lockType = "NONE" /\ poll = PollIdle /\ raced = FALSE
      /\ cache = [p \in Page |-> 0] /\ conn = ConnClosed
  BY DEF Init
<1>7. conn \in ConnRec /\ conn.op = "closed"
  BY <1>6, ConnIdleType DEF ConnClosed, ConnRec
<1>8. TypeInv
  <2>1. 0 \in 0..MaxTXID /\ 0 \in 0..MaxPage /\ 0 \in 0..MaxTravels /\ 0 \in 0..Len(hist) /\ 0 \in 0..0
    BY <1>3, VFSReadAssumption
  <2> QED
    BY <1>5, <1>6, <1>7, <2>1, EmptyIsIndex, PollIdleType DEF TypeInv, Init
<1>9. PendingInv /\ ConnInv /\ CacheAgrees /\ HistoricalInv
  BY <1>6, <1>7 DEF PendingInv, ConnInv, CacheAgrees, Stale, HistoricalInv
<1>10. PollInv
  BY <1>4, <1>6, IdleFits DEF PollFits, PollInv
<1>11. LevelInv
  <2>1. \A p \in Page : Merged[p] = NoElem
    BY <1>6 DEF Merged, Overlay, EmptyIndex
  <2>2. UpTo(Merged, maxTXID1)
    BY <1>4, <2>1, LastingSize DEF UpTo
  <2> QED
    BY <1>6, <2>2, PollIdleType DEF LevelInv
<1> QED
  BY <1>4, <1>8, <1>9, <1>10, <1>11 DEF IInv

LEMMA IInvInductive == IInv /\ [Next]_vars => IInv'
<1> SUFFICES ASSUME IInv, [Next]_vars PROVE IInv'
  OBVIOUS
<1>1. CASE Upload \/ Compact \/ EnforceL0Retention \/ UNCHANGED vars
  BY <1>1, UploadKeeps, CompactKeeps, RetentionKeeps, Stutters
<1>2. CASE Open \/ SetTargetTime \/ ResetTime
  <2>1. TXID \subseteq 0..MaxTXID /\ 0 \in 0..MaxTXID
    BY VFSReadAssumption DEF TXID
  <2> QED
    BY <1>2, <2>1, OpenKeeps, TravelKeeps DEF SetTargetTime, ResetTime
<1>3. CASE BuildIndexMap \/ CallFails \/ RebuildIndex
  BY <1>3, BuildIndexMapKeeps, CallFailsKeeps, RebuildIndexKeeps
<1>4. CASE Lock \/ Unlock \/ ReadDone \/ ReadFails
  BY <1>4, LockKeeps, UnlockKeeps, ReadDoneKeeps, ReadFailsKeeps
<1>5. CASE ReadPage
  BY <1>5, ReadAtKeeps DEF ReadPage
<1>6. CASE ReadHeader
  <2>1. 1 \in Page
    BY VFSReadAssumption DEF Page
  <2> QED
    BY <1>6, <2>1, ReadAtKeeps DEF ReadHeader
<1>7. CASE PollStart \/ PollL0 \/ PollL1 \/ PollFails \/ PollApply
  BY <1>7, PollStartKeeps, PollL0Keeps, PollL1Keeps, PollFailsKeeps, PollApplyKeeps
<1> QED
  BY <1>1, <1>2, <1>3, <1>4, <1>5, <1>6, <1>7 DEF Next

LEMMA Inductive == Spec => []IInv
BY InitHolds, IInvInductive, PTL DEF Spec

-----------------------------------------------------------------------------
\* Shape of the fields of VFSFile; polls leave entries in f.pending only while
\* SQLite holds its lock, and Unlock merges them.
THEOREM TypesHold == Spec => []TypeOK
<1>1. IInv => TypeOK
  <2> SUFFICES ASSUME IInv PROVE TypeOK
    OBVIOUS
  <2>1. HistInv /\ TypeInv /\ PendingInv
    BY DEF IInv
  <2>2. PICK n \in Nat : n = Len(hist) /\ n <= MaxTXID
    BY <2>1, HistType
  <2>3. 0..MaxTXID \subseteq {0} \cup TXID /\ 0..MaxPage \subseteq {0} \cup Page /\ pos \in 0..MaxTXID /\ maxTXID1 \in 0..MaxTXID
    BY <2>1, <2>2, VFSReadAssumption DEF TXID, Page, TypeInv
  <2>4. files \subseteq File
    BY <2>1 DEF TypeInv, Stored
  <2>5. cache \in [Page -> {0} \cup TXID]
    BY <2>1, <2>3 DEF TypeInv
  <2> QED
    BY <2>1, <2>3, <2>4, <2>5 DEF TypeOK, TypeInv, HistInv, PendingInv, IsIndex
<1> QED
  BY <1>1, Inductive, PTL

\* No page but the first stays in f.cache when the index has another file for
\* it, although ReadAt fetches pages without f.mu: for any cache, any number of
\* pages, polls and calls that set the time.
THEOREM CacheNeverStale == Spec => []CacheAgrees
<1>1. IInv => CacheAgrees
  BY DEF IInv
<1> QED
  BY <1>1, Inductive, PTL

\* Polls, locks and time travel never lose a page of a level-1 file that the
\* connection has counted in f.maxTXID1, unless an index was swapped in under a
\* poll.
THEOREM Level1Reached == Spec => []NotOlderThanLevel1
<1>1. IInv => NotOlderThanLevel1
  BY DEF IInv, LevelInv, UpTo, NotOlderThanLevel1
<1> QED
  BY <1>1, Inductive, PTL

\* SetTargetTime shows the state at the end of its restore plan, page by page:
\* the plan has the last write of each, and no poll or pending entry adds to it.
THEOREM TimeTravelExact == Spec => []HistoricalIsExact
<1>1. IInv => HistoricalIsExact
  <2> SUFFICES ASSUME IInv, targetTime # 0
               PROVE  /\ pending = EmptyIndex
                      /\ \A p \in 1..hist[pos].commit : p \notin Stale /\ Seen(p) = LastWrite(p, pos)
    BY DEF HistoricalIsExact
  <2> QED
    BY DEF IInv, HistoricalInv, Stale, Seen
<1> QED
  BY <1>1, Inductive, PTL

\* What a step leaves of the index and the cache while the lock is held.
LEMMA UnderLock ==
    ASSUME IInv, [Next]_vars, lockType = "SHARED", lockType' = "SHARED", conn.op # "swap"
    PROVE  /\ HistGrows /\ HistInv' /\ index' = index
           /\ \A q \in Page : cache'[q] \in {0, cache[q], Content(q, index[q])}
<1>1. HistInv' /\ HistInv
  BY IInvInductive DEF IInv
<1>2. CASE UNCHANGED <<hist, index, cache>>
  BY <1>1, <1>2, HistSame
<1>3. CASE Upload
  <2>1. Len(hist') = Len(hist) + 1 /\ \A t \in 1..Len(hist) : hist'[t] = hist[t]
    <3>1. PICK r \in [pages: SUBSET Page, commit: Page] : hist' = Append(hist, r)
      <4>1. \A size \in Page : SUBSET (1..size) \subseteq SUBSET Page
        BY VFSReadAssumption DEF Page
      <4> QED
        BY <1>3, <4>1 DEF Upload
    <3>2. PICK R : R = [pages: SUBSET Page, commit: Page] /\ hist \in Seq(R)
      BY <1>1 DEF HistInv
    <3> QED
      BY <3>1, <3>2
  <2>2. HistGrows
    BY <1>1, <2>1, HistType DEF HistGrows
  <2> QED
    BY <1>1, <1>3, <2>2 DEF Upload, view
<1>4. CASE ReadDone
  <2>1. PICK p, e : p = conn.pg /\ e = conn.elem /\ p \in Page /\ e = index[p]
    BY <1>4 DEF IInv, ConnInv, ReadDone
  <2>2. PICK added : added = [cache EXCEPT ![p] = Content(p, e)]
    OBVIOUS
  <2>3. cache' = added \/ \E q \in Page : cache' = [added EXCEPT ![q] = 0]
    BY <1>4, <2>1, <2>2 DEF ReadDone
  <2>4. cache \in [Page -> 0..MaxTXID]
    BY DEF IInv, TypeInv
  <2>5. \A q \in Page : cache'[q] \in {0, cache[q], Content(q, index[q])}
    BY <2>1, <2>2, <2>3, <2>4
  <2> QED
    BY <1>1, <1>4, <2>5, HistSame DEF ReadDone, replica
<1>5. CASE PollApply
  <2>1. UNCHANGED <<hist, index, cache>>
    BY <1>5 DEF PollApply, ApplyPages, replica, view
  <2> QED
    BY <1>1, <2>1, HistSame
<1>6. CASE Compact \/ EnforceL0Retention \/ UNCHANGED vars
  BY <1>2, <1>6 DEF Compact, EnforceL0Retention, view, vars
<1>7. CASE Open \/ SetTargetTime \/ ResetTime \/ BuildIndexMap \/ CallFails \/ RebuildIndex
  BY <1>2, <1>7 DEF Open, SetTargetTime, ResetTime, Travel, Begin, BuildIndexMap, CallFails, RebuildIndex, replica, view
<1>8. CASE Lock \/ Unlock \/ ReadPage \/ ReadHeader \/ ReadFails
  BY <1>2, <1>8 DEF Lock, Unlock, ReadPage, ReadHeader, ReadAt, ReadFails, replica, view
<1>9. CASE PollStart \/ PollL0 \/ PollL1 \/ PollFails
  BY <1>2, <1>9 DEF PollStart, PollL0, PollL1, PollFails, replica, view
<1> QED
  BY <1>3, <1>4, <1>5, <1>6, <1>7, <1>8, <1>9 DEF Next

\* While SQLite holds its SHARED lock, polls, evictions and refetches leave what
\* it reads of every page as it was.
THEOREM ReadsAreIsolated == Spec => Isolation
<1>1. IInv /\ [Next]_vars
        => (lockType = "SHARED" /\ lockType' = "SHARED" /\ conn.op # "swap"
            => \A p \in Keys(index) \ Stale : Seen(p)' = Seen(p))
  <2> SUFFICES ASSUME IInv, [Next]_vars, lockType = "SHARED", lockType' = "SHARED", conn.op # "swap",
                      NEW p \in Keys(index) \ Stale
               PROVE  Seen(p)' = Seen(p)
    OBVIOUS
  <2>1. HistInv /\ IsIndex(index)
    BY DEF IInv, TypeInv
  <2>2. p \in Page /\ index[p] # NoElem /\ (cache[p] # 0 => cache[p] = Content(p, index[p]))
    BY DEF Keys, Stale
  <2>3. /\ HistGrows /\ HistInv' /\ index' = index
        /\ cache'[p] \in {0, cache[p], Content(p, index[p])}
    BY <2>2, UnderLock
  <2>4. Content(p, index[p])' = Content(p, index[p])
    <3>1. PICK e : e = index[p] /\ e \in Stored /\ p \in PagesOf(e)
      BY <2>1, <2>2, EntryType
    <3>2. Content(p, e)' = Content(p, e)
      BY <2>1, <2>3, <3>1, StoredGrows
    <3> QED
      BY <2>3, <3>1, <3>2 DEF Content
  <2>5. Seen(p) = Content(p, index[p])
    BY <2>2 DEF Seen
  <2>6. Seen(p)' = Content(p, index[p])
    BY <2>2, <2>3, <2>4 DEF Seen
  <2> QED
    BY <2>5, <2>6
<1> QED
  BY <1>1, Inductive, PTL DEF Spec, Isolation

=============================================================================
