---------------------------- MODULE FollowProofs ----------------------------
(***************************************************************************)
(* What a follower repairs of the mixtures that failed polls, corrupt files *)
(* and crashes leave in its database, for any number of transactions,      *)
(* pages, levels and failures: everything but the pages in spoilt.         *)
(***************************************************************************)
EXTENDS Follow, SequenceTheorems, WellFoundedInduction, TLAPS

\* The files of the replica: level 0 holds single transactions.
FileSet ==
    {f \in [level : 0..SnapshotLevel, min : Nat \ {0}, max : 1..Newest] : f.level = 0 => f.min = f.max}

PollType ==
    [cur : Nat, l0 : SUBSET FileSet, up : SUBSET FileSet, saw : BOOLEAN, lvl : Nat, gap : Nat, from : Nat]

ApplyType ==
    [file : FileSet, todo : SUBSET (1..MaxPage), bad : BOOLEAN, ret : {"scan", "fill"}]

\* The pages of a database, in order.
Database == {s \in Seq(Nat) : Len(s) <= MaxPage}

TypeInv ==
    /\ hist \in Seq(Database) /\ Newest >= 1
    /\ files \subseteq FileSet
    /\ db \in Database /\ disk \in Database
    /\ side \in Nat /\ last \in Nat
    /\ pc \in {"down", "published", "idle", "scan", "fill", "apply", "close"}
    /\ high \in Nat /\ high <= Newest
    /\ poll \in PollType
    /\ app \in ApplyType /\ app.todo \subseteq Pages(app.file)

\* A page that has not changed since t is that of t, and pages only get newer.
HistInv ==
    \A u \in 1..Newest :
        /\ Len(hist[u]) >= 1
        /\ \A p \in 1..Len(hist[u]) :
              /\ hist[u][p] \in 1..u
              /\ \A t \in 1..u : /\ hist[u][p] <= t => p <= Len(hist[t]) /\ hist[t][p] = hist[u][p]
                                 /\ p <= Len(hist[t]) => hist[t][p] <= hist[u][p]

\* Between c and m, the highest transaction begun, page p is written or
\* dropped: what is still to be applied will replace it.  Or it is one of S,
\* the pages that are spoilt.
Dirty(c, p, m, S) == p \in S \/ \E t \in (c + 1)..m : p > Len(hist[t]) \/ hist[t][p] > c

\* A database that has reached c: a page that differs from the state c will
\* be replaced, unless it is one of S.
AtState(d, c, m, S) ==
    /\ d # NoDB
    /\ \A p \in 1..Len(hist[c]) : (p <= Len(d) /\ d[p] = hist[c][p]) \/ Dirty(c, p, m, S)

\* No page of it is older than in any state up to c, garbage aside.
NotOlder(d, c) ==
    \A t \in 1..c : \A p \in 1..Len(hist[t]) : p <= Len(d) => d[p] = 0 \/ d[p] >= hist[t][p]

\* The marks of the follower never run ahead of one another.
MarkInv ==
    /\ side <= Reached /\ Reached <= high
    /\ pc \notin {"down", "published"} => side <= last /\ last > 0 /\ last <= Reached
    /\ pc = "published" => side = 0 /\ disk = NoDB /\ last > 0
    /\ db = NoDB => pc = "down" /\ side = 0 /\ disk = NoDB

\* A database at state c of a follower that has begun m: once everything begun
\* is applied it has the right size too.
OnTrack(d, c, m, S) ==
    AtState(d, c, m, S) /\ NotOlder(d, c) /\ (c = m => Len(d) = Len(hist[c]))

\* What readers see, and what a crash would leave.
DataInv ==
    /\ Reached > 0 => OnTrack(db, Reached, high, spoilt)
    /\ Reached > 0 /\ pc # "published" => OnTrack(disk, Reached, high, spoilt)

\* The file under way continues the state reached, and its pages that are
\* done are in place unless one of them was corrupt.
ApplyInv ==
    pc \in {"apply", "close"} =>
        /\ app.file.min <= poll.cur + 1 /\ poll.cur < app.file.max /\ app.file.max <= high
        /\ ~app.bad => \A p \in Pages(app.file) \ app.todo : p <= Len(db) /\ db[p] = hist[app.file.max][p]
        /\ pc = "close" => app.todo = {} /\ Len(db) = Len(hist[app.file.max])

IInv == TypeInv /\ HistInv /\ MarkInv /\ DataInv /\ ApplyInv

-----------------------------------------------------------------------------
(* The least and the greatest element of a set.                            *)

LEMMA NatHasLeast ==
    ASSUME NEW T \in SUBSET Nat, T # {}
    PROVE  \E x \in T : \A y \in T : x <= y
<1>1. PICK x \in T : \A y \in T : ~(<<y, x>> \in OpToRel(<, Nat))
  BY WFMin, NatLessThanWellFounded, Zenon
<1>2. \A y \in T : ~(y < x)
  <2>1. \A y \in T : y \in Nat /\ x \in Nat
    OBVIOUS
  <2>2. ASSUME NEW y \in T, y < x PROVE <<y, x>> \in OpToRel(<, Nat)
    BY <2>1, <2>2 DEF OpToRel
  <2> QED
    BY <1>1, <2>2
<1> QED
  BY <1>2

LEMMA MinIsIn ==
    ASSUME NEW S \in SUBSET Nat, S # {}
    PROVE  Min(S) \in S /\ \A y \in S : Min(S) <= y
<1>1. \E x \in S : \A y \in S : x <= y
  BY NatHasLeast
<1> QED
  BY <1>1, Zenon DEF Min

LEMMA MaxIsIn ==
    ASSUME NEW S \in SUBSET Nat, S # {}, NEW n \in Nat, \A y \in S : y <= n
    PROVE  /\ Max(S) \in S
           /\ \A y \in S : y <= Max(S)
<1> DEFINE T == {b \in Nat : \A y \in S : y <= b}
<1>1. PICK b \in T : \A x \in T : b <= x
  <2>1. n \in T
    OBVIOUS
  <2> HIDE DEF T
  <2> QED
    BY <2>1, NatHasLeast DEF T
<1>2. b \in S
  <2> SUFFICES ASSUME b \notin S PROVE FALSE
    OBVIOUS
  <2>1. b # 0
    <3>1. PICK y \in S : y \in Nat /\ y <= b
      OBVIOUS
    <3> QED
      BY <3>1
  <2>2. b - 1 \in T
    BY <2>1
  <2> QED
    BY <1>1, <2>2
<1>3. \E x \in S : \A y \in S : x >= y
  BY <1>2
<1>4. Max(S) \in S /\ \A y \in S : Max(S) >= y
  BY <1>3, Zenon DEF Max
<1> QED
  BY <1>4

LEMMA MaxOfTwo == ASSUME NEW a \in Nat, NEW b \in Nat PROVE Max({a, b}) = IF a <= b THEN b ELSE a
<1>1. {a, b} \in SUBSET Nat /\ {a, b} # {}
  OBVIOUS
<1>2. CASE a <= b
  <2>1. \A y \in {a, b} : y <= b
    BY <1>2
  <2>2. Max({a, b}) \in {a, b} /\ b <= Max({a, b})
    BY <1>1, <2>1, MaxIsIn
  <2> QED
    BY <1>2, <2>2
<1>3. CASE ~(a <= b)
  <2>1. \A y \in {a, b} : y <= a
    BY <1>3
  <2>2. Max({a, b}) \in {a, b} /\ a <= Max({a, b})
    BY <1>1, <2>1, MaxIsIn
  <2> QED
    BY <1>3, <2>2
<1> QED
  BY <1>2, <1>3

-----------------------------------------------------------------------------
(* The history.                                                            *)

LEMMA HistType ==
    ASSUME TypeInv
    PROVE  /\ Newest \in Nat /\ Len(hist) = Newest
           /\ \A u \in 1..Newest : /\ hist[u] \in Seq(Nat) /\ Len(hist[u]) \in Nat /\ Len(hist[u]) <= MaxPage
                                   /\ \A p \in 1..Len(hist[u]) : hist[u][p] \in Nat
<1>1. hist \in Seq(Database)
  BY DEF TypeInv
<1>2. \A u \in 1..Len(hist) : hist[u] \in Database
  BY <1>1
<1>3. \A s \in Database : s \in Seq(Nat) /\ Len(s) \in Nat /\ Len(s) <= MaxPage /\ \A p \in 1..Len(s) : s[p] \in Nat
  BY DEF Database
<1> QED
  BY <1>1, <1>2, <1>3 DEF Newest

\* What the follower keeps while it goes back to an earlier mark, or begins
\* a higher transaction.
LEMMA GoBack ==
    ASSUME TypeInv, HistInv, NEW S, NEW d, NEW c \in 1..Newest, NEW b \in 1..c, NEW m \in c..Newest, AtState(d, c, m, S)
    PROVE  AtState(d, b, m, S)
<1>1. Newest \in Nat /\ b \in Nat /\ c \in Nat /\ m \in Nat /\ b \in 1..Newest
  BY HistType
<1> SUFFICES ASSUME NEW p \in 1..Len(hist[b]), ~Dirty(b, p, m, S) PROVE p <= Len(d) /\ d[p] = hist[b][p]
  BY DEF AtState
<1>2. ~Dirty(c, p, m, S)
  <2>0. p \notin S
    BY DEF Dirty
  <2> SUFFICES ASSUME NEW t \in (c + 1)..m, p > Len(hist[t]) \/ hist[t][p] > c PROVE FALSE
    BY <2>0 DEF Dirty
  <2>1. t \in (b + 1)..m /\ t \in 1..Newest
    BY <1>1
  <2>2. p \in 1..Len(hist[t]) => hist[t][p] \in Nat
    BY <2>1, HistType
  <2>3. p > Len(hist[t]) \/ hist[t][p] > b
    <3>1. CASE p > Len(hist[t])
      BY <3>1
    <3>2. CASE ~(p > Len(hist[t]))
      <4>1. p \in 1..Len(hist[t])
        BY <2>1, <3>2, HistType
      <4> QED
        BY <1>1, <2>2, <4>1
    <3> QED
      BY <3>1, <3>2
  <2> QED
    BY <2>1, <2>3 DEF Dirty
<1>3. CASE b = c
  BY <1>2, <1>3 DEF AtState
<1>4. CASE b < c
  <2>1. c \in (b + 1)..m
    BY <1>1, <1>4
  <2>2. ~(p > Len(hist[c])) /\ ~(hist[c][p] > b)
    BY <2>1 DEF Dirty
  <2>3. p \in 1..Len(hist[c]) /\ hist[c][p] \in Nat
    BY <1>1, <2>2, HistType
  <2>4. hist[c][p] <= b
    BY <1>1, <2>2, <2>3
  <2>5. hist[b][p] = hist[c][p]
    BY <1>1, <2>3, <2>4 DEF HistInv
  <2> QED
    BY <1>2, <2>3, <2>5 DEF AtState
<1> QED
  BY <1>1, <1>3, <1>4

\* More pages are spoilt.
LEMMA MoreSpoilt ==
    ASSUME NEW d, NEW c, NEW m, NEW S, NEW T, S \subseteq T, OnTrack(d, c, m, S)
    PROVE  OnTrack(d, c, m, T)
BY DEF OnTrack, AtState, Dirty

LEMMA GoHigher ==
    ASSUME NEW S, NEW d, NEW c \in Nat, NEW m \in Nat, NEW n \in Nat, m <= n, AtState(d, c, m, S)
    PROVE  AtState(d, c, n, S)
<1>1. \A p : Dirty(c, p, m, S) => Dirty(c, p, n, S)
  BY DEF Dirty
<1> QED
  BY <1>1 DEF AtState

\* A committed database is at its own state.
LEMMA Committed ==
    ASSUME TypeInv, HistInv, NEW S, NEW c \in 1..Newest, NEW m
    PROVE  AtState(hist[c], c, m, S) /\ NotOlder(hist[c], c) /\ hist[c] # NoDB
<1>1. Len(hist[c]) \in Nat /\ Len(hist[c]) >= 1 /\ c \in Nat /\ \A p \in 1..Len(hist[c]) : hist[c][p] \in Nat
  BY HistType DEF HistInv
<1>2. hist[c] # NoDB
  BY <1>1 DEF NoDB
<1>3. AtState(hist[c], c, m, S)
  BY <1>1, <1>2 DEF AtState
<1>4. NotOlder(hist[c], c)
  <2> SUFFICES ASSUME NEW t \in 1..c, NEW p \in 1..Len(hist[t]), p <= Len(hist[c]) PROVE hist[c][p] >= hist[t][p]
    BY DEF NotOlder
  <2>1. t \in 1..Newest /\ p \in 1..Len(hist[c])
    BY <1>1, HistType
  <2>2. hist[t][p] <= hist[c][p] /\ hist[t][p] \in Nat
    BY <2>1, HistType DEF HistInv
  <2> QED
    BY <1>1, <2>1, <2>2
<1> QED
  BY <1>2, <1>3, <1>4

-----------------------------------------------------------------------------
(* Writing to the database file.                                           *)

LEMMA PutIs ==
    ASSUME NEW d \in Database, NEW p \in Nat, NEW v \in Nat, NEW n \in 0..MaxPage, NEW e, e = Put(d, p, v, n)
    PROVE  e \in Database /\ Len(e) = n
<1>1. n \in Nat /\ n <= MaxPage
  BY FollowBounds
<1>2. d \in Seq(Nat) /\ Len(d) \in Nat
  BY DEF Database
<1>3. \A q \in 1..n : (IF q = p THEN v ELSE IF q <= Len(d) THEN d[q] ELSE 0) \in Nat
  BY <1>2
<1>4. e \in [1..n -> Nat]
  BY <1>3 DEF Put
<1>5. e \in Seq(Nat) /\ Len(e) = n
  BY <1>1, <1>4
<1> QED
  BY <1>1, <1>5 DEF Database

\* e is d, cut or grown; but for page p.
ElsewhereSame(d, e, p) == \A q \in 1..Len(e) : q # p => e[q] = IF q <= Len(d) THEN d[q] ELSE 0

\* A page of transaction x, or garbage in its place, under a file that goes
\* on to x.
LEMMA PageWritten ==
    ASSUME TypeInv, HistInv, NEW S, NEW d \in Database, NEW c \in 1..Newest, NEW m \in c..Newest, NEW x \in (c + 1)..m,
           AtState(d, c, m, S), NotOlder(d, c), NEW p \in 1..Len(hist[x]),
           NEW e \in Database, p <= Len(e), Len(d) <= Len(e),
           e[p] = hist[x][p] \/ (e[p] = 0 /\ (hist[x][p] > c \/ p \in S)),
           ElsewhereSame(d, e, p)
    PROVE  AtState(e, c, m, S) /\ NotOlder(e, c)
<1>0. \A q \in 1..Len(e) : q # p => e[q] = IF q <= Len(d) THEN d[q] ELSE 0
  BY DEF ElsewhereSame
<1>1. Newest \in Nat /\ x \in 1..Newest /\ c \in Nat /\ m \in Nat /\ x \in Nat
  BY HistType
<1>2. Len(hist[x]) \in Nat /\ hist[x][p] \in Nat /\ p \in Nat /\ p \in 1..Len(e)
  BY <1>1, HistType DEF Database
<1>3. Len(d) \in Nat /\ Len(e) \in Nat
  BY DEF Database
<1>4. AtState(e, c, m, S)
  <2>1. e # NoDB
    BY <1>2, <1>3 DEF NoDB
  <2>2. ASSUME NEW q \in 1..Len(hist[c]) PROVE (q <= Len(e) /\ e[q] = hist[c][q]) \/ Dirty(c, q, m, S)
    <3>1. Len(hist[c]) \in Nat /\ q \in Nat
      BY HistType
    <3>2. CASE q # p
      <4>1. (q <= Len(d) /\ d[q] = hist[c][q]) \/ Dirty(c, q, m, S)
        BY DEF AtState
      <4>2. q <= Len(d) => q \in 1..Len(e)
        BY <1>3, <3>1
      <4> QED
        BY <1>0, <1>3, <3>1, <3>2, <4>1, <4>2
    <3>3. CASE q = p /\ (hist[x][p] > c \/ p \in S)
      BY <3>3 DEF Dirty
    <3>4. CASE q = p /\ ~(hist[x][p] > c \/ p \in S)
      <4>1. hist[x][p] <= c /\ c \in 1..x
        BY <1>1, <1>2, <3>4
      <4>2. hist[c][p] = hist[x][p]
        BY <1>1, <4>1 DEF HistInv
      <4> QED
        BY <3>4, <4>2
    <3> QED
      BY <3>2, <3>3, <3>4
  <2> QED
    BY <2>1, <2>2 DEF AtState
<1>5. NotOlder(e, c)
  <2> SUFFICES ASSUME NEW t \in 1..c, NEW q \in 1..Len(hist[t]), q <= Len(e) PROVE e[q] = 0 \/ e[q] >= hist[t][q]
    BY DEF NotOlder
  <2>1. t \in 1..x /\ t \in 1..Newest /\ q \in Nat /\ q \in 1..Len(e)
    BY <1>1, <1>3, HistType
  <2>2. CASE q = p
    <3>1. p <= Len(hist[t]) /\ hist[t][p] \in Nat
      BY <2>1, <2>2, HistType
    <3>2. hist[t][p] <= hist[x][p]
      BY <1>1, <2>1, <3>1 DEF HistInv
    <3> QED
      BY <1>2, <2>2, <3>1, <3>2
  <2>3. CASE q # p /\ q <= Len(d)
    <3>1. d[q] = 0 \/ d[q] >= hist[t][q]
      BY <2>3 DEF NotOlder
    <3> QED
      BY <1>0, <2>1, <2>3, <3>1
  <2>4. CASE q # p /\ ~(q <= Len(d))
    BY <1>0, <2>1, <2>4
  <2> QED
    BY <2>2, <2>3, <2>4
<1> QED
  BY <1>4, <1>5

\* The end of a file that goes on to x: the database is cut to its size.
LEMMA FileEnds ==
    ASSUME TypeInv, HistInv, NEW S, NEW d \in Database, NEW c \in 1..Newest, NEW m \in c..Newest, NEW x \in (c + 1)..m,
           AtState(d, c, m, S), NotOlder(d, c), NEW e \in Database, Len(e) = Len(hist[x]),
           ElsewhereSame(d, e, 0)
    PROVE  AtState(e, c, m, S) /\ NotOlder(e, c)
<1>0. \A q \in 1..Len(e) : e[q] = IF q <= Len(d) THEN d[q] ELSE 0
  BY DEF ElsewhereSame, Database
<1>1. Newest \in Nat /\ x \in 1..Newest
  BY HistType
<1>2. Len(hist[x]) \in Nat /\ Len(hist[x]) >= 1 /\ Len(d) \in Nat
  <2>1. Len(hist[x]) \in Nat /\ Len(d) \in Nat
    BY <1>1, HistType DEF Database
  <2> QED
    BY <1>1, <2>1 DEF HistInv
<1>3. AtState(e, c, m, S)
  <2>1. ASSUME NEW q \in 1..Len(hist[c]), ~Dirty(c, q, m, S) PROVE q <= Len(e) /\ e[q] = hist[c][q]
    <3>1. q <= Len(d) /\ d[q] = hist[c][q]
      BY <2>1 DEF AtState
    <3>2. ~(q > Len(hist[x])) /\ q \in Nat
      BY <2>1, HistType DEF Dirty
    <3> QED
      BY <1>0, <1>2, <3>1, <3>2
  <2>2. e # NoDB
    BY <1>2 DEF NoDB
  <2> QED
    BY <2>1, <2>2 DEF AtState
<1>4. NotOlder(e, c)
  <2> SUFFICES ASSUME NEW t \in 1..c, NEW q \in 1..Len(hist[t]), q <= Len(e) PROVE e[q] = 0 \/ e[q] >= hist[t][q]
    BY DEF NotOlder
  <2>1. q \in 1..Len(e)
    BY <1>2
  <2> QED
    BY <1>0, <2>1 DEF NotOlder
<1> QED
  BY <1>3, <1>4

\* It is at state x if every page of the file is in place.
LEMMA FileDone ==
    ASSUME TypeInv, HistInv, NEW S, NEW d \in Database, NEW c \in 1..Newest, NEW m \in c..Newest, NEW x \in (c + 1)..m,
           Len(d) = Len(hist[x]), AtState(d, c, m, S), NotOlder(d, c),
           NEW a \in Nat, a <= c + 1,
           \A p \in 1..Len(hist[x]) : hist[x][p] >= a => p <= Len(d) /\ d[p] = hist[x][p]
    PROVE  AtState(d, x, m, S) /\ NotOlder(d, x)
<1>1. /\ Newest \in Nat /\ x \in 1..Newest /\ c \in Nat /\ m \in Nat /\ x \in Nat
      /\ Len(hist[x]) \in Nat /\ Len(hist[x]) >= 1 /\ \A p \in 1..Len(hist[x]) : hist[x][p] \in Nat
  <2>1. Newest \in Nat /\ x \in 1..Newest /\ c \in Nat /\ m \in Nat /\ x \in Nat
    BY HistType
  <2> QED
    BY <2>1, HistType DEF HistInv
<1>3. d \in Seq(Nat) /\ Len(d) = Len(hist[x]) /\ \A q \in 1..Len(d) : d[q] \in Nat
  BY DEF Database
<1>4. d # NoDB
  BY <1>1, <1>3 DEF NoDB
<1>5. ASSUME NEW p \in 1..Len(hist[x]), hist[x][p] <= c
      PROVE  p \in 1..Len(hist[c]) /\ hist[c][p] = hist[x][p]
  BY <1>1, <1>5, HistType DEF HistInv
<1>6. AtState(d, x, m, S)
  <2>1. ASSUME NEW p \in 1..Len(hist[x]), ~Dirty(x, p, m, S) PROVE p <= Len(d) /\ d[p] = hist[x][p]
    <3>1. CASE hist[x][p] >= a
      <4>1. p <= Len(d) /\ d[p] = hist[x][p]
        BY <3>1
      <4> QED
        BY <1>1, <1>3, <4>1
    <3>2. CASE ~(hist[x][p] >= a)
      <4>1. hist[x][p] <= c
        BY <1>1, <3>2
      <4>2. p \in 1..Len(hist[c]) /\ hist[c][p] = hist[x][p]
        BY <1>5, <4>1
      <4>3. ~Dirty(c, p, m, S)
        <5>0. p \notin S
          BY <2>1 DEF Dirty
        <5> SUFFICES ASSUME NEW t \in (c + 1)..m, p > Len(hist[t]) \/ hist[t][p] > c PROVE FALSE
          BY <5>0 DEF Dirty
        <5>1. t \in 1..Newest /\ t \in Nat /\ Len(hist[t]) \in Nat /\ p \in Nat
          BY <1>1, HistType
        <5>2. CASE t > x
          <6>1. t \in (x + 1)..m
            BY <1>1, <5>1, <5>2
          <6>2. ~(p > Len(hist[t])) /\ ~(hist[t][p] > x)
            <7>1. \A s \in (x + 1)..m : ~(p > Len(hist[s]) \/ hist[s][p] > x)
              BY <2>1 DEF Dirty
            <7> QED
              BY <6>1, <7>1
          <6>3. p \in 1..Len(hist[t]) /\ hist[t][p] \in Nat
            <7>1. p \in 1..Len(hist[t])
              BY <5>1, <6>2
            <7> QED
              BY <5>1, <7>1, HistType
          <6>4. hist[t][p] <= x /\ x \in 1..t
            BY <1>1, <5>1, <5>2, <6>2, <6>3
          <6>5. hist[x][p] = hist[t][p]
            BY <5>1, <6>3, <6>4 DEF HistInv
          <6> QED
            BY <1>1, <4>1, <5>1, <6>2, <6>3, <6>5
        <5>3. CASE t <= x
          <6>1. t \in 1..x /\ hist[x][p] <= t
            BY <1>1, <4>1, <5>1, <5>3
          <6>2. p <= Len(hist[t]) /\ hist[t][p] = hist[x][p]
            BY <1>1, <6>1 DEF HistInv
          <6> QED
            BY <1>1, <4>1, <5>1, <6>2
        <5> QED
          BY <1>1, <5>1, <5>2, <5>3
      <4>4. p <= Len(d) /\ d[p] = hist[c][p]
        BY <4>2, <4>3 DEF AtState
      <4> QED
        BY <1>1, <1>3, <4>2, <4>4
    <3> QED
      BY <3>1, <3>2
  <2> QED
    BY <1>4, <2>1 DEF AtState
<1>7. NotOlder(d, x)
  <2> SUFFICES ASSUME NEW t \in 1..x, NEW q \in 1..Len(hist[t]), q <= Len(d) PROVE d[q] = 0 \/ d[q] >= hist[t][q]
    BY DEF NotOlder
  <2>1. q \in 1..Len(hist[x]) /\ t \in 1..Newest /\ q \in Nat
    BY <1>1, <1>3, HistType
  <2>2. hist[t][q] \in Nat /\ hist[t][q] <= hist[x][q] /\ q <= Len(hist[t])
    <3>1. q <= Len(hist[t]) /\ hist[t][q] \in Nat
      BY <2>1, HistType
    <3> QED
      BY <1>1, <2>1, <3>1 DEF HistInv
  <2>3. CASE hist[x][q] >= a
    <3>1. q <= Len(d) /\ d[q] = hist[x][q]
      BY <2>1, <2>3
    <3> QED
      BY <1>1, <1>3, <2>1, <2>2, <3>1
  <2>4. CASE ~(hist[x][q] >= a)
    <3>1. hist[x][q] <= c
      BY <1>1, <2>1, <2>4
    <3>2. q \in 1..Len(hist[c]) /\ hist[c][q] = hist[x][q]
      BY <1>5, <2>1, <3>1
    <3>3. CASE q <= Len(d)
      <4>1. d[q] = 0 \/ d[q] >= hist[c][q]
        BY <3>2, <3>3 DEF NotOlder
      <4>2. d[q] \in Nat
        BY <1>3, <2>1, <3>3
      <4> QED
        BY <1>1, <1>3, <2>1, <2>2, <3>2, <3>3, <4>1, <4>2
    <3>4. CASE ~(q <= Len(d))
      BY <1>3, <2>1, <3>4
    <3> QED
      BY <3>3, <3>4
  <2> QED
    BY <2>3, <2>4
<1> QED
  BY <1>6, <1>7

\* A crash mixes the pages of two databases at state c.
LEMMA CrashMixes ==
    ASSUME TypeInv, HistInv, NEW S, NEW a \in Database, NEW b \in Database, NEW c \in 1..Newest, NEW m,
           AtState(a, c, m, S), NotOlder(a, c), AtState(b, c, m, S), NotOlder(b, c),
           NEW n, n = Len(a) \/ n = Len(b), NEW d \in [1..n -> 0..MaxTXID],
           \A p \in 1..n : \/ p <= Len(a) /\ d[p] = a[p]
                           \/ p <= Len(b) /\ d[p] = b[p]
                           \/ p > Len(b) /\ d[p] = 0
    PROVE  d \in Database /\ Len(d) = n /\ AtState(d, c, m, S) /\ NotOlder(d, c)
<1>1. Len(a) \in Nat /\ Len(b) \in Nat /\ a \in Seq(Nat) /\ b \in Seq(Nat) /\ n \in Nat /\ n <= MaxPage
  BY DEF Database
<1>2. d \in Seq(Nat) /\ Len(d) = n
  BY <1>1
<1>3. d \in Database
  BY <1>1, <1>2 DEF Database
<1>4. n # 0
  BY <1>1 DEF AtState, NoDB
<1>5. AtState(d, c, m, S)
  <2>1. ASSUME NEW p \in 1..Len(hist[c]), ~Dirty(c, p, m, S) PROVE p <= Len(d) /\ d[p] = hist[c][p]
    <3>1. p <= Len(a) /\ a[p] = hist[c][p] /\ p <= Len(b) /\ b[p] = hist[c][p]
      BY <2>1 DEF AtState
    <3>2. p \in Nat /\ p >= 1 /\ (n = Len(a) \/ n = Len(b))
      BY HistType
    <3>3. p \in 1..n
      BY <1>1, <3>1, <3>2
    <3>4. d[p] = a[p] \/ d[p] = b[p] \/ p > Len(b)
      BY <3>3
    <3>5. d[p] = hist[c][p]
      BY <1>1, <3>1, <3>2, <3>4
    <3> QED
      BY <1>1, <1>2, <3>3, <3>5
  <2>2. d # NoDB
    BY <1>2, <1>4 DEF NoDB
  <2> QED
    BY <2>1, <2>2 DEF AtState
<1>6. NotOlder(d, c)
  <2> SUFFICES ASSUME NEW t \in 1..c, NEW p \in 1..Len(hist[t]), p <= Len(d) PROVE d[p] = 0 \/ d[p] >= hist[t][p]
    BY DEF NotOlder
  <2>1. p \in 1..n
    BY <1>1, <1>2
  <2> QED
    BY <2>1 DEF NotOlder
<1> QED
  BY <1>2, <1>3, <1>5, <1>6

-----------------------------------------------------------------------------
(* What the steps have in common.                                          *)

LEMMA ReachedIs ==
    /\ pc = "down" => Reached = side
    /\ pc \in {"published", "idle"} => Reached = last
    /\ pc \in {"scan", "fill", "apply", "close"} => Reached = poll.cur
    /\ pc' = "down" => Reached' = side'
    /\ pc' \in {"published", "idle"} => Reached' = last'
    /\ pc' \in {"scan", "fill", "apply", "close"} => Reached' = poll'.cur
BY DEF Reached

LEMMA ReachedType ==
    ASSUME IInv
    PROVE  /\ Reached \in Nat /\ Reached <= high /\ high <= Newest /\ high \in Nat /\ Newest \in Nat
           /\ Reached > 0 => Reached \in 1..Newest /\ high \in Reached..Newest
<1>1. side \in Nat /\ last \in Nat /\ poll.cur \in Nat /\ pc \in {"down", "published", "idle", "scan", "fill", "apply", "close"}
  BY DEF IInv, TypeInv, PollType
<1>2. Reached \in Nat
  BY <1>1, ReachedIs
<1>3. Reached <= high /\ high <= Newest /\ high \in Nat /\ Newest \in Nat
  BY HistType DEF IInv, MarkInv, TypeInv
<1> QED
  BY <1>2, <1>3

\* The follower's steps leave the history alone.
LEMMA SameHist ==
    ASSUME hist' = hist
    PROVE  /\ Newest' = Newest /\ FileSet' = FileSet /\ PollType' = PollType /\ ApplyType' = ApplyType
           /\ HistInv => HistInv'
           /\ \A f : Pages(f)' = Pages(f)
           /\ \A d, c, m, S : AtState(d, c, m, S) => AtState(d, c, m, S)'
           /\ \A d, c : NotOlder(d, c) => NotOlder(d, c)'
<1>1. Newest' = Newest
  BY DEF Newest
<1>2. FileSet' = FileSet
  BY <1>1 DEF FileSet
<1> QED
  BY <1>1, <1>2 DEF PollType, ApplyType, HistInv, Pages, AtState, Dirty, NotOlder

LEMMA DataFrom ==
    ASSUME hist' = hist,
           Reached' > 0 => OnTrack(db', Reached', high', spoilt'),
           Reached' > 0 /\ pc' # "published" => OnTrack(disk', Reached', high', spoilt')
    PROVE  DataInv'
<1>1. PICK d, e, c, m, S : d = db' /\ e = disk' /\ c = Reached' /\ m = high' /\ S = spoilt'
  OBVIOUS
<1>2. c > 0 => AtState(d, c, m, S)' /\ NotOlder(d, c)' /\ (c = m => Len(d) = Len(hist'[c]))
  BY <1>1, SameHist DEF OnTrack
<1>3. c > 0 /\ pc' # "published" => AtState(e, c, m, S)' /\ NotOlder(e, c)' /\ (c = m => Len(e) = Len(hist'[c]))
  BY <1>1, SameHist DEF OnTrack
<1> QED
  BY <1>1, <1>2, <1>3 DEF DataInv, OnTrack

LEMMA DataGives ==
    ASSUME IInv
    PROVE  /\ Reached > 0 => OnTrack(db, Reached, high, spoilt)
           /\ Reached > 0 /\ pc # "published" => OnTrack(disk, Reached, high, spoilt)
BY DEF IInv, DataInv

\* A poll that fails: the follower goes back to the last recorded state.
LEMMA FailedPoll ==
    ASSUME IInv, pc \in {"scan", "fill", "apply", "close"}, NEW d, OnTrack(d, poll.cur, high, spoilt)
    PROVE  OnTrack(d, last, high, spoilt) /\ last \in 1..Newest
<1>1. Reached = poll.cur /\ last > 0 /\ last <= poll.cur /\ last \in Nat
  BY ReachedIs DEF IInv, MarkInv, TypeInv
<1>2. poll.cur \in 1..Newest /\ high \in poll.cur..Newest /\ last \in 1..poll.cur /\ high \in Nat /\ last \in 1..Newest
  BY <1>1, ReachedType
<1>3. AtState(d, last, high, spoilt)
  BY <1>2, GoBack DEF IInv, OnTrack
<1>4. NotOlder(d, last)
  BY <1>2 DEF OnTrack, NotOlder
<1>5. ASSUME last = high PROVE Len(d) = Len(hist[last])
  <2>1. poll.cur = last
    BY <1>2, <1>5
  <2> QED
    BY <1>5, <2>1 DEF OnTrack
<1> QED
  BY <1>2, <1>3, <1>4, <1>5 DEF OnTrack

\* The replica and the steps that do nothing: what is recorded of the
\* transactions stays.
LEMMA ReplicaKeeps ==
    ASSUME IInv, hist' \in Seq(Database), Newest <= Newest', \A k \in 1..Newest : hist'[k] = hist[k], HistInv',
           files' \subseteq FileSet', UNCHANGED <<output, pc, last, poll, app, high, spoilt>>
    PROVE  IInv'
<1>1. Newest \in Nat /\ Newest' \in Nat /\ Newest >= 1
  BY HistType DEF IInv, TypeInv, Newest
<1>2. FileSet \subseteq FileSet'
  BY <1>1 DEF FileSet
<1>3. PollType \subseteq PollType'
  BY <1>2 DEF PollType
<1>4. ApplyType \subseteq ApplyType'
  BY <1>2 DEF ApplyType
<1>5. UNCHANGED <<db, disk, side, pc, last, poll, app, high, spoilt>>
  BY DEF output
<1>6. \A f \in FileSet : Pages(f)' = Pages(f)
  BY DEF FileSet, Pages
<1>7. app.file \in FileSet /\ Pages(app.file)' = Pages(app.file) /\ hist'[app.file.max] = hist[app.file.max]
  <2>1. app.file \in FileSet
    BY DEF IInv, TypeInv, ApplyType
  <2>2. app.file.max \in 1..Newest
    BY <2>1 DEF FileSet
  <2> QED
    BY <1>5, <1>6, <2>1, <2>2
<1>8. TypeInv'
  <2>1. Newest' >= 1 /\ high' <= Newest'
    BY <1>1, <1>5 DEF IInv, TypeInv
  <2>2. poll' \in PollType' /\ app' \in ApplyType' /\ app'.todo \subseteq Pages(app.file)'
    BY <1>3, <1>4, <1>5, <1>7 DEF IInv, TypeInv
  <2> QED
    BY <1>5, <2>1, <2>2 DEF IInv, TypeInv
<1>9. PICK r : r = Reached
  OBVIOUS
<1>10. Reached' = r
  BY <1>5, <1>9 DEF Reached
<1>11. MarkInv'
  BY <1>5, <1>9, <1>10 DEF IInv, MarkInv
<1>12. ASSUME r > 0, NEW d, AtState(d, r, high, spoilt) /\ NotOlder(d, r)
       PROVE  AtState(d, r, high, spoilt)' /\ NotOlder(d, r)' /\ hist'[r] = hist[r]
  <2>1. PICK m : m = high
    OBVIOUS
  <2>2. r \in 1..Newest /\ m \in r..Newest /\ m' = m
    BY <1>5, <1>9, <1>12, <2>1, ReachedType
  <2>3. \A t \in (r + 1)..m : t \in 1..Newest
    BY <1>1, <2>2
  <2>4. \A p : Dirty(r, p, m, spoilt) => Dirty(r, p, m, spoilt)'
    BY <2>3 DEF Dirty
  <2>5. \A t \in 1..r : t \in 1..Newest
    BY <1>1, <2>2
  <2>6. AtState(d, r, m, spoilt)'
    BY <1>12, <2>1, <2>2, <2>4 DEF AtState
  <2>7. NotOlder(d, r)'
    BY <1>12, <2>5 DEF NotOlder
  <2> QED
    BY <1>5, <2>1, <2>2, <2>6, <2>7
<1>13. DataInv'
  <2>1. PICK d, e, m : d = db /\ e = disk /\ m = high
    OBVIOUS
  <2>2. db' = d /\ disk' = e /\ high' = m
    BY <1>5, <2>1
  <2>3. r > 0 => AtState(d, r, m, spoilt)' /\ NotOlder(d, r)' /\ (r = m => Len(d) = Len(hist'[r]))
    BY <1>5, <1>9, <1>12, <2>1 DEF IInv, DataInv, OnTrack
  <2>4. r > 0 /\ pc' # "published" => AtState(e, r, m, spoilt)' /\ NotOlder(e, r)' /\ (r = m => Len(e) = Len(hist'[r]))
    BY <1>5, <1>9, <1>12, <2>1 DEF IInv, DataInv, OnTrack
  <2> QED
    BY <1>10, <2>2, <2>3, <2>4 DEF DataInv, OnTrack
<1>14. ApplyInv'
  BY <1>5, <1>7 DEF IInv, ApplyInv
<1> QED
  BY <1>8, <1>11, <1>13, <1>14 DEF IInv

-----------------------------------------------------------------------------
(* The replica.                                                            *)

LEMMA CommitKeeps == ASSUME IInv, Commit PROVE IInv'
<1>1. /\ Newest \in Nat /\ Newest >= 1 /\ hist \in Seq(Database) /\ Newest \in 1..Newest
      /\ hist[Newest] \in Seq(Nat) /\ Len(hist[Newest]) \in Nat
  BY HistType DEF IInv, TypeInv
<1>2. PICK N \in Nat : N = Newest
  BY <1>1
<1>3. PICK old : old = hist[N]
  OBVIOUS
<1>4. PICK n \in 1..MaxPage :
         \E W \in SUBSET (1..n) :
            /\ n # Len(old) => (Len(old) + 1)..n \subseteq W
            /\ hist' = Append(hist, [p \in 1..n |-> IF p \in W THEN N + 1 ELSE old[p]])
  <2>1. PICK n \in 1..MaxPage : \E W \in SUBSET (1..n) \ {{}} :
           /\ n # Len(old) => {1} \cup ((Len(old) + 1)..n) \subseteq W
           /\ hist' = Append(hist, [p \in 1..n |-> IF p \in W THEN N + 1 ELSE old[p]])
    BY <1>2, <1>3 DEF Commit
  <2> QED
    BY <2>1
<1>4a. PICK W \in SUBSET (1..n) :
          /\ n # Len(old) => (Len(old) + 1)..n \subseteq W
          /\ hist' = Append(hist, [p \in 1..n |-> IF p \in W THEN N + 1 ELSE old[p]])
  BY <1>4
<1>5. PICK new : new = [p \in 1..n |-> IF p \in W THEN N + 1 ELSE old[p]]
  OBVIOUS
<1>6. n \in Nat /\ n >= 1 /\ n <= MaxPage /\ Len(old) \in Nat /\ old \in Seq(Nat)
  BY <1>1, <1>2, <1>3, FollowBounds
<1>7. ASSUME NEW p \in 1..n, p \notin W PROVE p \in 1..Len(old)
  BY <1>4a, <1>6, <1>7
<1>8. \A p \in 1..n : (IF p \in W THEN N + 1 ELSE old[p]) \in Nat
  BY <1>6, <1>7
<1>9. new \in [1..n -> Nat] /\ \A p \in 1..n : new[p] = IF p \in W THEN N + 1 ELSE old[p]
  BY <1>5, <1>8
<1>10. new \in Seq(Nat) /\ Len(new) = n
  BY <1>6, <1>9
<1>11. new \in Database
  BY <1>6, <1>10 DEF Database
<1>12. hist' = Append(hist, new)
  BY <1>4a, <1>5
<1>13. /\ hist' \in Seq(Database) /\ Newest' = N + 1 /\ hist'[N + 1] = new
       /\ \A k \in 1..N : hist'[k] = hist[k]
  BY <1>1, <1>2, <1>11, <1>12 DEF Newest
<1>14. HistInv'
  <2>1. ASSUME NEW p \in 1..n, NEW t \in 1..(N + 1)
        PROVE  /\ new[p] \in 1..(N + 1)
               /\ new[p] <= t => p <= Len(hist'[t]) /\ hist'[t][p] = new[p]
               /\ p <= Len(hist'[t]) => hist'[t][p] <= new[p]
    <3>1. CASE t = N + 1
      <4>1. new[p] \in 1..(N + 1)
        <5>1. CASE p \in W
          BY <1>9, <5>1
        <5>2. CASE p \notin W
          <6>1. old[p] \in 1..N
            BY <1>1, <1>2, <1>3, <1>7, <5>2 DEF IInv, HistInv
          <6> QED
            BY <1>9, <5>2, <6>1
        <5> QED
          BY <5>1, <5>2
      <4> QED
        BY <1>10, <1>13, <3>1, <4>1
    <3>2. CASE t # N + 1
      <4>1. t \in 1..N /\ hist'[t] = hist[t]
        BY <1>13, <3>2
      <4>2. CASE p \in W
        <5>1. new[p] = N + 1
          BY <1>9, <4>2
        <5>2. p <= Len(hist[t]) => hist[t][p] <= N
          <6> SUFFICES ASSUME p <= Len(hist[t]) PROVE hist[t][p] <= N
            OBVIOUS
          <6>1. p \in 1..Len(hist[t])
            BY <1>2, <1>6, <4>1, HistType DEF IInv
          <6>2. hist[t][p] \in 1..t
            BY <1>2, <4>1, <6>1 DEF IInv, HistInv
          <6> QED
            BY <4>1, <6>2
        <5>3. p <= Len(hist[t]) => hist[t][p] <= N + 1
          <6>1. p <= Len(hist[t]) => hist[t][p] \in Nat
            BY <1>2, <1>6, <4>1, HistType DEF IInv
          <6> QED
            BY <5>2, <6>1
        <5> QED
          BY <4>1, <5>1, <5>3
      <4>3. CASE p \notin W
        <5>1. p \in 1..Len(old) /\ new[p] = old[p]
          BY <1>7, <1>9, <4>3
        <5>2. old[p] \in 1..N
          BY <1>1, <1>2, <1>3, <5>1 DEF IInv, HistInv
        <5>3. /\ old[p] <= t => p <= Len(hist[t]) /\ hist[t][p] = old[p]
              /\ p <= Len(hist[t]) => hist[t][p] <= old[p]
          BY <1>1, <1>2, <1>3, <4>1, <5>1 DEF IInv, HistInv
        <5> QED
          BY <4>1, <5>1, <5>2, <5>3
      <4> QED
        BY <4>2, <4>3
    <3> QED
      BY <3>1, <3>2
  <2>2. ASSUME NEW u \in 1..N
        PROVE  /\ Len(hist'[u]) >= 1
               /\ \A p \in 1..Len(hist'[u]) :
                     /\ hist'[u][p] \in 1..u
                     /\ \A t \in 1..u : /\ hist'[u][p] <= t => p <= Len(hist'[t]) /\ hist'[t][p] = hist'[u][p]
                                        /\ p <= Len(hist'[t]) => hist'[t][p] <= hist'[u][p]
    <3>1. \A t \in 1..u : t \in 1..N
      BY <1>2
    <3>2. hist'[u] = hist[u] /\ \A t \in 1..u : hist'[t] = hist[t]
      BY <1>13, <3>1
    <3> QED
      BY <1>2, <3>2 DEF IInv, HistInv
  <2>3. \A u \in 1..(N + 1) : u \in 1..N \/ u = N + 1
    BY <1>2
  <2>4. ASSUME NEW u \in {N + 1}
        PROVE  /\ Len(hist'[u]) >= 1
               /\ \A p \in 1..Len(hist'[u]) :
                     /\ hist'[u][p] \in 1..u
                     /\ \A t \in 1..u : /\ hist'[u][p] <= t => p <= Len(hist'[t]) /\ hist'[t][p] = hist'[u][p]
                                        /\ p <= Len(hist'[t]) => hist'[t][p] <= hist'[u][p]
    <3>1. u = N + 1 /\ hist'[u] = new /\ 1 \in 1..(N + 1)
      BY <1>2, <1>13
    <3> QED
      BY <1>6, <1>10, <2>1, <3>1
  <2> QED
    BY <1>13, <2>2, <2>3, <2>4 DEF HistInv
<1>15. files' \subseteq FileSet'
  <2>1. files' = files \cup {[level |-> 0, min |-> N + 1, max |-> N + 1]}
    BY <1>2 DEF Commit
  <2>2. FileSet \subseteq FileSet'
    BY <1>2, <1>13 DEF FileSet
  <2>3. 0 \in 0..SnapshotLevel /\ N + 1 \in Nat \ {0} /\ N + 1 \in 1..Newest'
    BY <1>13, FollowBounds DEF SnapshotLevel
  <2>4. [level |-> 0, min |-> N + 1, max |-> N + 1] \in FileSet'
    BY <2>3 DEF FileSet
  <2> QED
    BY <2>1, <2>2, <2>4 DEF IInv, TypeInv
<1>16. UNCHANGED <<output, pc, last, poll, app, high, spoilt>>
  BY DEF Commit
<1>17. Newest <= Newest' /\ \A k \in 1..Newest : hist'[k] = hist[k]
  BY <1>2, <1>13
<1> QED
  BY <1>13, <1>14, <1>15, <1>16, <1>17, ReplicaKeeps

\* Compaction, snapshots and retention only move the files.
LEMMA FilesKeep ==
    ASSUME IInv, hist' = hist, files' \subseteq FileSet, UNCHANGED <<output, pc, last, poll, app, high, spoilt>>
    PROVE  IInv'
<1>1. Newest' = Newest /\ FileSet' = FileSet /\ HistInv' /\ hist' \in Seq(Database) /\ Newest <= Newest'
  BY SameHist, HistType DEF IInv, TypeInv
<1> QED
  BY <1>1, ReplicaKeeps

LEMMA CompactType == ASSUME IInv, NEW l \in 1..MaxLevel, Compact(l) PROVE files' \subseteq FileSet
<1>1. PICK src : src = {f \in AtLevel(l - 1) : f.min > MaxAt(l)}
  OBVIOUS
<1>2. src # {} /\ files' = files \cup {[level |-> l, min |-> Min({f.min : f \in src}), max |-> Max({f.max : f \in src})]}
  BY <1>1 DEF Compact
<1>3. files \subseteq FileSet /\ Newest \in Nat
  BY HistType DEF IInv, TypeInv
<1>4. \A f \in src : f.min \in Nat \ {0} /\ f.max \in 1..Newest
  BY <1>1, <1>3 DEF AtLevel, FileSet
<1>5. {f.min : f \in src} \in SUBSET Nat /\ {f.min : f \in src} # {} /\ 0 \notin {f.min : f \in src}
  BY <1>2, <1>4
<1>6. Min({f.min : f \in src}) \in Nat \ {0}
  <2>1. Min({f.min : f \in src}) \in {f.min : f \in src}
    BY <1>5, MinIsIn
  <2> QED
    BY <1>4, <2>1
<1>7. Max({f.max : f \in src}) \in 1..Newest
  <2>1. PICK S : S = {f.max : f \in src}
    OBVIOUS
  <2>2. S \in SUBSET Nat /\ S # {} /\ (\A y \in S : y <= Newest) /\ S \subseteq 1..Newest
    BY <1>2, <1>3, <1>4, <2>1
  <2>3. Max(S) \in S
    BY <1>3, <2>2, MaxIsIn
  <2> QED
    BY <2>1, <2>2, <2>3
<1>8. l \in 0..SnapshotLevel /\ l # 0
  BY FollowBounds DEF SnapshotLevel
<1>9. [level |-> l, min |-> Min({f.min : f \in src}), max |-> Max({f.max : f \in src})] \in FileSet
  BY <1>6, <1>7, <1>8 DEF FileSet
<1> QED
  BY <1>2, <1>3, <1>9

LEMMA ReplicaStep == ASSUME IInv, Replica PROVE IInv'
<1>1. files \subseteq FileSet /\ Newest \in Nat /\ Newest >= 1
  BY HistType DEF IInv, TypeInv
<1>2. CASE Commit
  BY <1>2, CommitKeeps
<1>3. ASSUME NEW l \in 1..MaxLevel, Compact(l) PROVE IInv'
  <2>1. hist' = hist /\ UNCHANGED <<output, pc, last, poll, app, high, spoilt>>
    BY <1>3 DEF Compact
  <2> QED
    BY <1>3, <2>1, CompactType, FilesKeep
<1>4. CASE EnforceL0Retention
  BY <1>1, <1>4, FilesKeep DEF EnforceL0Retention
<1>5. CASE EnforceSnapshotRetention
  BY <1>1, <1>5, FilesKeep DEF EnforceSnapshotRetention
<1>6. CASE Snapshot
  <2>1. SnapshotLevel \in 0..SnapshotLevel /\ SnapshotLevel # 0 /\ 1 \in Nat \ {0} /\ Newest \in 1..Newest
    BY <1>1, FollowBounds DEF SnapshotLevel
  <2>2. [level |-> SnapshotLevel, min |-> 1, max |-> Newest] \in FileSet
    BY <2>1 DEF FileSet
  <2> QED
    BY <1>1, <1>6, <2>2, FilesKeep DEF Snapshot
<1> QED
  BY <1>2, <1>3, <1>4, <1>5, <1>6 DEF Replica

-----------------------------------------------------------------------------
(* The follower.                                                           *)

LEMMA FirstIs ==
    ASSUME NEW S \in SUBSET FileSet, S # {}, Newest \in Nat
    PROVE  First(S) \in S /\ \A g \in S : First(S).min <= g.min
<1>1. \A f \in S : f.min \in Nat /\ f.max \in Nat
  BY DEF FileSet
<1>2. {f.min : f \in S} \in SUBSET Nat /\ {f.min : f \in S} # {}
  BY <1>1
<1>3. PICK a \in {f.min : f \in S} : \A y \in {f.min : f \in S} : a <= y
  BY <1>2, NatHasLeast
<1>4. PICK T : T = {f \in S : f.min = a}
  OBVIOUS
<1>5. {f.max : f \in T} \in SUBSET Nat /\ {f.max : f \in T} # {}
  BY <1>1, <1>3, <1>4
<1>6. PICK b \in {f.max : f \in T} : \A y \in {f.max : f \in T} : b <= y
  BY <1>5, NatHasLeast
<1>7. PICK f \in S : f.min = a /\ f.max = b
  BY <1>4, <1>6
<1>8. \A g \in S : f.min < g.min \/ (f.min = g.min /\ f.max <= g.max)
  BY <1>1, <1>3, <1>4, <1>6, <1>7
<1>9. First(S) \in S /\ \A g \in S : First(S).min < g.min \/ (First(S).min = g.min /\ First(S).max <= g.max)
  BY <1>8, Zenon DEF First
<1> QED
  BY <1>1, <1>9

LEMMA NoApplyType == ASSUME TypeInv PROVE NoApply \in ApplyType /\ NoApply.todo \subseteq Pages(NoApply.file)
<1>1. 0 \in 0..SnapshotLevel /\ 1 \in Nat \ {0} /\ 1 \in 1..Newest
  BY HistType, FollowBounds DEF TypeInv, SnapshotLevel
<1>2. [level |-> 0, min |-> 1, max |-> 1] \in FileSet
  BY <1>1 DEF FileSet
<1> QED
  BY <1>2 DEF NoApply, ApplyType

LEMMA NoPollType == NoPoll \in PollType
BY DEF NoPoll, PollType

LEMMA InitHolds == ASSUME Init PROVE IInv
<1>1. MaxPage \in Nat \ {0} /\ MaxLevel \in Nat \ {0}
  BY FollowBounds
<1>2. PICK one : one = [p \in 1..MaxPage |-> 1]
  OBVIOUS
<1>3. one \in Seq(Nat) /\ Len(one) = MaxPage /\ \A p \in 1..MaxPage : one[p] = 1
  <2>1. one \in [1..MaxPage -> Nat]
    BY <1>2
  <2> QED
    BY <1>1, <1>2, <2>1
<1>4. hist = <<one>> /\ one \in Database
  BY <1>1, <1>2, <1>3 DEF Init, Database
<1>5. hist \in Seq(Database) /\ Newest = 1 /\ hist[1] = one
  BY <1>4 DEF Newest
<1>6. NoDB \in Database
  BY <1>1 DEF NoDB, Database
<1>7. files \subseteq FileSet
  <2>1. 0 \in 0..SnapshotLevel /\ 1 \in Nat \ {0} /\ 1 \in 1..Newest
    BY <1>1, <1>5 DEF SnapshotLevel
  <2>2. [level |-> 0, min |-> 1, max |-> 1] \in FileSet
    BY <2>1 DEF FileSet
  <2> QED
    BY <2>2 DEF Init
<1>8. NoApply \in ApplyType /\ NoApply.todo \subseteq Pages(NoApply.file)
  <2>1. [level |-> 0, min |-> 1, max |-> 1] \in FileSet
    BY <1>7 DEF Init
  <2> QED
    BY <2>1 DEF NoApply, ApplyType
<1>9. TypeInv
  BY <1>5, <1>6, <1>7, <1>8, NoPollType DEF TypeInv, Init
<1>10. HistInv
  BY <1>1, <1>3, <1>5 DEF HistInv
<1>11. Reached = 0
  BY ReachedIs DEF Init
<1>12. MarkInv /\ DataInv /\ ApplyInv
  BY <1>11 DEF MarkInv, DataInv, ApplyInv, Init
<1> QED
  BY <1>9, <1>10, <1>12 DEF IInv

LEMMA TypeFrom ==
    ASSUME IInv, hist' = hist, files' = files, db' \in Database, disk' \in Database, side' \in Nat, last' \in Nat,
           pc' \in {"down", "published", "idle", "scan", "fill", "apply", "close"}, high' \in Nat, high' <= Newest,
           poll' \in PollType, NEW a, a = app', a \in ApplyType, a.todo \subseteq Pages(a.file)
    PROVE  TypeInv' /\ HistInv'
<1>1. /\ Newest' = Newest /\ FileSet' = FileSet /\ PollType' = PollType /\ ApplyType' = ApplyType /\ HistInv'
      /\ Pages(a.file)' = Pages(a.file)
  BY SameHist DEF IInv
<1> QED
  BY <1>1 DEF IInv, TypeInv

LEMMA RestoreStep == ASSUME IInv, Restore PROVE IInv'
<1>1. /\ pc = "down" /\ db = NoDB /\ pc' = "published" /\ side' = side /\ disk' = disk
      /\ hist' = hist /\ files' = files /\ poll' = poll /\ app' = app /\ spoilt' = spoilt
  BY DEF Restore, replica
<1>2. side = 0 /\ disk = NoDB
  BY <1>1 DEF IInv, MarkInv
<1>3. PICK r : r = last'
  OBVIOUS
<1>4. r = Max(Restorable) /\ Restorable # {} /\ db' = hist[r]
  BY <1>3 DEF Restore
<1>5. Newest \in Nat /\ high \in Nat /\ high <= Newest
  BY HistType DEF IInv, TypeInv
<1>6. r \in 1..Newest /\ r \in Nat /\ r > 0
  <2>1. Restorable \in SUBSET Nat /\ (\A y \in Restorable : y <= Newest) /\ Restorable \subseteq 1..Newest
    BY <1>5 DEF Restorable
  <2>2. r \in Restorable
    BY <1>4, <1>5, <2>1, MaxIsIn
  <2> QED
    BY <2>1, <2>2
<1>7. PICK m : m = high'
  OBVIOUS
<1>8. m \in r..Newest /\ m \in Nat
  <2>1. m = IF high <= r THEN r ELSE high
    BY <1>3, <1>5, <1>6, <1>7, MaxOfTwo DEF Restore
  <2> QED
    BY <1>5, <1>6, <2>1
<1>9. OnTrack(hist[r], r, m, spoilt) /\ hist[r] # NoDB
  BY <1>6, Committed DEF IInv, OnTrack
<1>10. hist[r] \in Database
  BY <1>6 DEF IInv, TypeInv, Newest
<1>11. TypeInv' /\ HistInv'
  <2>1. /\ disk' \in Database /\ poll' \in PollType /\ app \in ApplyType /\ app.todo \subseteq Pages(app.file)
        /\ side' \in Nat
    BY <1>1 DEF IInv, TypeInv
  <2> QED
    BY <1>1, <1>3, <1>4, <1>5, <1>6, <1>7, <1>8, <1>10, <2>1, TypeFrom
<1>12. Reached' = r
  BY <1>1, <1>3, ReachedIs
<1>13. MarkInv'
  BY <1>1, <1>2, <1>3, <1>4, <1>6, <1>7, <1>8, <1>9, <1>12 DEF MarkInv, NoDB
<1>14. DataInv'
  <2>1. Reached' > 0 => OnTrack(db', Reached', high', spoilt')
    BY <1>1, <1>4, <1>7, <1>9, <1>12 DEF OnTrack
  <2> QED
    BY <1>1, <2>1, DataFrom
<1> QED
  BY <1>1, <1>11, <1>13, <1>14 DEF IInv, ApplyInv

LEMMA WriteFirstStep == ASSUME IInv, WriteFirstTXID PROVE IInv'
<1>1. /\ pc = "published" /\ pc' = "idle" /\ side' = last /\ disk' = db /\ db' = db /\ last' = last
      /\ hist' = hist /\ files' = files /\ poll' = poll /\ app' = app /\ high' = high /\ spoilt' = spoilt
  BY DEF WriteFirstTXID, replica
<1>2. Reached = last /\ Reached' = last /\ last \in Nat /\ last > 0 /\ last <= high /\ db # NoDB
  BY <1>1, ReachedIs DEF IInv, MarkInv, TypeInv
<1>3. OnTrack(db, last, high, spoilt)
  BY <1>1, <1>2, DataGives DEF OnTrack
<1>4. TypeInv' /\ HistInv'
  <2>1. /\ db' \in Database /\ disk' \in Database /\ poll' \in PollType /\ high' \in Nat /\ high' <= Newest
        /\ app \in ApplyType /\ app.todo \subseteq Pages(app.file)
    BY <1>1 DEF IInv, TypeInv
  <2> QED
    BY <1>1, <1>2, <2>1, TypeFrom
<1>5. MarkInv'
  BY <1>1, <1>2 DEF MarkInv
<1>6. DataInv'
  <2>1. OnTrack(db', Reached', high', spoilt') /\ OnTrack(disk', Reached', high', spoilt')
    BY <1>1, <1>2, <1>3 DEF OnTrack
  <2> QED
    BY <1>1, <2>1, DataFrom
<1> QED
  BY <1>1, <1>4, <1>5, <1>6 DEF IInv, ApplyInv

\* The state reached stays, and so does the database: only what the follower
\* is doing changes.
LEMMA SameState ==
    ASSUME IInv, pc \in {"down", "idle", "scan", "fill"}, pc' \in {"idle", "scan", "fill"},
           hist' = hist, files' = files, UNCHANGED <<db, disk, app, high, spoilt>>,
           poll' \in PollType, last' \in Nat, side' \in Nat, Reached' = Reached, db # NoDB,
           side' <= last', last' > 0, last' <= Reached
    PROVE  IInv'
<1>1. TypeInv' /\ HistInv'
  <2>1. /\ db' \in Database /\ disk' \in Database /\ high' \in Nat /\ high' <= Newest
        /\ app \in ApplyType /\ app.todo \subseteq Pages(app.file) /\ app' = app
    BY DEF IInv, TypeInv
  <2> QED
    BY <2>1, TypeFrom
<1>2. MarkInv'
  BY ReachedType DEF IInv, MarkInv
<1>3. DataInv'
  <2>1. PICK d, e, c, m : d = db /\ e = disk /\ c = Reached /\ m = high
    OBVIOUS
  <2>2. c > 0 => OnTrack(d, c, m, spoilt) /\ OnTrack(e, c, m, spoilt)
    BY <2>1, DataGives DEF OnTrack
  <2>3. db' = d /\ disk' = e /\ Reached' = c /\ high' = m /\ spoilt' = spoilt
    BY <2>1
  <2>4. Reached' > 0 => OnTrack(db', Reached', high', spoilt') /\ OnTrack(disk', Reached', high', spoilt')
    BY <2>2, <2>3 DEF OnTrack
  <2> QED
    BY <2>4, DataFrom
<1> QED
  BY <1>1, <1>2, <1>3 DEF IInv, ApplyInv

LEMMA ResumeStep == ASSUME IInv, Resume PROVE IInv'
<1>1. /\ pc = "down" /\ pc' = "idle" /\ last' = side /\ side # 0 /\ db # NoDB
      /\ hist' = hist /\ files' = files /\ poll' = poll /\ UNCHANGED <<db, disk, side, app, high, spoilt>>
  BY DEF Resume, Refused, replica, output
<1>2. Reached = side /\ Reached' = side /\ side \in Nat /\ side > 0 /\ poll' \in PollType
  BY <1>1, ReachedIs DEF IInv, TypeInv
<1> QED
  BY <1>1, <1>2, SameState

LEMMA PollStartStep == ASSUME IInv, PollStart PROVE IInv'
<1>1. /\ pc = "idle" /\ pc' = "scan" /\ last' = last
      /\ poll' = [NoPoll EXCEPT !.cur = last, !.l0 = {f \in AtLevel(0) : f.min >= last + 1}]
      /\ hist' = hist /\ files' = files /\ UNCHANGED <<db, disk, side, app, high, spoilt>>
  BY DEF PollStart, replica, output
<1>2. last \in Nat /\ {f \in AtLevel(0) : f.min >= last + 1} \in SUBSET FileSet
  BY DEF IInv, TypeInv, AtLevel
<1>3. poll' \in PollType /\ poll'.cur = last
  BY <1>1, <1>2 DEF NoPoll, PollType
<1>4. /\ Reached = last /\ Reached' = last /\ db # NoDB /\ side \in Nat /\ side <= last /\ last > 0
  BY <1>1, <1>3, ReachedIs DEF IInv, MarkInv, TypeInv
<1> QED
  BY <1>1, <1>2, <1>3, <1>4, SameState

\* applyNewLTXFiles and fillFollowGap look for the next file.
LEMMA PollOnly ==
    ASSUME IInv, pc \in {"scan", "fill"}, pc' \in {"scan", "fill"}, poll' \in PollType, poll'.cur = poll.cur,
           UNCHANGED <<replica, output, last, app, high, spoilt>>
    PROVE  IInv'
<1>1. hist' = hist /\ files' = files /\ UNCHANGED <<db, disk, side, app, high, spoilt>> /\ last' = last
  BY DEF replica, output
<1>2. Reached = poll.cur /\ Reached' = poll.cur
  BY ReachedIs
<1>3. db # NoDB /\ side \in Nat /\ last \in Nat /\ side <= last /\ last > 0 /\ last <= Reached
  BY DEF IInv, MarkInv, TypeInv
<1> QED
  BY <1>1, <1>2, <1>3, SameState

LEMMA FillStartStep == ASSUME IInv, FillStart PROVE IInv'
<1>1. PICK g : g = IF Gap THEN First(Needed(poll.l0)).min ELSE poll.cur + 1
  OBVIOUS
<1>2. /\ pc = "scan" /\ pc' = "fill" /\ UNCHANGED <<replica, output, last, app, high, spoilt>>
      /\ poll' = [poll EXCEPT !.saw = TRUE, !.lvl = 1, !.up = AtLevel(1), !.from = poll.cur, !.gap = g]
  BY <1>1 DEF FillStart
<1>3. poll \in PollType /\ files \subseteq FileSet /\ Newest \in Nat
  BY HistType DEF IInv, TypeInv
<1>4. g \in Nat
  <2>1. CASE Gap
    <3>1. Needed(poll.l0) \in SUBSET FileSet /\ Needed(poll.l0) # {}
      BY <1>3, <2>1 DEF PollType, Needed, Gap
    <3>2. First(Needed(poll.l0)) \in Needed(poll.l0)
      BY <1>3, <3>1, FirstIs
    <3>3. First(Needed(poll.l0)).min \in Nat
      BY <3>1, <3>2 DEF FileSet
    <3> QED
      BY <1>1, <2>1, <3>3
  <2>2. CASE ~Gap
    BY <1>1, <1>3, <2>2 DEF PollType
  <2> QED
    BY <2>1, <2>2
<1>5. AtLevel(1) \in SUBSET FileSet
  BY <1>3 DEF AtLevel
<1>6. poll' \in PollType /\ poll'.cur = poll.cur
  BY <1>2, <1>3, <1>4, <1>5 DEF PollType
<1> QED
  BY <1>2, <1>6, PollOnly

LEMMA FillNextStep == ASSUME IInv, FillNext PROVE IInv'
<1>1. pc = "fill" /\ UNCHANGED <<replica, output, last, app, high, spoilt>>
  BY DEF FillNext
<1>2. poll \in PollType /\ AtLevel(poll.lvl + 1) \in SUBSET FileSet
  BY DEF IInv, TypeInv, AtLevel
<1>3. CASE poll' = [poll EXCEPT !.lvl = @ + 1, !.up = AtLevel(poll.lvl + 1)] /\ UNCHANGED pc
  <2>1. PICK l, U : l = poll.lvl + 1 /\ U = AtLevel(poll.lvl + 1)
    OBVIOUS
  <2>2. l \in Nat /\ U \in SUBSET FileSet /\ poll' = [poll EXCEPT !.lvl = l, !.up = U]
    BY <1>2, <1>3, <2>1 DEF PollType
  <2>3. poll' \in PollType /\ poll'.cur = poll.cur
    BY <1>2, <2>2 DEF PollType
  <2> QED
    BY <1>1, <1>3, <2>3, PollOnly
<1>4. CASE poll' = FillDone(poll) /\ pc' = "scan"
  <2>1. poll' \in PollType /\ poll'.cur = poll.cur
    BY <1>2, <1>4 DEF PollType, FillDone
  <2> QED
    BY <1>1, <1>4, <2>1, PollOnly
<1> QED
  BY <1>3, <1>4 DEF FillNext

LEMMA PollDoneStep == ASSUME IInv, PollDone PROVE IInv'
<1>1. /\ pc = "scan" /\ pc' = "idle" /\ poll' = NoPoll /\ last' = poll.cur
      /\ side' = (IF poll.cur > last THEN poll.cur ELSE side)
      /\ hist' = hist /\ files' = files /\ UNCHANGED <<db, disk, app, high, spoilt>>
  BY DEF PollDone, replica
<1>2. Reached = poll.cur /\ Reached' = poll.cur /\ poll.cur \in Nat
  BY <1>1, ReachedIs DEF IInv, TypeInv, PollType
<1>3. db # NoDB /\ side \in Nat /\ last \in Nat /\ side <= last /\ last > 0 /\ last <= poll.cur
  BY <1>1, <1>2 DEF IInv, MarkInv, TypeInv
<1>4. side' \in Nat /\ side' <= last' /\ last' > 0 /\ last' \in Nat
  BY <1>1, <1>2, <1>3
<1> QED
  BY <1>1, <1>2, <1>3, <1>4, NoPollType, SameState

\* A poll fails, perhaps after it has written to the database.
LEMMA BackToIdle ==
    ASSUME IInv, pc \in {"scan", "fill", "apply", "close"}, pc' = "idle", poll' = NoPoll,
           hist' = hist, files' = files, UNCHANGED <<disk, side, last, high, spoilt>>,
           db' \in Database, NEW d, d = db', OnTrack(d, poll.cur, high, spoilt),
           NEW a, a = app', a \in ApplyType, a.todo \subseteq Pages(a.file)
    PROVE  IInv'
<1>1. TypeInv' /\ HistInv'
  <2>1. disk' \in Database /\ side' \in Nat /\ last' \in Nat /\ high' \in Nat /\ high' <= Newest
    BY DEF IInv, TypeInv
  <2> QED
    BY <2>1, NoPollType, TypeFrom
<1>2. Reached' = last /\ Reached = poll.cur
  BY ReachedIs
<1>3. OnTrack(d, last, high, spoilt)
  BY FailedPoll
<1>4. OnTrack(disk, last, high, spoilt)
  <2>1. poll.cur > 0
    BY <1>2 DEF IInv, MarkInv, TypeInv, PollType
  <2>2. OnTrack(disk, poll.cur, high, spoilt)
    BY <1>2, <2>1, DataGives
  <2> QED
    BY <2>2, FailedPoll
<1>5. MarkInv'
  <2>1. side <= last /\ last \in Nat /\ last > 0 /\ last <= poll.cur /\ poll.cur <= high /\ high \in Nat /\ poll.cur \in Nat
    BY <1>2 DEF IInv, MarkInv, TypeInv, PollType
  <2>2. db' # NoDB
    BY <1>3 DEF OnTrack, AtState
  <2>3. last <= high
    BY <2>1
  <2> QED
    BY <1>2, <2>1, <2>2, <2>3 DEF MarkInv, NoDB
<1>6. DataInv'
  <2>1. OnTrack(db', Reached', high', spoilt') /\ OnTrack(disk', Reached', high', spoilt')
    BY <1>2, <1>3, <1>4 DEF OnTrack
  <2> QED
    BY <2>1, DataFrom
<1> QED
  BY <1>1, <1>5, <1>6 DEF IInv, ApplyInv

\* A file is opened that continues the state reached.
LEMMA OpenKeeps ==
    ASSUME IInv, pc \in {"scan", "fill"}, NEW f \in FileSet, f.min <= poll.cur + 1, poll.cur < f.max,
           NEW ret \in {"scan", "fill"}, NEW next \in PollType, next.cur = poll.cur, Open(f, ret, next)
    PROVE  IInv'
<1>1. hist' = hist /\ files' = files /\ UNCHANGED <<db, disk, side, last, spoilt>>
  BY DEF Open, replica, output
<1>2. /\ db \in Database /\ disk \in Database /\ side \in Nat /\ last \in Nat /\ high \in Nat /\ high <= Newest
      /\ app \in ApplyType /\ app.todo \subseteq Pages(app.file) /\ poll.cur \in Nat /\ Newest \in Nat
  BY HistType DEF IInv, TypeInv, PollType
<1>3. Reached = poll.cur /\ poll.cur > 0
  BY <1>2, ReachedIs DEF IInv, MarkInv
<1>4. CASE f \in files
  <2>1. /\ app' = [file |-> f, todo |-> Pages(f), bad |-> FALSE, ret |-> ret]
        /\ high' = Max({high, f.max}) /\ pc' = "apply" /\ poll' = next
    BY <1>4 DEF Open
  <2>2. f.max \in 1..Newest /\ f.min \in Nat
    BY DEF FileSet
  <2>3. PICK m : m = high'
    OBVIOUS
  <2>4. m \in Nat /\ high <= m /\ f.max <= m /\ m <= Newest
    <3>1. m = IF high <= f.max THEN f.max ELSE high
      BY <1>2, <2>1, <2>2, <2>3, MaxOfTwo
    <3> QED
      BY <1>2, <2>2, <3>1
  <2>5. Pages(f) \subseteq 1..MaxPage
    <3>1. Len(hist[f.max]) \in Nat /\ Len(hist[f.max]) <= MaxPage
      BY <2>2, HistType DEF IInv
    <3> QED
      BY <3>1, FollowBounds DEF Pages
  <2>6. PICK a : a = app'
    OBVIOUS
  <2>7. a \in ApplyType /\ a.file = f /\ a.todo = Pages(f) /\ a.bad = FALSE
    BY <2>1, <2>5, <2>6 DEF ApplyType
  <2>8. TypeInv' /\ HistInv'
    BY <1>1, <1>2, <2>1, <2>3, <2>4, <2>6, <2>7, TypeFrom
  <2>9. Reached' = poll.cur
    BY <2>1, ReachedIs
  <2>10. MarkInv'
    <3>1. poll.cur <= m
      BY <1>2, <2>2, <2>4
    <3> QED
      BY <1>1, <1>3, <2>1, <2>3, <2>9, <3>1 DEF IInv, MarkInv
  <2>11. DataInv'
    <3>1. OnTrack(db, poll.cur, high, spoilt) /\ OnTrack(disk, poll.cur, high, spoilt)
      BY <1>3, DataGives DEF OnTrack
    <3>2. OnTrack(db, poll.cur, m, spoilt) /\ OnTrack(disk, poll.cur, m, spoilt)
      <4>1. AtState(db, poll.cur, m, spoilt) /\ AtState(disk, poll.cur, m, spoilt)
        BY <1>2, <2>4, <3>1, GoHigher DEF OnTrack
      <4>2. poll.cur # m
        BY <1>2, <2>2, <2>4
      <4> QED
        BY <3>1, <4>1, <4>2 DEF OnTrack
    <3>3. OnTrack(db', Reached', high', spoilt') /\ OnTrack(disk', Reached', high', spoilt')
      BY <1>1, <2>1, <2>3, <2>9, <3>2 DEF OnTrack
    <3> QED
      BY <1>1, <3>3, DataFrom
  <2>12. ApplyInv'
    <3>1. Pages(f)' = Pages(f)
      BY <1>1, SameHist
    <3>2. app'.file = f /\ app'.todo = Pages(f) /\ app'.bad = FALSE /\ poll'.cur = poll.cur
      BY <2>1, <2>6, <2>7
    <3>3. pc' = "apply" /\ hist' = hist /\ high' = m /\ f.max <= m
      BY <1>1, <2>1, <2>3, <2>4
    <3> QED
      BY <3>1, <3>2, <3>3 DEF ApplyInv, Pages
  <2> QED
    BY <2>8, <2>10, <2>11, <2>12 DEF IInv
<1>5. CASE f \notin files
  <2>1. app' = app /\ high' = high /\ poll' = NoPoll /\ pc' = "idle"
    BY <1>5 DEF Open
  <2>2. OnTrack(db, poll.cur, high, spoilt)
    BY <1>3, DataGives
  <2> QED
    BY <1>1, <1>2, <2>1, <2>2, BackToIdle
<1> QED
  BY <1>4, <1>5

LEMMA ScanApplyStep == ASSUME IInv, ScanApply PROVE IInv'
<1>1. PICK S : S = Needed(poll.l0)
  OBVIOUS
<1>2. PICK f : f = First(S)
  OBVIOUS
<1>3. PICK next : next = [poll EXCEPT !.l0 = S \ {f}, !.saw = TRUE]
  OBVIOUS
<1>4. pc = "scan" /\ S # {} /\ ~Gap /\ Open(f, "scan", next)
  BY <1>1, <1>2, <1>3 DEF ScanApply, Needed
<1>5. poll \in PollType /\ Newest \in Nat /\ poll.cur \in Nat
  BY HistType DEF IInv, TypeInv, PollType
<1>6. S \in SUBSET FileSet /\ \A g \in S : g.max > poll.cur
  BY <1>1, <1>5 DEF PollType, Needed
<1>7. f \in S /\ \A g \in S : f.min <= g.min
  BY <1>2, <1>4, <1>5, <1>6, FirstIs
<1>8. PICK g \in S : ~(g.min > poll.cur + 1)
  BY <1>1, <1>4 DEF Gap
<1>9. f \in FileSet /\ f.min \in Nat /\ g.min \in Nat /\ f.max \in Nat
  BY <1>5, <1>6, <1>7, <1>8 DEF FileSet
<1>10. f.min <= poll.cur + 1 /\ poll.cur < f.max
  BY <1>5, <1>6, <1>7, <1>8, <1>9
<1>11. next \in PollType /\ next.cur = poll.cur
  BY <1>3, <1>5, <1>6 DEF PollType
<1> QED
  BY <1>4, <1>9, <1>10, <1>11, OpenKeeps

LEMMA FillApplyStep == ASSUME IInv, FillApply PROVE IInv'
<1>1. PICK S : S = Needed(poll.up)
  OBVIOUS
<1>2. PICK f : f = First(S)
  OBVIOUS
<1>3. PICK next : next = [poll EXCEPT !.up = S \ {f}]
  OBVIOUS
<1>4. pc = "fill" /\ S # {} /\ Fits(f) /\ Open(f, "fill", next)
  BY <1>1, <1>2, <1>3 DEF FillApply, Needed
<1>5. poll \in PollType /\ Newest \in Nat /\ poll.cur \in Nat
  BY HistType DEF IInv, TypeInv, PollType
<1>6. S \in SUBSET FileSet /\ \A g \in S : g.max > poll.cur
  BY <1>1, <1>5 DEF PollType, Needed
<1>7. f \in S
  BY <1>2, <1>4, <1>5, <1>6, FirstIs
<1>8. f \in FileSet /\ f.max \in Nat
  BY <1>6, <1>7 DEF FileSet
<1>9. f.min <= poll.cur + 1 /\ poll.cur < f.max
  BY <1>4, <1>5, <1>6, <1>7, <1>8 DEF Fits
<1>10. next \in PollType /\ next.cur = poll.cur
  BY <1>3, <1>5, <1>6 DEF PollType
<1> QED
  BY <1>4, <1>8, <1>9, <1>10, OpenKeeps

LEMMA PollFailsStep == ASSUME IInv, PollFails PROVE IInv'
<1>1. /\ pc \in {"scan", "fill", "apply", "close"} /\ pc' = "idle" /\ poll' = NoPoll /\ app' = NoApply
      /\ hist' = hist /\ files' = files /\ UNCHANGED <<db, disk, side, last, high, spoilt>>
  BY DEF PollFails, replica, output
<1>2. db' \in Database /\ NoApply \in ApplyType /\ NoApply.todo \subseteq Pages(NoApply.file)
  BY <1>1, NoApplyType DEF IInv, TypeInv
<1>3. OnTrack(db, poll.cur, high, spoilt)
  <2>1. Reached = poll.cur /\ poll.cur > 0
    BY <1>1, ReachedIs DEF IInv, MarkInv, TypeInv, PollType
  <2> QED
    BY <2>1, DataGives
<1> QED
  BY <1>1, <1>2, <1>3, BackToIdle

\* What holds while a file is applied.
LEMMA Applying ==
    ASSUME IInv, pc \in {"apply", "close"}
    PROVE  /\ Reached = poll.cur /\ poll.cur \in 1..Newest /\ high \in poll.cur..Newest
           /\ app.file \in FileSet /\ app.file.max \in (poll.cur + 1)..high /\ app.file.max \in 1..Newest
           /\ app.file.min \in Nat /\ app.file.min <= poll.cur + 1
           /\ app.todo \subseteq Pages(app.file)
           /\ OnTrack(db, poll.cur, high, spoilt) /\ OnTrack(disk, poll.cur, high, spoilt)
<1>1. Reached = poll.cur /\ poll.cur > 0
  BY ReachedIs DEF IInv, MarkInv, TypeInv, PollType
<1>2. poll.cur \in 1..Newest /\ high \in poll.cur..Newest /\ Newest \in Nat
  BY <1>1, ReachedType
<1>3. app.file \in FileSet /\ app.todo \subseteq Pages(app.file)
  BY DEF IInv, TypeInv, ApplyType
<1>4. app.file.max \in 1..Newest /\ app.file.min \in Nat
  BY <1>3 DEF FileSet
<1>5. app.file.min <= poll.cur + 1 /\ poll.cur < app.file.max /\ app.file.max <= high
  BY DEF IInv, ApplyInv
<1>6. OnTrack(db, poll.cur, high, spoilt) /\ OnTrack(disk, poll.cur, high, spoilt)
  BY <1>1, DataGives DEF OnTrack
<1>7. app.file.max \in (poll.cur + 1)..high
  BY <1>2, <1>4, <1>5
<1> QED
  BY <1>1, <1>2, <1>3, <1>4, <1>5, <1>6, <1>7

LEMMA WritePageStep == ASSUME IInv, WritePage PROVE IInv'
<1>1. /\ pc = "apply" /\ pc' = "apply" /\ app.todo # {} /\ hist' = hist /\ files' = files
      /\ UNCHANGED <<disk, side, last, poll, high>>
  BY DEF WritePage, replica
<1>2. PICK c, m, f, x : c = poll.cur /\ m = high /\ f = app.file /\ x = app.file.max
  OBVIOUS
<1>3. /\ Reached = c /\ c \in 1..Newest /\ m \in c..Newest /\ f \in FileSet /\ x = f.max
      /\ x \in (c + 1)..m /\ x \in 1..Newest /\ f.min \in Nat /\ app.todo \subseteq Pages(f)
      /\ OnTrack(db, c, m, spoilt) /\ OnTrack(disk, c, m, spoilt) /\ Newest \in Nat
  BY <1>1, <1>2, Applying, HistType DEF IInv
<1>4. PICK p, n : p = Min(app.todo) /\ n = Max({p, Len(db)})
  OBVIOUS
<1>5. Pages(f) \subseteq 1..Len(hist[x]) /\ Len(hist[x]) \in Nat /\ Len(hist[x]) <= MaxPage
  BY <1>3, HistType DEF Pages, IInv
<1>6. p \in app.todo /\ p \in 1..Len(hist[x]) /\ hist[x][p] >= f.min /\ hist[x][p] \in Nat
  <2>1. app.todo \in SUBSET Nat
    BY <1>3, <1>5
  <2>2. p \in app.todo
    BY <1>1, <1>4, <2>1, MinIsIn
  <2>3. p \in 1..Len(hist[x]) /\ hist[x][p] >= f.min
    BY <1>3, <2>2 DEF Pages
  <2> QED
    BY <1>3, <2>2, <2>3, HistType DEF IInv
<1>7. PICK ok \in BOOLEAN :
         /\ db' = Put(db, p, IF ok THEN hist[app.file.max][p] ELSE 0, n)
         /\ app' = [app EXCEPT !.todo = @ \ {p}, !.bad = @ \/ ~ok]
         /\ spoilt' = IF ok \/ hist[app.file.max][p] > poll.cur THEN spoilt ELSE spoilt \cup {p}
  BY <1>4 DEF WritePage
<1>8. PICK v : v = IF ok THEN hist[x][p] ELSE 0
  OBVIOUS
<1>9. PICK S : S = spoilt'
  OBVIOUS
<1>9a. spoilt \subseteq S /\ (~ok => hist[x][p] > c \/ p \in S)
  BY <1>2, <1>7, <1>9
<1>10. PICK d, e : d = db /\ e = db'
  OBVIOUS
<1>11. /\ e = Put(d, p, v, n) /\ d \in Database /\ (v = hist[x][p] \/ (v = 0 /\ (hist[x][p] > c \/ p \in S)))
       /\ n \in Nat /\ (n = p \/ n = Len(d)) /\ p <= n /\ Len(d) <= n
  <2>1. e = Put(d, p, v, n) /\ (v = hist[x][p] \/ (v = 0 /\ (hist[x][p] > c \/ p \in S)))
    BY <1>2, <1>7, <1>8, <1>9a, <1>10
  <2>2. d \in Database /\ Len(d) \in Nat
    BY <1>10 DEF IInv, TypeInv, Database
  <2>3. n = (IF p <= Len(d) THEN Len(d) ELSE p)
    BY <1>4, <1>6, <1>10, <2>2, MaxOfTwo
  <2>4. n \in Nat /\ (n = p \/ n = Len(d)) /\ p <= n /\ Len(d) <= n
    BY <1>6, <2>2, <2>3
  <2> QED
    BY <2>1, <2>2, <2>4
<1>12. AtState(d, c, m, S) /\ NotOlder(d, c) /\ OnTrack(disk, c, m, S)
  <2>1. OnTrack(d, c, m, S) /\ OnTrack(disk, c, m, S)
    BY <1>3, <1>9a, <1>10, MoreSpoilt
  <2> QED
    BY <2>1 DEF OnTrack
<1>13. /\ e \in Database /\ AtState(e, c, m, S) /\ NotOlder(e, c) /\ p <= Len(e) /\ e[p] = v
       /\ \A q \in 1..Len(d) : q <= Len(e) /\ (q # p => e[q] = d[q])
  <2>1. n \in 0..MaxPage /\ p \in Nat /\ v \in Nat /\ p \in 1..n /\ Len(d) \in Nat
    <3>1. Len(d) \in Nat /\ Len(d) <= MaxPage
      BY <1>11 DEF Database
    <3> QED
      BY <1>5, <1>6, <1>8, <1>11, <3>1, FollowBounds
  <2>2. e \in Database /\ Len(e) = n
    BY <1>11, <2>1, PutIs
  <2>3. e[p] = v /\ \A q \in 1..n : q # p => e[q] = IF q <= Len(d) THEN d[q] ELSE 0
    BY <1>11, <2>1 DEF Put
  <2>4. AtState(e, c, m, S) /\ NotOlder(e, c)
    <3>1. e[p] = hist[x][p] \/ (e[p] = 0 /\ (hist[x][p] > c \/ p \in S))
      BY <1>11, <2>3
    <3>2. p <= Len(e) /\ Len(d) <= Len(e) /\ ElsewhereSame(d, e, p)
      BY <1>11, <2>2, <2>3 DEF ElsewhereSame
    <3>3. /\ TypeInv /\ HistInv /\ d \in Database /\ c \in 1..Newest /\ m \in c..Newest /\ x \in (c + 1)..m
          /\ p \in 1..Len(hist[x]) /\ AtState(d, c, m, S) /\ NotOlder(d, c)
      BY <1>3, <1>6, <1>11, <1>12 DEF IInv
    <3> QED
      BY <2>2, <3>1, <3>2, <3>3, PageWritten
  <2> QED
    BY <1>11, <2>1, <2>2, <2>3, <2>4
<1>14. PICK a, T, b : a = app' /\ T = app.todo \ {p} /\ b = (app.bad \/ ~ok)
  OBVIOUS
<1>15. a = [app EXCEPT !.todo = T, !.bad = b]
  BY <1>7, <1>14
<1>16. app \in ApplyType /\ T \subseteq app.todo /\ b \in BOOLEAN
  BY <1>14 DEF IInv, TypeInv, ApplyType
<1>17. a \in ApplyType /\ a.file = f /\ a.todo = T /\ a.bad = b
  BY <1>2, <1>15, <1>16 DEF ApplyType
<1>18. TypeInv' /\ HistInv'
  <2>1. a.todo \subseteq Pages(a.file)
    BY <1>3, <1>16, <1>17
  <2>2. /\ disk' \in Database /\ side' \in Nat /\ last' \in Nat /\ high' \in Nat /\ high' <= Newest
        /\ poll' \in PollType
    BY <1>1 DEF IInv, TypeInv
  <2> QED
    BY <1>1, <1>10, <1>13, <1>14, <1>17, <2>1, <2>2, TypeFrom
<1>19. Reached' = c
  BY <1>1, <1>2, ReachedIs
<1>20. MarkInv'
  BY <1>1, <1>3, <1>10, <1>13, <1>19 DEF IInv, MarkInv, AtState
<1>21. DataInv'
  <2>1. OnTrack(db', Reached', high', spoilt') /\ OnTrack(disk', Reached', high', spoilt')
    <3>1. c # m
      BY <1>3
    <3>2. OnTrack(e, c, m, S)
      BY <1>13, <3>1 DEF OnTrack
    <3> QED
      BY <1>1, <1>2, <1>9, <1>10, <1>12, <1>19, <3>2
  <2> QED
    BY <1>1, <2>1, DataFrom
<1>22. ApplyInv'
  <2>1. Pages(f)' = Pages(f)
    BY <1>1, SameHist
  <2>2. f.min <= c + 1 /\ c < x /\ x <= m
    BY <1>1, <1>2 DEF IInv, ApplyInv
  <2>4. ASSUME ~b, NEW q \in Pages(f) \ T PROVE q <= Len(e) /\ e[q] = hist[x][q]
    <3>1. CASE q = p
      BY <1>8, <1>13, <1>14, <2>4, <3>1
    <3>2. CASE q # p
      <4>1. q \in Pages(f) \ app.todo /\ ~app.bad
        BY <1>14, <2>4, <3>2
      <4>2. q <= Len(d) /\ d[q] = hist[x][q]
        BY <1>1, <1>2, <1>10, <4>1 DEF IInv, ApplyInv
      <4>3. q \in 1..Len(d)
        BY <1>5, <1>11, <4>1, <4>2 DEF Database
      <4> QED
        BY <1>13, <3>2, <4>2, <4>3
    <3> QED
      BY <3>1, <3>2
  <2>5. app'.file = f /\ app'.todo = T /\ app'.bad = b /\ poll'.cur = c /\ high' = m /\ hist' = hist /\ db' = e
    BY <1>1, <1>2, <1>10, <1>14, <1>17
  <2> QED
    BY <1>1, <1>3, <2>1, <2>2, <2>4, <2>5 DEF ApplyInv, Pages
<1> QED
  BY <1>18, <1>20, <1>21, <1>22 DEF IInv

LEMMA TruncateStep == ASSUME IInv, Truncate PROVE IInv'
<1>1. /\ pc = "apply" /\ pc' = "close" /\ app.todo = {} /\ hist' = hist /\ files' = files
      /\ UNCHANGED <<disk, side, last, poll, app, high, spoilt>> /\ db' = Put(db, 0, 0, Len(hist[app.file.max]))
  BY DEF Truncate, replica
<1>2. PICK c, m, f, x, d, e, S :
         /\ c = poll.cur /\ m = high /\ f = app.file /\ x = app.file.max
         /\ d = db /\ e = db' /\ S = spoilt
  OBVIOUS
<1>3. /\ Reached = c /\ c \in 1..Newest /\ m \in c..Newest /\ f \in FileSet /\ x = f.max
      /\ x \in (c + 1)..m /\ x \in 1..Newest /\ f.min \in Nat /\ f.min <= c + 1
      /\ OnTrack(d, c, m, S) /\ OnTrack(disk, c, m, S) /\ Newest \in Nat
  BY <1>1, <1>2, Applying, HistType DEF IInv
<1>4. /\ d \in Database /\ e = Put(d, 0, 0, Len(hist[x])) /\ AtState(d, c, m, S) /\ NotOlder(d, c)
      /\ Len(d) \in Nat
  BY <1>1, <1>2, <1>3 DEF IInv, TypeInv, OnTrack, Database
<1>5. /\ e \in Database /\ Len(e) = Len(hist[x]) /\ AtState(e, c, m, S) /\ NotOlder(e, c)
      /\ \A q \in 1..Len(hist[x]) : e[q] = IF q <= Len(d) THEN d[q] ELSE 0
  <2>1. PICK n \in 0..MaxPage : n = Len(hist[x])
    BY <1>3, HistType, FollowBounds DEF IInv
  <2>2. e \in Database /\ Len(e) = n
    BY <1>4, <2>1, PutIs
  <2>3. \A q \in 1..n : e[q] = IF q <= Len(d) THEN d[q] ELSE 0
    BY <1>4, <2>1 DEF Put
  <2>4. AtState(e, c, m, S) /\ NotOlder(e, c)
    <3>1. TypeInv /\ HistInv /\ ElsewhereSame(d, e, 0) /\ Len(e) = Len(hist[x])
      BY <2>1, <2>2, <2>3 DEF ElsewhereSame, IInv
    <3>2. d \in Database /\ c \in 1..Newest /\ m \in c..Newest /\ x \in (c + 1)..m /\ AtState(d, c, m, S) /\ NotOlder(d, c)
      BY <1>3, <1>4
    <3> QED
      BY <2>2, <3>1, <3>2, FileEnds
  <2> QED
    BY <2>1, <2>2, <2>3, <2>4
<1>6. TypeInv' /\ HistInv'
  <2>1. /\ disk' \in Database /\ side' \in Nat /\ last' \in Nat /\ high' \in Nat /\ high' <= Newest
        /\ poll' \in PollType /\ app \in ApplyType /\ app.todo \subseteq Pages(app.file)
    BY <1>1 DEF IInv, TypeInv
  <2> QED
    BY <1>1, <1>2, <1>5, <2>1, TypeFrom
<1>7. Reached' = c
  BY <1>1, <1>2, ReachedIs
<1>8. MarkInv'
  BY <1>1, <1>2, <1>3, <1>5, <1>7 DEF IInv, MarkInv, AtState
<1>9. DataInv'
  <2>1. c # m
    BY <1>3
  <2>2. OnTrack(e, c, m, S)
    BY <1>5, <2>1 DEF OnTrack
  <2>3. OnTrack(db', Reached', high', spoilt') /\ OnTrack(disk', Reached', high', spoilt')
    BY <1>1, <1>2, <1>3, <1>7, <2>2
  <2> QED
    BY <1>1, <2>3, DataFrom
<1>10. ApplyInv'
  <2>1. Pages(f)' = Pages(f)
    BY <1>1, SameHist
  <2>2. f.min <= c + 1 /\ c < x /\ x <= m
    BY <1>1, <1>2 DEF IInv, ApplyInv
  <2>3. ASSUME ~app.bad, NEW q \in Pages(f) \ app.todo PROVE q <= Len(e) /\ e[q] = hist[x][q]
    <3>1. q <= Len(d) /\ d[q] = hist[x][q]
      BY <1>1, <1>2, <2>3 DEF IInv, ApplyInv
    <3>2. q \in 1..Len(hist[x]) /\ Len(hist[x]) \in Nat
      BY <1>3, HistType DEF Pages, IInv
    <3> QED
      BY <1>5, <3>1, <3>2
  <2> QED
    BY <1>1, <1>2, <1>3, <1>5, <2>1, <2>2, <2>3 DEF ApplyInv, Pages
<1> QED
  BY <1>6, <1>8, <1>9, <1>10 DEF IInv

LEMMA FinishFileStep == ASSUME IInv, FinishFile PROVE IInv'
<1>1. /\ pc = "close" /\ app.todo = {} /\ Len(db) = Len(hist[app.file.max]) /\ app' = NoApply /\ hist' = hist /\ files' = files
      /\ UNCHANGED <<db, side, last, high, spoilt>>
  BY DEF FinishFile, replica, IInv, ApplyInv
<1>2. PICK c, m, f, x : c = poll.cur /\ m = high /\ f = app.file /\ x = app.file.max
  OBVIOUS
<1>3. /\ Reached = c /\ c \in 1..Newest /\ m \in c..Newest /\ f \in FileSet /\ x = f.max
      /\ x \in (c + 1)..m /\ x \in 1..Newest /\ f.min \in Nat /\ f.min <= c + 1
      /\ OnTrack(db, c, m, spoilt) /\ OnTrack(disk, c, m, spoilt) /\ Newest \in Nat
  BY <1>1, <1>2, Applying, HistType DEF IInv
<1>4. PICK d : d = db
  OBVIOUS
<1>5. d \in Database /\ Len(d) = Len(hist[x]) /\ AtState(d, c, m, spoilt) /\ NotOlder(d, c)
  BY <1>1, <1>2, <1>3, <1>4 DEF IInv, TypeInv, OnTrack
<1>7. NoApply \in ApplyType /\ NoApply.todo \subseteq Pages(NoApply.file)
  BY NoApplyType DEF IInv
<1>8. CASE ~Intact
  <2>1. disk' = disk /\ poll' = NoPoll /\ pc' = "idle"
    BY <1>8 DEF FinishFile
  <2> QED
    BY <1>1, <1>2, <1>3, <1>4, <1>5, <1>7, <2>1, BackToIdle
<1>9. CASE Intact
  <2>1. PICK next : next = [poll EXCEPT !.cur = x]
    OBVIOUS
  <2>2. disk' = d /\ ((poll' = next /\ pc' = "fill") \/ (poll' = FillDone(next) /\ pc' = "scan"))
    BY <1>2, <1>4, <1>9, <2>1 DEF FinishFile, Synced, After
  <2>3. /\ poll \in PollType /\ side' \in Nat /\ last' \in Nat /\ high' \in Nat /\ high' <= Newest
    BY <1>1 DEF IInv, TypeInv
  <2>4. next \in PollType /\ next.cur = x
    BY <1>3, <2>1, <2>3 DEF PollType
  <2>5. FillDone(next) \in PollType /\ FillDone(next).cur = x
    BY <2>4 DEF PollType, FillDone
  <2>6. poll' \in PollType /\ poll'.cur = x /\ pc' \in {"scan", "fill"}
    BY <2>2, <2>4, <2>5
  <2>7. TypeInv' /\ HistInv'
    BY <1>1, <1>4, <1>5, <1>7, <2>2, <2>3, <2>6, TypeFrom
  <2>8. Reached' = x
    BY <2>6, ReachedIs
  <2>9. AtState(d, x, m, spoilt) /\ NotOlder(d, x)
    <3>1. ASSUME NEW p \in 1..Len(hist[x]), hist[x][p] >= f.min PROVE p <= Len(d) /\ d[p] = hist[x][p]
      <4>1. p \in Pages(f) \ app.todo /\ ~app.bad
        BY <1>1, <1>3, <1>9, <3>1 DEF Pages, Intact
      <4> QED
        BY <1>1, <1>2, <1>4, <4>1 DEF IInv, ApplyInv
    <3> QED
      BY <1>3, <1>5, <3>1, FileDone DEF IInv
  <2>10. MarkInv'
    <3>1. side <= last /\ last > 0 /\ last <= c /\ side \in Nat /\ last \in Nat
      BY <1>1, <1>3 DEF IInv, MarkInv, TypeInv
    <3>2. side <= x /\ last <= x /\ x <= m
      BY <1>3, <3>1
    <3>3. d # NoDB
      BY <2>9 DEF AtState
    <3> QED
      BY <1>1, <1>2, <1>4, <2>6, <2>8, <3>1, <3>2, <3>3 DEF MarkInv
  <2>11. DataInv'
    <3>1. OnTrack(d, x, m, spoilt)
      BY <1>5, <2>9 DEF OnTrack
    <3>2. OnTrack(db', Reached', high', spoilt') /\ OnTrack(disk', Reached', high', spoilt')
      BY <1>1, <1>2, <1>4, <2>2, <2>6, <2>8, <3>1 DEF OnTrack
    <3> QED
      BY <1>1, <3>2, DataFrom
  <2> QED
    BY <2>6, <2>7, <2>10, <2>11 DEF IInv, ApplyInv
<1> QED
  BY <1>8, <1>9

\* What a crash leaves is a database, and one at the state of the -txid file
\* if there is one.
LEMMA AfterCrashType == ASSUME IInv, NEW d \in AfterCrash PROVE d \in Database
<1>1. db \in Database /\ disk \in Database
  BY DEF IInv, TypeInv
<1>2. CASE disk = NoDB
  BY <1>1, <1>2 DEF AfterCrash
<1>3. CASE disk # NoDB
  <2>1. PICK n \in {Len(db), Len(disk)} : d \in [1..n -> 0..MaxTXID]
    BY <1>3 DEF AfterCrash
  <2>2. n \in Nat /\ n <= MaxPage
    BY <1>1 DEF Database
  <2>3. \A p \in 1..n : d[p] \in Nat
    BY <2>1, FollowBounds
  <2>4. d \in Seq(Nat) /\ Len(d) = n
    BY <2>1, <2>2, <2>3
  <2> QED
    BY <2>2, <2>4 DEF Database
<1> QED
  BY <1>2, <1>3

LEMMA CrashStep == ASSUME IInv, Crash PROVE IInv'
<1>1. /\ pc # "down" /\ pc' = "down" /\ db' \in AfterCrash /\ disk' = db' /\ last' = 0
      /\ poll' = NoPoll /\ app' = NoApply /\ hist' = hist /\ files' = files /\ side' = side /\ high' = high /\ spoilt' = spoilt
  BY DEF Crash, replica
<1>2. PICK d : d = db'
  OBVIOUS
<1>3. d \in AfterCrash /\ d \in Database
  BY <1>1, <1>2, AfterCrashType
<1>4. TypeInv' /\ HistInv'
  <2>1. side' \in Nat /\ high' \in Nat /\ high' <= Newest
    BY <1>1 DEF IInv, TypeInv
  <2>2. NoApply \in ApplyType /\ NoApply.todo \subseteq Pages(NoApply.file)
    BY NoApplyType DEF IInv
  <2> QED
    BY <1>1, <1>2, <1>3, <2>1, <2>2, NoPollType, TypeFrom
<1>5. Reached' = side
  BY <1>1, ReachedIs
<1>6. side \in Nat /\ side <= Reached /\ Reached <= high /\ high \in Nat /\ Reached \in Nat
  BY ReachedType DEF IInv, TypeInv, MarkInv
<1>7. CASE side = 0
  <2>1. MarkInv' /\ DataInv'
    BY <1>1, <1>5, <1>6, <1>7 DEF MarkInv, DataInv
  <2> QED
    BY <1>1, <1>4, <2>1 DEF IInv, ApplyInv
<1>8. CASE side # 0
  <2>1. PICK c, r, m : c = side /\ r = Reached /\ m = high
    OBVIOUS
  <2>2. c \in Nat /\ c > 0 /\ r > 0 /\ c <= r
    BY <1>6, <1>8, <2>1
  <2>3. r \in 1..Newest /\ m \in r..Newest /\ Newest \in Nat
    BY <2>1, <2>2, ReachedType
  <2>4. c \in 1..r /\ c \in 1..Newest /\ m \in Nat /\ r \in Nat
    BY <2>2, <2>3
  <2>5. pc \notin {"down", "published"}
    BY <1>1, <1>8 DEF IInv, MarkInv
  <2>6. OnTrack(db, r, m, spoilt) /\ OnTrack(disk, r, m, spoilt)
    BY <2>1, <2>2, <2>5, DataGives
  <2>7. /\ AtState(db, c, m, spoilt) /\ NotOlder(db, c)
        /\ AtState(disk, c, m, spoilt) /\ NotOlder(disk, c)
    <3>1. AtState(db, r, m, spoilt) /\ AtState(disk, r, m, spoilt)
      BY <2>6 DEF OnTrack
    <3>2. AtState(db, c, m, spoilt) /\ AtState(disk, c, m, spoilt)
      BY <2>3, <2>4, <3>1, GoBack DEF IInv
    <3>3. NotOlder(db, c) /\ NotOlder(disk, c)
      BY <2>4, <2>6 DEF OnTrack, NotOlder
    <3> QED
      BY <3>2, <3>3
  <2>8. c = m => Len(db) = Len(hist[c]) /\ Len(disk) = Len(hist[c])
    <3>1. c = m => r = m
      BY <2>2, <2>3
    <3> QED
      BY <2>6, <3>1 DEF OnTrack
  <2>9. disk # NoDB
    BY <2>7 DEF AtState
  <2>10. PICK n \in {Len(db), Len(disk)} :
            /\ d \in [1..n -> 0..MaxTXID]
            /\ \A p \in 1..n : \/ p <= Len(db) /\ d[p] = db[p]
                               \/ p <= Len(disk) /\ d[p] = disk[p]
                               \/ p > Len(disk) /\ d[p] = 0
    BY <1>3, <2>9 DEF AfterCrash
  <2>11. PICK a, b : a = db /\ b = disk
    OBVIOUS
  <2>12. Len(d) = n /\ AtState(d, c, m, spoilt) /\ NotOlder(d, c)
    <3>1. /\ TypeInv /\ HistInv /\ a \in Database /\ b \in Database
          /\ AtState(a, c, m, spoilt) /\ NotOlder(a, c) /\ AtState(b, c, m, spoilt) /\ NotOlder(b, c)
          /\ (n = Len(a) \/ n = Len(b)) /\ c \in 1..Newest /\ d \in [1..n -> 0..MaxTXID]
      BY <2>4, <2>7, <2>10, <2>11 DEF IInv, TypeInv
    <3>2. \A p \in 1..n : \/ p <= Len(a) /\ d[p] = a[p]
                          \/ p <= Len(b) /\ d[p] = b[p]
                          \/ p > Len(b) /\ d[p] = 0
      BY <2>10, <2>11
    <3> QED
      BY <3>1, <3>2, CrashMixes
  <2>13. OnTrack(d, c, m, spoilt)
    BY <2>8, <2>10, <2>12 DEF OnTrack
  <2>14. MarkInv'
    <3>1. d # NoDB
      BY <2>12 DEF AtState
    <3> QED
      BY <1>1, <1>2, <1>5, <1>6, <3>1 DEF MarkInv, NoDB
  <2>15. DataInv'
    <3>1. OnTrack(db', Reached', high', spoilt') /\ OnTrack(disk', Reached', high', spoilt')
      BY <1>1, <1>2, <1>5, <2>1, <2>13 DEF OnTrack
    <3> QED
      BY <1>1, <3>1, DataFrom
  <2> QED
    BY <1>1, <1>4, <2>14, <2>15 DEF IInv, ApplyInv
<1> QED
  BY <1>7, <1>8

-----------------------------------------------------------------------------
(* The theorems.                                                           *)

LEMMA StepKeeps == ASSUME IInv, [Next]_vars PROVE IInv'
<1>1. ASSUME UNCHANGED vars PROVE IInv'
  <2>1. hist' = hist /\ files' = files /\ UNCHANGED <<output, pc, last, poll, app, high, spoilt>> /\ files \subseteq FileSet
    BY <1>1 DEF vars, output, IInv, TypeInv
  <2> QED
    BY <2>1, FilesKeep
<1>2. CASE ResumeRefused
  BY <1>1, <1>2 DEF ResumeRefused
<1> QED
  BY <1>1, <1>2, RestoreStep, WriteFirstStep, ResumeStep, PollStartStep, FillStartStep, ScanApplyStep, PollDoneStep,
     FillApplyStep, FillNextStep, WritePageStep, TruncateStep, FinishFileStep, ReplicaStep, PollFailsStep, CrashStep
     DEF Next, Follower

LEMMA IInvHolds == Spec => []IInv
<1>1. Init => IInv
  BY InitHolds
<1>2. IInv /\ [Next]_vars => IInv'
  BY StepKeeps
<1> QED
  BY <1>1, <1>2, PTL DEF Spec

\* Follower.applyLTXFile and the poll around it: a follower that has caught up
\* with everything it ever began to apply holds exactly the committed database,
\* whatever failed polls, corrupt files of any level and crashes left on the
\* way, but for the pages that spoilt names.
THEOREM CaughtUpIsExact == Spec => []ExactWhenCaughtUp
<1>1. IInv => ExactWhenCaughtUp
  <2> SUFFICES ASSUME IInv, db # NoDB, Reached > 0, Reached >= high
               PROVE  /\ Len(db) = Len(hist[Reached])
                      /\ \A p \in 1..Len(db) : db[p] = hist[Reached][p] \/ p \in spoilt
    BY DEF ExactWhenCaughtUp
  <2>1. PICK r : r = Reached
    OBVIOUS
  <2>2. r = high /\ r \in 1..Newest
    BY <2>1, ReachedType
  <2>3. OnTrack(db, r, r, spoilt)
    BY <2>1, <2>2, DataGives DEF OnTrack
  <2>4. Len(db) = Len(hist[r])
    BY <2>3 DEF OnTrack
  <2>5. \A p \in 1..Len(hist[r]) : db[p] = hist[r][p] \/ p \in spoilt
    <3>1. \A p : Dirty(r, p, r, spoilt) => p \in spoilt
      BY <2>2, HistType DEF Dirty, IInv
    <3> QED
      BY <2>3, <3>1 DEF OnTrack, AtState
  <2> QED
    BY <2>1, <2>4, <2>5
<1> QED
  BY <1>1, IInvHolds, PTL

\* WriteTXIDFile: what is on stable storage is never older than the state the
\* -txid file names, so that a follower that resumes from it misses nothing.
THEOREM RecordedIsDurable == Spec => []NeverOlderThanRecorded
<1>1. IInv => NeverOlderThanRecorded
  <2> SUFFICES ASSUME IInv, side > 0, NEW p \in 1..Len(hist[side]), p <= Len(disk)
               PROVE  disk[p] = 0 \/ disk[p] >= hist[side][p]
    BY DEF NeverOlderThanRecorded
  <2>1. PICK r : r = Reached
    OBVIOUS
  <2>2. r \in Nat /\ side \in Nat /\ side <= r
    BY <2>1, ReachedType DEF IInv, TypeInv, MarkInv
  <2>3. side \in 1..r
    BY <2>2
  <2>4. pc # "published"
    BY DEF IInv, MarkInv
  <2>5. NotOlder(disk, r)
    BY <2>1, <2>2, <2>4, DataGives DEF OnTrack
  <2> QED
    BY <2>3, <2>5 DEF NotOlder
<1> QED
  BY <1>1, IInvHolds, PTL

=============================================================================
