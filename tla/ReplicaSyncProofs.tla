------------------------- MODULE ReplicaSyncProofs -------------------------
(***************************************************************************)
(* The replica holds one unbroken chain of files, for any number of        *)
(* transactions, failed requests, restarts and lost local files: as long   *)
(* as the newest local file is not lost while Litestream runs and a        *)
(* missing file does not make it reset itself (auto-recover).              *)
(***************************************************************************)
EXTENDS ReplicaSync, WellFoundedInduction, TLAPS

TypeInv ==
    /\ DOMAIN local \subseteq TXIDs /\ DOMAIN remote \subseteq TXIDs
    /\ DOMAIN l1 \subseteq TXIDs /\ DOMAIN comp \subseteq TXIDs
    /\ pc \in {"down", "fetch", "up"}
    /\ cache \in Nat /\ l1pos \in Nat /\ rpos \in Nat /\ upto \in Nat
    /\ del \in [step : {"none", "remote", "local"}, files : SUBSET TXIDs]

\* Only an initialised database has an upload under way.
DownInv == pc # "up" => upto = 0

\* The local files reach as far as the replica while Litestream runs: DB.init
\* sees to it.
AheadInv ==
    /\ cache # 0 => cache = Highest(local)
    /\ pc = "up" => Highest(remote) <= Highest(local)
    /\ pc = "fetch" => local = NoFiles /\ Highest(remote) # 0

\* An upload is always of the TXID after the newest one at the replica.
NextInv == rpos # 0 \/ upto # 0 => rpos = Highest(remote)

\* The replica has every TXID up to its newest, in level 0 or in level 1, and
\* level 1 has every TXID up to its own newest.
CoverInv ==
    /\ 1..Highest(remote) = DOMAIN remote \cup DOMAIN l1
    /\ 1..Highest(l1) = DOMAIN l1
    /\ l1pos <= Highest(l1)

\* Wherever a file is, it is the one the replica holds for its TXID.
SameInv ==
    /\ \A t \in DOMAIN remote \cap DOMAIN l1 : remote[t] = l1[t]
    /\ \A t \in DOMAIN local \cap DOMAIN Stored : local[t] = Stored[t]
    /\ \A t \in DOMAIN comp : t \in DOMAIN Stored /\ comp[t] = Stored[t]

\* A file that continues its predecessor, among two sets of files.
Continues(f, g) ==
    \A t \in DOMAIN f : t - 1 \in DOMAIN g /\ ~f[t].snap => f[t].from = g[t - 1].to

ChainInv == Continues(Stored, Stored) /\ Continues(local, local) /\ Continues(local, Stored)

\* A compaction leaves no gap to level 1, and retention deletes what level 1
\* has, never the newest file.
BackInv ==
    /\ comp # NoFiles => Highest(l1) + 1 .. Highest(comp) \subseteq DOMAIN comp
    /\ del.files \subseteq DOMAIN l1
    /\ \A t \in del.files : t < Highest(remote)

IInv ==
    /\ TypeInv /\ DownInv /\ AheadInv /\ NextInv /\ CoverInv /\ SameInv /\ ChainInv /\ BackInv


-----------------------------------------------------------------------------
(* The operators.                                                          *)

LEMMA NatHasLeast ==
    ASSUME NEW T \in SUBSET Nat, T # {}
    PROVE  \E x \in T : \A y \in T : x <= y
<1>1. PICK x \in T : \A y \in T : ~(<<y, x>> \in OpToRel(<, Nat))
  BY WFMin, NatLessThanWellFounded, Zenon
<1>2. \A y \in T : ~(y < x)
  <2>1. \A y \in T : y \in Nat /\ x \in Nat
    OBVIOUS
  <2>2. ASSUME NEW y \in T, y < x PROVE <<y, x>> \in OpToRel(<, Nat)
    BY <2>1, <2>2 DEF OpToRel
  <2> QED
    BY <1>1, <2>2
<1> QED
  BY <1>2

\* Max, which is a CHOOSE, is the greatest element of a set that has a bound.
LEMMA MaxIsIn ==
    ASSUME NEW S \in SUBSET Nat, S # {}, NEW n \in Nat, \A y \in S : y <= n
    PROVE  /\ Max(S) \in S
           /\ \A y \in S : y <= Max(S)
<1> DEFINE T == {b \in Nat : \A y \in S : y <= b}
<1>1. PICK b \in T : \A x \in T : b <= x
  <2>1. n \in T
    OBVIOUS
  <2> HIDE DEF T
  <2> QED
    BY <2>1, NatHasLeast DEF T
<1>2. b \in S
  <2> SUFFICES ASSUME b \notin S PROVE FALSE
    OBVIOUS
  <2>1. b # 0
    <3>1. PICK y \in S : y \in Nat /\ y <= b
      OBVIOUS
    <3> QED
      BY <3>1
  <2>2. b - 1 \in T
    BY <2>1
  <2> QED
    BY <1>1, <2>2
<1>3. \E x \in S : \A y \in S : x >= y
  BY <1>2
<1>4. Max(S) \in S /\ \A y \in S : Max(S) >= y
  BY <1>3, Zenon DEF Max
<1> QED
  BY <1>4

\* The highest TXID of a set of files, and how to recognise it.
LEMMA HighestIs ==
    ASSUME NEW f, DOMAIN f \subseteq TXIDs
    PROVE  /\ Highest(f) \in DOMAIN f \cup {0} /\ Highest(f) \in 0..MaxTXID
           /\ \A t \in DOMAIN f : t \in Nat /\ 1 <= t /\ t <= Highest(f)
<1> DEFINE S == DOMAIN f \cup {0}
<1>1. S \in SUBSET Nat /\ S # {} /\ \A y \in S : y <= MaxTXID
  BY ReplicaBounds DEF TXIDs
<1>2. MaxTXID \in Nat
  BY ReplicaBounds
<1>3. Max(S) \in S /\ \A y \in S : y <= Max(S)
  <2> HIDE DEF S
  <2> QED
    BY <1>1, <1>2, MaxIsIn
<1> QED
  BY <1>1, <1>2, <1>3 DEF Highest, TXIDs

LEMMA HighestUnique ==
    ASSUME NEW f, DOMAIN f \subseteq TXIDs, NEW h \in DOMAIN f \cup {0}, \A t \in DOMAIN f : t <= h
    PROVE  Highest(f) = h
BY HighestIs, ReplicaBounds DEF TXIDs

LEMMA NoFilesIs == DOMAIN NoFiles = {} /\ Highest(NoFiles) = 0
<1>1. DOMAIN NoFiles = {}
  BY DEF NoFiles
<1> QED
  BY <1>1, HighestUnique

LEMMA WithIs ==
    ASSUME NEW f, NEW t, NEW x
    PROVE  /\ DOMAIN With(f, t, x) = DOMAIN f \cup {t} /\ With(f, t, x)[t] = x
           /\ \A u \in DOMAIN f : u # t => With(f, t, x)[u] = f[u]
BY DEF With

LEMMA WithoutIs ==
    ASSUME NEW f, NEW S
    PROVE  /\ DOMAIN Without(f, S) = DOMAIN f \ S
           /\ \A u \in DOMAIN f \ S : Without(f, S)[u] = f[u]
BY DEF Without, Restrict

LEMMA OverIs ==
    ASSUME NEW a, NEW b
    PROVE  /\ DOMAIN Over(a, b) = DOMAIN a \cup DOMAIN b
           /\ \A t \in DOMAIN a : Over(a, b)[t] = a[t]
           /\ \A t \in DOMAIN b \ DOMAIN a : Over(a, b)[t] = b[t]
BY DEF Over

LEMMA PosIs == ASSUME IInv PROVE Pos = Highest(local)
BY DEF IInv, AheadInv, Pos

\* The numbers are natural numbers.
LEMMA HighestAll ==
    ASSUME TypeInv
    PROVE  /\ Highest(local) \in Nat /\ Highest(remote) \in Nat /\ Highest(l1) \in Nat /\ Highest(comp) \in Nat
           /\ Highest(local) \in DOMAIN local \cup {0} /\ Highest(remote) \in DOMAIN remote \cup {0}
BY HighestIs, ReplicaBounds DEF TypeInv

LEMMA InitHolds == Init => IInv
<1> SUFFICES ASSUME Init PROVE IInv
  OBVIOUS
<1>1. DOMAIN Stored = {}
  BY NoFilesIs, OverIs DEF Init, Stored
<1> QED
  BY <1>1, NoFilesIs
  DEF Init, IInv, TypeInv, DownInv, AheadInv, NextInv, CoverInv, SameInv, ChainInv, Continues, BackInv, NoDelete

-----------------------------------------------------------------------------
(* Steps that leave the replica alone.                                     *)

\* The replica and the local files stay.
LEMMA FilesStay ==
    ASSUME IInv, UNCHANGED <<local, remote, l1>>
    PROVE  /\ UNCHANGED Stored /\ ChainInv'
           /\ Highest(local)' = Highest(local) /\ Highest(remote)' = Highest(remote) /\ Highest(l1)' = Highest(l1)
BY DEF IInv, ChainInv, Continues, Stored

LEMMA StutterKeeps ==
    ASSUME IInv, UNCHANGED <<local, cache, l1pos, remote, l1, pc, rpos, upto, comp, del>>
    PROVE  IInv'
BY FilesStay
DEF IInv, TypeInv, DownInv, AheadInv, NextInv, CoverInv, SameInv, BackInv

\* Local files go, the newest only before init and under no cached position.
LEMMA LocalShrinks ==
    ASSUME IInv, NEW S, local' = Without(local, S), Highest(local) \notin S \/ (pc = "down" /\ cache' = 0),
           cache' \in {cache, 0}, del' \in {del, NoDelete},
           l1pos' \in {l1pos, 0}, UNCHANGED <<remote, l1, comp, pc, rpos, upto>>
    PROVE  IInv'
<1>1. UNCHANGED Stored /\ Highest(remote)' = Highest(remote) /\ Highest(l1)' = Highest(l1) /\ Highest(comp)' = Highest(comp)
  BY DEF Stored
<1>2. DOMAIN local' = DOMAIN local \ S /\ \A t \in DOMAIN local' : local'[t] = local[t]
  BY DEF Without, Restrict
<1>3. TypeInv'
  BY <1>2 DEF IInv, TypeInv, NoDelete
<1>4. DownInv'
  BY DEF IInv, DownInv, NoDelete
<1>5. Highest(local) \notin S => Highest(local)' = Highest(local)
  <2> SUFFICES ASSUME Highest(local) \notin S PROVE Highest(local') = Highest(local)
    OBVIOUS
  <2>1. /\ DOMAIN local \subseteq TXIDs /\ DOMAIN local' \subseteq TXIDs
        /\ Highest(local) \in DOMAIN local \cup {0}
        /\ \A t \in DOMAIN local : t <= Highest(local)
    BY <1>2, HighestIs DEF IInv, TypeInv
  <2> QED
    BY <1>2, <2>1, HighestUnique
<1>6. AheadInv'
  <2>1. pc = "fetch" => local' = NoFiles
    BY NoFilesIs DEF IInv, AheadInv, Without, Restrict, NoFiles
  <2> QED
    BY <1>1, <1>5, <2>1 DEF IInv, AheadInv, DownInv, TypeInv
<1>7. NextInv' /\ CoverInv'
  BY <1>1, HighestAll DEF IInv, NextInv, CoverInv
<1>8. SameInv' /\ ChainInv'
  BY <1>1, <1>2 DEF IInv, SameInv, ChainInv, Continues
<1>9. BackInv'
  BY <1>1 DEF IInv, BackInv, NoDelete
<1> QED
  BY <1>3, <1>4, <1>6, <1>7, <1>8, <1>9 DEF IInv


LEMMA LoseLocalKeeps == ASSUME IInv, ~LoseNewest, NEW t \in TXIDs, LoseLocal(t) PROVE IInv'
<1>1. local' = Without(local, {t}) /\ UNCHANGED <<cache, l1pos, remote, l1, comp, del, pc, rpos, upto>>
  BY DEF LoseLocal, initVars, syncVars, backVars, replicaVars
<1>2. Highest(local) \notin {t} \/ (pc = "down" /\ cache' = 0)
  BY <1>1 DEF LoseLocal, NoPosition
<1> QED
  BY <1>1, <1>2, LocalShrinks

LEMMA RetentionLocalKeeps == ASSUME IInv, RetentionLocal PROVE IInv'
<1>1. CASE pc = "down"
  BY <1>1, LocalShrinks DEF RetentionLocal, initVars, syncVars, replicaVars
<1>2. CASE pc # "down"
  <2>1. Highest(local) \notin del.files
    <3>1. \A t \in del.files : t \in Nat /\ 1 <= t /\ t < Highest(remote)
      BY DEF IInv, BackInv, TypeInv, TXIDs
    <3>2. CASE pc = "up"
      BY <3>1, <3>2, HighestAll DEF IInv, AheadInv
    <3>3. CASE pc = "fetch"
      BY <3>1, <3>3, NoFilesIs DEF IInv, AheadInv
    <3> QED
      BY <1>2, <3>2, <3>3 DEF IInv, TypeInv
  <2> QED
    BY <2>1, LocalShrinks DEF RetentionLocal, initVars, syncVars, replicaVars
<1> QED
  BY <1>1, <1>2

LEMMA ResetCommandKeeps == ASSUME IInv, ~LoseNewest, ResetCommand PROVE IInv'
<1>1. local' = Without(local, DOMAIN local)
  BY DEF ResetCommand, Without, Restrict, NoFiles
<1> QED
  BY <1>1, LocalShrinks DEF ResetCommand, NoPosition, initVars, syncVars, backVars, replicaVars

LEMMA SyncNothingKeeps == ASSUME IInv, SyncNothing PROVE IInv'
<1>1. cache' = Highest(local) /\ pc = "up" /\ UNCHANGED <<local, l1pos, remote, l1, pc, rpos, upto, comp, del>>
  BY PosIs DEF SyncNothing, replicaVars, backVars, initVars
<1> QED
  BY <1>1, FilesStay, HighestAll
  DEF IInv, TypeInv, DownInv, AheadInv, NextInv, CoverInv, SameInv, BackInv

\* A new TXID is above all that the replica has.
LEMMA SyncKeeps == ASSUME IInv, NEW snap \in BOOLEAN, Sync(snap) PROVE IInv'
<1> DEFINE p == Highest(local)
<1>1. PICK file : /\ local' = With(local, p + 1, file)
                  /\ file.snap = snap /\ (~snap => p # 0 /\ file.from = local[p].to)
  BY PosIs DEF Sync
<1>2. /\ pc = "up" /\ cache' = p + 1 /\ p < MaxTXID /\ (p # 0 => p \in DOMAIN local)
      /\ UNCHANGED <<l1pos, remote, l1, pc, rpos, upto, comp, del>>
  BY PosIs DEF Sync, replicaVars, backVars, initVars
<1>3. p \in Nat /\ Highest(remote) \in Nat /\ Highest(remote) <= p
  BY <1>2, HighestAll DEF IInv, AheadInv
<1>4. /\ DOMAIN local' = DOMAIN local \cup {p + 1} /\ local'[p + 1] = file
      /\ \A t \in DOMAIN local : t \in Nat /\ t <= p /\ local'[t] = local[t]
  <2>1. \A t \in DOMAIN local : t \in Nat /\ t <= p
    BY HighestIs DEF IInv, TypeInv
  <2> HIDE DEF p
  <2> QED
    BY <1>1, <1>3, <2>1 DEF With
<1>5. TypeInv'
  BY <1>2, <1>3, <1>4, ReplicaBounds DEF IInv, TypeInv, TXIDs
<1>6. Highest(local') = p + 1
  <2> HIDE DEF p
  <2> QED
    BY <1>3, <1>4, <1>5, HighestUnique DEF TypeInv
<1>7. UNCHANGED Stored /\ Highest(remote)' = Highest(remote) /\ Highest(l1)' = Highest(l1) /\ Highest(comp)' = Highest(comp)
  BY <1>2 DEF Stored
<1>8. \A t \in DOMAIN Stored : t \in Nat /\ t <= p
  <2>1. DOMAIN Stored = 1..Highest(remote)
    BY OverIs DEF IInv, CoverInv, Stored
  <2> QED
    BY <1>3, <2>1
<1> HIDE DEF p
<1>9. AheadInv' /\ DownInv'
  BY <1>2, <1>3, <1>6, <1>7 DEF AheadInv, DownInv
<1>10. NextInv' /\ CoverInv' /\ BackInv'
  BY <1>2, <1>7 DEF IInv, NextInv, CoverInv, BackInv
<1>11. SameInv'
  BY <1>2, <1>3, <1>4, <1>7, <1>8 DEF IInv, SameInv
<1>12. ChainInv'
  <2>1. Continues(Stored, Stored)'
    BY <1>7 DEF IInv, ChainInv, Continues
  <2>2. ASSUME NEW t \in DOMAIN local', t - 1 \in DOMAIN local', ~local'[t].snap
        PROVE  local'[t].from = local'[t - 1].to
    <3>1. CASE t = p + 1
      BY <1>1, <1>2, <1>3, <1>4, <2>2, <3>1
    <3>2. CASE t # p + 1
      <4>1. t \in DOMAIN local /\ t - 1 \in DOMAIN local
        BY <1>3, <1>4, <2>2, <3>2
      <4> QED
        BY <1>4, <2>2, <4>1 DEF IInv, ChainInv, Continues
    <3> QED
      BY <3>1, <3>2
  <2>3. ASSUME NEW t \in DOMAIN local', t - 1 \in DOMAIN Stored, ~local'[t].snap
        PROVE  local'[t].from = Stored[t - 1].to
    <3>1. CASE t = p + 1
      BY <1>1, <1>2, <1>3, <1>4, <2>3, <3>1 DEF IInv, SameInv
    <3>2. CASE t # p + 1
      BY <1>4, <2>3, <3>2 DEF IInv, ChainInv, Continues
    <3> QED
      BY <3>1, <3>2
  <2> QED
    BY <1>7, <2>1, <2>2, <2>3 DEF ChainInv, Continues
<1> QED
  BY <1>5, <1>9, <1>10, <1>11, <1>12 DEF IInv

\* DB.init: either the local files reach as far as the replica, or the newest
\* file of the replica is fetched.
LEMMA InitDBKeeps == ASSUME IInv, InitDB PROVE IInv'
<1>1. CASE Highest(local) < Highest(remote)
  <2>1. /\ local' = NoFiles /\ cache' = 0 /\ pc' = "fetch" /\ pc = "down"
        /\ UNCHANGED <<l1pos, remote, l1, rpos, upto, comp, del>>
    BY <1>1, PosIs DEF InitDB, replicaVars, syncVars, backVars
  <2>2. UNCHANGED Stored /\ Highest(remote)' = Highest(remote) /\ Highest(l1)' = Highest(l1)
    BY <2>1 DEF Stored
  <2>3. Highest(remote) # 0
    BY <1>1, HighestAll DEF IInv
  <2> QED
    BY <2>1, <2>2, <2>3, NoFilesIs
    DEF IInv, TypeInv, DownInv, AheadInv, NextInv, CoverInv, SameInv, ChainInv, Continues, BackInv
<1>2. CASE ~(Highest(local) < Highest(remote))
  <2>1. /\ cache' = Highest(local) /\ pc' = "up" /\ pc = "down"
        /\ UNCHANGED <<local, l1pos, remote, l1, rpos, upto, comp, del>>
    BY <1>2, PosIs DEF InitDB, replicaVars, syncVars, backVars
  <2> QED
    BY <1>2, <2>1, FilesStay, HighestAll
    DEF IInv, TypeInv, DownInv, AheadInv, NextInv, CoverInv, SameInv, BackInv
<1> QED
  BY <1>1, <1>2

LEMMA FetchBaselineKeeps == ASSUME IInv, FetchBaseline PROVE IInv'
<1> DEFINE r == Highest(remote)
<1>1. pc = "fetch" /\ local = NoFiles /\ r # 0 /\ r \in DOMAIN remote /\ r \in TXIDs
  BY HighestAll DEF IInv, AheadInv, TypeInv, FetchBaseline
<1>2. cache' = 0 /\ UNCHANGED <<l1pos, remote, l1, rpos, upto, comp, del>>
  BY DEF FetchBaseline, replicaVars, syncVars, backVars
<1>3. CASE local' = With(local, r, remote[r]) /\ pc' = "up"
  <2>1. DOMAIN local' = {r} /\ local'[r] = remote[r]
    <3> HIDE DEF r
    <3> QED
      BY <1>1, <1>3, NoFilesIs DEF With
  <2>2. Highest(local') = r
    <3> HIDE DEF r
    <3>1. \A t \in DOMAIN local' : t <= r
      BY <1>1, <2>1, ReplicaBounds DEF TXIDs
    <3> QED
      BY <1>1, <2>1, <3>1, HighestUnique
  <2>3. UNCHANGED Stored /\ Highest(remote)' = r /\ Highest(l1)' = Highest(l1)
    BY <1>2 DEF Stored
  <2>4. r \in DOMAIN Stored /\ Stored[r] = remote[r]
    BY <1>1, OverIs DEF Stored
  <2>5. TypeInv'
    BY <1>1, <1>2, <1>3, <2>1 DEF IInv, TypeInv
  <2>6. AheadInv' /\ DownInv'
    BY <1>2, <1>3, <2>2, <2>3, HighestAll DEF IInv, AheadInv, DownInv
  <2>7. NextInv' /\ CoverInv' /\ BackInv'
    BY <1>2, <2>3 DEF IInv, NextInv, CoverInv, BackInv
  <2>8. SameInv'
    BY <1>2, <2>1, <2>3, <2>4 DEF IInv, SameInv
  <2>9. ChainInv'
    <3>1. Continues(Stored, Stored)' /\ Continues(local, Stored)'
      BY <2>1, <2>3, <2>4 DEF IInv, ChainInv, Continues
    <3>2. Continues(local, local)'
      BY <1>1, <2>1, ReplicaBounds DEF Continues, TXIDs
    <3> QED
      BY <3>1, <3>2 DEF ChainInv
  <2> QED
    BY <2>5, <2>6, <2>7, <2>8, <2>9 DEF IInv
<1>4. CASE pc' = "down" /\ UNCHANGED local
  BY <1>1, <1>2, <1>4, FilesStay
  DEF IInv, TypeInv, DownInv, AheadInv, NextInv, CoverInv, SameInv, BackInv
<1> QED
  BY <1>3, <1>4 DEF FetchBaseline

\* What DB.Close leaves in memory is still right when the database is opened
\* again: nobody has written to the replica in between.
LEMMA CloseKeeps == ASSUME IInv, Close PROVE IInv'
BY FilesStay, HighestAll
DEF Close, localVars, replicaVars, backVars, IInv, TypeInv, DownInv, AheadInv, NextInv, CoverInv, SameInv, BackInv

LEMMA CrashKeeps == ASSUME IInv, Crash PROVE IInv'
BY FilesStay, NoFilesIs, HighestAll
DEF Crash, replicaVars, IInv, TypeInv, DownInv, AheadInv, NextInv, CoverInv, SameInv, BackInv, NoDelete

LEMMA ReplicaSyncStartKeeps == ASSUME IInv, ReplicaSyncStart PROVE IInv'
<1>1. /\ pc = "up" /\ cache' = Highest(local) /\ upto' = Highest(local) /\ rpos' = Highest(remote)
      /\ UNCHANGED <<local, l1pos, remote, l1, pc, comp, del>>
  BY PosIs DEF ReplicaSyncStart, replicaVars, backVars, initVars, IInv, NextInv
<1> QED
  BY <1>1, FilesStay, HighestAll
  DEF IInv, TypeInv, DownInv, AheadInv, NextInv, CoverInv, SameInv, BackInv

\* The call ends, with an error or without.
LEMMA ReplicaSyncEnds ==
    ASSUME IInv, upto' = 0, rpos' \in {0, rpos}, pc = "up", UNCHANGED <<localVars, replicaVars, backVars, pc>>
    PROVE  IInv'
BY FilesStay
DEF localVars, replicaVars, backVars, IInv, TypeInv, DownInv, AheadInv, NextInv, CoverInv, SameInv, BackInv

LEMMA ReplicaSyncReturns ==
    ASSUME IInv, ~AutoRecover, ReplicaSyncNoPosition \/ UploadMissing \/ ReplicaSyncEnd
    PROVE  IInv'
<1>1. CASE ReplicaSyncNoPosition
  BY <1>1, ReplicaSyncEnds DEF ReplicaSyncNoPosition, initVars
<1>2. upto > 0 => pc = "up"
  BY DEF IInv, DownInv
<1>3. CASE UploadMissing
  BY <1>2, <1>3, ReplicaSyncEnds DEF UploadMissing, ReplicaSyncFails, initVars
<1>4. CASE ReplicaSyncEnd
  BY <1>2, <1>4, ReplicaSyncEnds DEF ReplicaSyncEnd, initVars
<1> QED
  BY <1>1, <1>3, <1>4

-----------------------------------------------------------------------------
(* Steps that change the replica.  None of them changes the file it holds  *)
(* for a TXID.                                                             *)

StoredKept == \A t \in DOMAIN Stored : t \in DOMAIN Stored' /\ Stored'[t] = Stored[t]

\* The TXID after the newest one is stored, and the call goes on or fails.
LEMMA RemoteGrows ==
    ASSUME IInv, NEW t, t = Highest(remote) + 1, t \in DOMAIN local, pc = "up",
           remote' = With(remote, t, local[t]),
           (rpos' = t /\ upto' = upto) \/ (rpos' = 0 /\ upto' = 0),
           UNCHANGED <<local, cache, l1pos, l1, comp, del, pc>>
    PROVE  IInv' /\ StoredKept
<1>1. /\ t \in TXIDs /\ t \in Nat /\ Highest(remote) \in Nat /\ Highest(local) \in Nat
      /\ t <= Highest(local)
  BY HighestAll, HighestIs DEF IInv, TypeInv
<1>2. /\ DOMAIN remote' = DOMAIN remote \cup {t} /\ remote'[t] = local[t]
      /\ \A u \in DOMAIN remote : u # t => remote'[u] = remote[u]
  BY DEF With
<1>3. DOMAIN Stored = 1..Highest(remote) /\ t \notin DOMAIN Stored
  <2>1. DOMAIN Stored = 1..Highest(remote)
    BY OverIs DEF IInv, CoverInv, Stored
  <2> QED
    BY <1>1, <2>1
<1>4. /\ DOMAIN Stored' = DOMAIN Stored \cup {t} /\ Stored'[t] = local[t]
      /\ \A u \in DOMAIN Stored : Stored'[u] = Stored[u]
  BY <1>2, <1>3 DEF Stored, Over
<1>5. Highest(remote') = t
  <2>1. \A u \in DOMAIN remote' : u <= t
    BY <1>1, <1>2, HighestIs DEF IInv, TypeInv
  <2> QED
    BY <1>1, <1>2, <2>1, HighestUnique DEF IInv, TypeInv
<1>6. TypeInv'
  BY <1>1, <1>2 DEF IInv, TypeInv
<1>7. DownInv' /\ AheadInv' /\ NextInv'
  BY <1>1, <1>5 DEF IInv, DownInv, AheadInv, NextInv, TypeInv
<1>8. CoverInv' /\ BackInv'
  <2>1. 1..t = (1..Highest(remote)) \cup {t}
    BY <1>1
  <2>2. BackInv'
    BY <1>1, <1>5 DEF IInv, BackInv, TypeInv, TXIDs
  <2> QED
    BY <1>2, <1>5, <2>1, <2>2 DEF IInv, CoverInv
<1>9. SameInv'
  <2>1. t \notin DOMAIN l1
    BY <1>3, OverIs DEF Stored
  <2> QED
    BY <1>2, <1>4, <2>1 DEF IInv, SameInv
<1>10. ChainInv'
  <2>1. \A u \in DOMAIN local : u \in Nat
    BY HighestIs DEF IInv, TypeInv
  <2>2. ASSUME NEW u \in DOMAIN local, u - 1 \in DOMAIN Stored', ~local[u].snap
        PROVE  local[u].from = Stored'[u - 1].to
    <3>1. CASE u - 1 = t
      BY <1>4, <2>2, <3>1 DEF IInv, ChainInv, Continues
    <3>2. CASE u - 1 # t
      BY <1>4, <2>2, <3>2 DEF IInv, ChainInv, Continues
    <3> QED
      BY <3>1, <3>2
  <2>3. ASSUME NEW u \in DOMAIN Stored', u - 1 \in DOMAIN Stored', ~Stored'[u].snap
        PROVE  Stored'[u].from = Stored'[u - 1].to
    <3>1. CASE u = t
      BY <1>4, <2>2, <2>3, <3>1
    <3>2. CASE u # t
      <4>1. u \in DOMAIN Stored /\ u - 1 \in DOMAIN Stored
        BY <1>1, <1>3, <1>4, <2>3, <3>2
      <4> QED
        BY <1>4, <2>3, <4>1 DEF IInv, ChainInv, Continues
    <3> QED
      BY <3>1, <3>2
  <2> QED
    BY <2>2, <2>3 DEF IInv, ChainInv, Continues
<1> QED
  BY <1>4, <1>6, <1>7, <1>8, <1>9, <1>10 DEF IInv, StoredKept

LEMMA UploadKeeps == ASSUME IInv, Upload PROVE IInv' /\ StoredKept
<1> DEFINE t == Highest(remote) + 1
<1>1. pc = "up" /\ t \in DOMAIN local /\ rpos + 1 = t
  BY DEF IInv, DownInv, NextInv, Upload
<1>2. UNCHANGED <<localVars, l1, backVars, pc>>
  BY DEF Upload, initVars
<1>3. CASE /\ remote' = With(remote, t, local[t])
           /\ (rpos' = t /\ upto' = upto) \/ (rpos' = 0 /\ upto' = 0)
  <2> HIDE DEF t
  <2> QED
    BY <1>1, <1>2, <1>3, RemoteGrows DEF t, localVars, backVars
<1>4. CASE remote' = remote /\ rpos' = 0 /\ upto' = 0
  <2>1. IInv'
    BY <1>1, <1>2, <1>4, ReplicaSyncEnds DEF replicaVars
  <2> QED
    BY <1>2, <1>4, <2>1 DEF StoredKept, Stored
<1> QED
  BY <1>1, <1>3, <1>4 DEF Upload, ReplicaSyncFails

\* Files go that level 1 has as well, and not the newest.
LEMMA RetentionRemoteKeeps == ASSUME IInv, RetentionRemote PROVE IInv' /\ StoredKept
<1>1. PICK S \in SUBSET del.files : DOMAIN remote' = DOMAIN remote \ S /\ \A t \in DOMAIN remote' : remote'[t] = remote[t]
  <2>1. CASE remote' = remote
    BY <2>1
  <2>2. ASSUME NEW S \in SUBSET del.files, remote' = Without(remote, S)
        PROVE  DOMAIN remote' = DOMAIN remote \ S /\ \A t \in DOMAIN remote' : remote'[t] = remote[t]
    BY <2>2 DEF Without, Restrict
  <2> QED
    BY <2>1, <2>2 DEF RetentionRemote
<1>2. /\ del' \in [step : {"none", "remote", "local"}, files : SUBSET TXIDs] /\ del'.files \subseteq del.files
      /\ UNCHANGED <<local, cache, l1pos, l1, rpos, upto, comp, pc>>
  BY DEF IInv, TypeInv, RetentionRemote, NoDelete, localVars, syncVars, initVars
<1>3. S \subseteq DOMAIN l1 /\ \A t \in S : t < Highest(remote)
  BY DEF IInv, BackInv
<1>4. DOMAIN Stored' = DOMAIN Stored /\ \A t \in DOMAIN Stored : Stored'[t] = Stored[t]
  BY <1>1, <1>2, <1>3 DEF IInv, SameInv, Stored, Over
<1>5. Highest(remote') = Highest(remote)
  <2>1. /\ DOMAIN remote \subseteq TXIDs /\ Highest(remote) \in DOMAIN remote \cup {0}
        /\ \A t \in DOMAIN remote : t <= Highest(remote)
    BY HighestIs DEF IInv, TypeInv
  <2>2. Highest(remote) \notin S
    BY <1>3, HighestAll DEF IInv
  <2> QED
    BY <1>1, <2>1, <2>2, HighestUnique
<1>6. TypeInv' /\ DownInv' /\ AheadInv' /\ NextInv'
  BY <1>1, <1>2, <1>5 DEF IInv, TypeInv, DownInv, AheadInv, NextInv
<1>7. CoverInv' /\ BackInv'
  BY <1>1, <1>2, <1>3, <1>5 DEF IInv, CoverInv, BackInv
<1>8. SameInv'
  BY <1>1, <1>2, <1>4 DEF IInv, SameInv
<1>9. ChainInv'
  BY <1>2, <1>4 DEF IInv, ChainInv, Continues
<1> QED
  BY <1>4, <1>6, <1>7, <1>8, <1>9 DEF IInv, StoredKept

LEMMA RetentionListKeeps == ASSUME IInv, RetentionList PROVE IInv'
<1>1. PICK old \in TXIDs : del' = [step |-> "remote", files |-> Expired(old)]
  BY DEF RetentionList
<1>2. UNCHANGED <<local, cache, l1pos, remote, l1, pc, rpos, upto, comp>>
  BY DEF RetentionList, localVars, replicaVars, syncVars, initVars
<1>3. \A t \in Expired(old) : t \in DOMAIN remote /\ t <= old /\ t <= Highest(l1)
  BY DEF Expired
<1>4. \A t \in DOMAIN remote : t \in Nat /\ 1 <= t /\ t <= Highest(remote)
  BY HighestIs DEF IInv, TypeInv
<1>5. ASSUME NEW t \in Expired(old) PROVE t \in DOMAIN l1 /\ t < Highest(remote)
  <2>1. t \in DOMAIN l1
    BY <1>3, <1>4, HighestAll DEF IInv, CoverInv
  <2>2. t # Highest(remote)
    <3>1. CASE {u \in DOMAIN remote : u <= old} = DOMAIN remote
      BY <3>1 DEF Expired
    <3>2. CASE {u \in DOMAIN remote : u <= old} # DOMAIN remote
      <4>1. PICK u \in DOMAIN remote : ~(u <= old)
        BY <3>2
      <4> QED
        BY <1>3, <1>4, <4>1, HighestAll, ReplicaBounds DEF IInv, TXIDs
    <3> QED
      BY <3>1, <3>2
  <2> QED
    BY <1>3, <1>4, <2>1, <2>2, HighestAll DEF IInv
<1>6. TypeInv'
  BY <1>1, <1>2, <1>3 DEF IInv, TypeInv
<1>7. BackInv'
  BY <1>1, <1>2, <1>5 DEF IInv, BackInv
<1> QED
  BY <1>2, <1>6, <1>7, FilesStay
  DEF IInv, DownInv, AheadInv, NextInv, CoverInv, SameInv

\* The files a compaction opens are the replica's, whichever copy it reads.
LEMMA CompactListKeeps == ASSUME IInv, CompactList PROVE IInv'
<1>1. /\ DOMAIN comp' = {t \in DOMAIN remote : t > L1Pos}
      /\ \A t \in DOMAIN comp' : comp'[t] = IF t \in DOMAIN local THEN local[t] ELSE remote[t]
  BY DEF CompactList, Restrict, Over
<1>2. /\ l1pos' = L1Pos /\ L1Pos \in Nat /\ L1Pos <= Highest(l1)
      /\ UNCHANGED <<local, cache, remote, l1, pc, rpos, upto, del>>
  BY HighestAll DEF CompactList, L1Pos, IInv, TypeInv, CoverInv, replicaVars, syncVars, initVars
<1>3. \A t \in DOMAIN comp' : t \in DOMAIN Stored /\ comp'[t] = Stored[t]
  BY <1>1 DEF IInv, SameInv, Stored, Over
<1>4. TypeInv'
  BY <1>1, <1>2 DEF IInv, TypeInv
<1>5. BackInv'
  <2>1. ASSUME NEW t \in Highest(l1) + 1 .. Highest(comp') PROVE t \in DOMAIN comp'
    <3>1. /\ Highest(l1) \in Nat /\ Highest(remote) \in Nat /\ Highest(comp') \in Nat
          /\ Highest(comp') \in DOMAIN comp' \cup {0}
      BY <1>4, HighestAll, HighestIs DEF IInv, TypeInv
    <3>2. Highest(comp') <= Highest(remote)
      BY <1>1, <3>1, HighestIs DEF IInv, TypeInv
    <3>3. t \in Nat /\ t > Highest(l1) /\ t \in 1..Highest(remote)
      BY <3>1, <3>2
    <3>4. t \in DOMAIN remote
      BY <3>1, <3>3 DEF IInv, CoverInv
    <3> QED
      BY <1>1, <1>2, <3>1, <3>3, <3>4
  <2> QED
    BY <1>2, <2>1 DEF IInv, BackInv
<1> QED
  BY <1>2, <1>3, <1>4, <1>5, FilesStay
  DEF IInv, DownInv, AheadInv, NextInv, CoverInv, SameInv

\* Level 1 takes what the compaction has opened.
LEMMA Level1Grows ==
    ASSUME IInv, comp # NoFiles, l1' = Over(comp, l1), comp' = NoFiles, l1pos' \in {l1pos, Highest(comp)},
           UNCHANGED <<local, cache, remote, del, pc, rpos, upto>>
    PROVE  IInv' /\ StoredKept
<1> DEFINE c == Highest(comp)
           l == Highest(l1)
           m == IF l <= c THEN c ELSE l
<1>1. c \in Nat /\ l \in Nat /\ c \in DOMAIN comp \cup {0} /\ l \in DOMAIN l1 \cup {0}
      /\ (\A t \in DOMAIN comp : t \in Nat /\ 1 <= t /\ t <= c)
  BY HighestIs, ReplicaBounds DEF IInv, TypeInv
<1>2. DOMAIN l1 = 1..l /\ l + 1 .. c \subseteq DOMAIN comp
  BY DEF IInv, CoverInv, BackInv
<1>3. DOMAIN l1' = DOMAIN comp \cup DOMAIN l1
  BY OverIs
<1> HIDE DEF c, l
<1>4. DOMAIN l1' = 1..m /\ m \in Nat /\ m \in DOMAIN l1' \cup {0}
  BY <1>1, <1>2, <1>3
<1>5. TypeInv'
  BY <1>1, <1>3, NoFilesIs DEF IInv, TypeInv, c
<1> HIDE DEF m
<1>6. Highest(l1') = m
  <2>1. \A t \in DOMAIN l1' : t <= m
    BY <1>4
  <2> QED
    BY <1>4, <1>5, <2>1, HighestUnique DEF TypeInv
<1>7. DOMAIN Stored' = DOMAIN Stored /\ \A t \in DOMAIN Stored : Stored'[t] = Stored[t]
  <2>1. DOMAIN Stored = DOMAIN remote \cup DOMAIN l1 /\ DOMAIN comp \subseteq DOMAIN Stored
    BY OverIs DEF Stored, IInv, SameInv
  <2>2. DOMAIN Stored' = DOMAIN Stored
    BY <1>3, <2>1 DEF Stored, Over
  <2>3. ASSUME NEW t \in DOMAIN Stored PROVE Stored'[t] = Stored[t]
    <3>1. \A u \in DOMAIN comp : comp[u] = Stored[u]
      BY DEF IInv, SameInv
    <3>2. CASE t \in DOMAIN remote
      BY <2>1, <2>2, <3>2 DEF Stored, Over
    <3>3. CASE t \notin DOMAIN remote /\ t \in DOMAIN comp
      <4>1. Stored'[t] = l1'[t]
        BY <2>2, <3>3 DEF Stored, Over
      <4>2. l1'[t] = comp[t]
        BY <3>3 DEF Over
      <4> QED
        BY <3>1, <3>3, <4>1, <4>2
    <3>4. CASE t \notin DOMAIN remote /\ t \notin DOMAIN comp
      <4>1. Stored'[t] = l1'[t] /\ Stored[t] = l1[t] /\ t \in DOMAIN l1
        BY <2>1, <2>2, <3>4 DEF Stored, Over
      <4>2. l1'[t] = l1[t]
        BY <3>4, <4>1 DEF Over
      <4> QED
        BY <4>1, <4>2
    <3> QED
      BY <3>2, <3>3, <3>4
  <2> QED
    BY <2>2, <2>3
<1>8. DownInv' /\ AheadInv' /\ NextInv'
  BY DEF IInv, DownInv, AheadInv, NextInv
<1>9. CoverInv'
  <2>1. DOMAIN remote \cup DOMAIN l1' = DOMAIN remote \cup DOMAIN l1
    BY <1>3, OverIs DEF IInv, SameInv, Stored
  <2>2. l1pos' <= m
    BY <1>1 DEF m, c, l, IInv, CoverInv, TypeInv
  <2> QED
    BY <1>4, <1>6, <2>1, <2>2 DEF IInv, CoverInv
<1>10. BackInv'
  BY <1>3 DEF IInv, BackInv
<1>11. SameInv'
  <2>1. ASSUME NEW t \in DOMAIN remote \cap DOMAIN l1' PROVE remote[t] = l1'[t]
    <3>1. Stored[t] = remote[t] /\ t \in DOMAIN Stored
      BY OverIs DEF Stored
    <3>2. CASE t \in DOMAIN comp
      BY <3>1, <3>2 DEF IInv, SameInv, Over
    <3>3. CASE t \notin DOMAIN comp
      BY <1>3, <3>3 DEF IInv, SameInv, Over
    <3> QED
      BY <3>2, <3>3
  <2> QED
    BY <1>7, <2>1, NoFilesIs DEF IInv, SameInv
<1>12. ChainInv'
  BY <1>7 DEF IInv, ChainInv, Continues
<1> QED
  BY <1>5, <1>7, <1>8, <1>9, <1>10, <1>11, <1>12 DEF IInv, StoredKept

LEMMA CompactWriteKeeps == ASSUME IInv, CompactWrite PROVE IInv' /\ StoredKept
<1>1. comp # NoFiles /\ comp' = NoFiles /\ UNCHANGED <<local, cache, remote, del, pc, rpos, upto>>
  BY DEF CompactWrite, syncVars, initVars
<1>2. CASE l1' = Over(comp, l1) /\ l1pos' \in {l1pos, Highest(comp)}
  BY <1>1, <1>2, Level1Grows
<1>3. CASE UNCHANGED <<l1, l1pos>>
  <2>1. IInv'
    BY <1>1, <1>3, FilesStay, NoFilesIs
    DEF IInv, TypeInv, DownInv, AheadInv, NextInv, CoverInv, SameInv, BackInv
  <2> QED
    BY <1>1, <1>3, <2>1 DEF StoredKept, Stored
<1> QED
  BY <1>2, <1>3 DEF CompactWrite

-----------------------------------------------------------------------------
LEMMA NextKeeps ==
    ASSUME ~AutoRecover, ~LoseNewest
    PROVE  IInv /\ [Next]_vars => IInv' /\ StoredKept
<1> SUFFICES ASSUME IInv, [Next]_vars PROVE IInv' /\ StoredKept
  OBVIOUS
<1>1. UNCHANGED replicaVars => StoredKept
  BY DEF replicaVars, StoredKept, Stored
<1>2. CASE DBMonitor
  <2>1. UNCHANGED replicaVars
    BY <1>2 DEF DBMonitor, InitDB, FetchBaseline, SyncNothing, Sync, replicaVars
  <2> QED
    BY <1>1, <1>2, <2>1, InitDBKeeps, FetchBaselineKeeps, SyncNothingKeeps, SyncKeeps DEF DBMonitor
<1>3. CASE ReplicaMonitor
  <2>1. CASE Upload
    BY <2>1, UploadKeeps
  <2>2. CASE ~Upload
    <3>1. UNCHANGED replicaVars
      BY <1>3, <2>2 DEF ReplicaMonitor, ReplicaSyncStart, ReplicaSyncNoPosition, UploadMissing, ReplicaSyncEnd, replicaVars
    <3> QED
      BY <1>1, <1>3, <2>2, <3>1, ReplicaSyncStartKeeps, ReplicaSyncReturns DEF ReplicaMonitor
  <2> QED
    BY <2>1, <2>2
<1>4. CASE Compaction
  <2>1. CompactList => UNCHANGED replicaVars
    BY DEF CompactList, replicaVars
  <2> QED
    BY <1>1, <1>4, <2>1, CompactListKeeps, CompactWriteKeeps DEF Compaction
<1>5. CASE Retention
  <2>1. RetentionList \/ RetentionLocal => UNCHANGED replicaVars
    BY DEF RetentionList, RetentionLocal, replicaVars
  <2> QED
    BY <1>1, <1>5, <2>1, RetentionListKeeps, RetentionRemoteKeeps, RetentionLocalKeeps DEF Retention
<1>6. CASE AppCommit \/ RestoreOlder \/ UNCHANGED vars
  <2>1. UNCHANGED <<local, cache, l1pos, remote, l1, pc, rpos, upto, comp, del>> /\ UNCHANGED replicaVars
    BY <1>6 DEF AppCommit, RestoreOlder, vars, initVars, localVars, replicaVars, syncVars, backVars
  <2> QED
    BY <1>1, <2>1, StutterKeeps
<1>7. CASE ResetCommand \/ Close \/ Crash
  <2>1. UNCHANGED replicaVars
    BY <1>7 DEF ResetCommand, Close, Crash, replicaVars
  <2> QED
    BY <1>1, <1>7, <2>1, ResetCommandKeeps, CloseKeeps, CrashKeeps
<1>8. ASSUME NEW t \in TXIDs, LoseLocal(t) PROVE IInv' /\ StoredKept
  <2>1. UNCHANGED replicaVars
    BY <1>8 DEF LoseLocal, replicaVars
  <2> QED
    BY <1>1, <1>8, <2>1, LoseLocalKeeps
<1> QED
  BY <1>2, <1>3, <1>4, <1>5, <1>6, <1>7, <1>8 DEF Next

LEMMA SpecKeeps ==
    ASSUME ~AutoRecover, ~LoseNewest
    PROVE  Spec => []IInv
BY InitHolds, NextKeeps, PTL DEF Spec

\* The replica holds every TXID up to the newest, each continuing the one
\* before it or a snapshot, whatever was uploaded, retried, compacted, expired,
\* lost, reset or restored (Replica.Sync, Compactor.Compact,
\* EnforceL0RetentionByTime, checkDatabaseBehindReplica).
THEOREM ChainAtReplica ==
    ASSUME ~AutoRecover, ~LoseNewest
    PROVE  Spec => []ReplicaChain
<1>1. IInv => ReplicaChain
  <2> SUFFICES ASSUME IInv PROVE ReplicaChain
    OBVIOUS
  <2>1. DOMAIN Stored = 1..Highest(remote)
    BY OverIs DEF IInv, CoverInv, Stored
  <2> QED
    BY <2>1 DEF IInv, ChainInv, Continues, ReplicaChain
<1> QED
  BY <1>1, SpecKeeps, PTL

\* A TXID names the same file on disk, in level 0 and in level 1, so that a
\* compaction may read the local copy and an upload may be repeated.
THEOREM TXIDNamesOneFile ==
    ASSUME ~AutoRecover, ~LoseNewest
    PROVE  Spec => []OneFilePerTXID
<1>1. IInv => OneFilePerTXID
  BY DEF IInv, SameInv, OneFilePerTXID, Stored, Over
<1> QED
  BY <1>1, SpecKeeps, PTL

\* What the replica has for a TXID it has for good: no upload, compaction or
\* retention, and no restart, replaces or removes it.
THEOREM ReplicaOnlyGrows ==
    ASSUME ~AutoRecover, ~LoseNewest
    PROVE  Spec => [][StoredKept]_vars
BY SpecKeeps, NextKeeps, PTL DEF Spec

=============================================================================
