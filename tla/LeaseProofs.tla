---------------------------- MODULE LeaseProofs ----------------------------
(***************************************************************************)
(* Mutual exclusion of the S3 leases, for every set of clients, every TTL  *)
(* and every number of requests under way.                                 *)
(***************************************************************************)
EXTENDS Lease, TLAPS

\* The lock file carries an ETag that S3 handed out.
ObjInv == obj # NoLease => obj.etag \in 1..netag /\ obj.exp <= now + TTL

\* A client's lease is its own, and is the lock file if the ETags agree.
LeaseInv ==
    \A c \in Client : lease[c] # NoLease =>
        /\ lease[c].owner = c
        /\ lease[c].etag \in 1..netag
        /\ lease[c].exp <= now + TTL
        /\ obj # NoLease /\ obj.etag = lease[c].etag => obj = lease[c]

\* What the condition of a request on its way implies when it is served: a
\* takeover finds an expired lease, a renewal and a release find the lease
\* of the client that sent them, which has no newer one after a release.
RequestInv(r) ==
    /\ r.etag <= netag
    /\ r.exp <= now + TTL
    /\ r.op # "acquire" => r.etag # 0
    /\ obj # NoLease /\ obj.etag = r.etag =>
          /\ r.op = "acquire" => now > obj.exp
          /\ r.op # "acquire" => obj.owner = r.by
          /\ r.op = "renew" => obj.exp <= r.exp
    /\ r.op = "release" /\ lease[r.by] # NoLease => r.etag < lease[r.by].etag

\* A lease that is held is the one in the lock file, or older than it.
HeldInv ==
    \A c \in Client : Holds(c) =>
        obj # NoLease /\ obj.owner = c /\ obj.exp >= lease[c].exp /\ obj.etag >= lease[c].etag

IInv == TypeOK /\ ObjInv /\ LeaseInv /\ (\A r \in net : RequestInv(r)) /\ HeldInv

-----------------------------------------------------------------------------

LEMMA InitHolds == Init => IInv
BY LeaseBounds
DEF Init, IInv, TypeOK, ObjInv, LeaseInv, RequestInv, HeldInv, Holds, LeaseRec, Request

\* Sending a request that satisfies its part of the invariant keeps it.
LEMMA SendKeeps ==
    ASSUME IInv, NEW c \in Client, NEW r \in Request, Send(c, r), lease' = lease, RequestInv(r)
    PROVE  IInv'
BY LeaseBounds
DEF IInv, TypeOK, ObjInv, LeaseInv, RequestInv, HeldInv, Holds, IsExpired, Send

LEMMA AcquireKeeps == ASSUME IInv, NEW c \in Client, AcquireLease(c) PROVE IInv'
<1> DEFINE r == [op |-> "acquire", by |-> c,
                 etag |-> IF obj = NoLease THEN 0 ELSE obj.etag,
                 gen |-> IF obj = NoLease THEN 1 ELSE obj.gen + 1, exp |-> now + TTL]
<1>1. Send(c, r) /\ lease' = lease
  BY DEF AcquireLease
<1>2. r \in Request
  BY LeaseBounds DEF IInv, TypeOK, LeaseRec, Request
<1>3. RequestInv(r)
  BY LeaseBounds DEF IInv, TypeOK, LeaseRec, ObjInv, RequestInv, AcquireLease, IsExpired
<1> QED
  BY <1>1, <1>2, <1>3, SendKeeps

LEMMA RenewKeeps == ASSUME IInv, NEW c \in Client, RenewLease(c) PROVE IInv'
<1> DEFINE r == [op |-> "renew", by |-> c, etag |-> lease[c].etag,
                 gen |-> lease[c].gen, exp |-> now + TTL]
<1>1. Send(c, r) /\ lease' = lease /\ lease[c] # NoLease
  BY DEF RenewLease
<1>2. lease[c] \in LeaseRec
  BY <1>1 DEF IInv, TypeOK
<1>3. r \in Request
  BY <1>2, LeaseBounds DEF IInv, TypeOK, LeaseRec, Request
<1>4. RequestInv(r)
  BY <1>1, <1>2, LeaseBounds DEF IInv, TypeOK, LeaseRec, ObjInv, LeaseInv, RequestInv
<1> QED
  BY <1>1, <1>3, <1>4, SendKeeps

LEMMA ReleaseKeeps == ASSUME IInv, NEW c \in Client, ReleaseLease(c) PROVE IInv'
<1>1. lease[c] # NoLease /\ lease[c] \in LeaseRec /\ lease' = [lease EXCEPT ![c] = NoLease]
  BY DEF ReleaseLease, IInv, TypeOK
<1>2. PICK r \in Request :
        /\ r = [op |-> "release", by |-> c, etag |-> lease[c].etag,
                gen |-> lease[c].gen, exp |-> lease[c].exp]
        /\ Send(c, r)
  BY <1>1 DEF ReleaseLease, LeaseRec, Request
<1>3. TypeOK'
  BY <1>1, <1>2 DEF IInv, TypeOK, Send
<1>4. ObjInv' /\ LeaseInv'
  BY <1>1, <1>2 DEF IInv, TypeOK, ObjInv, LeaseInv, Send
<1>5. RequestInv(r)'
  BY <1>1, <1>2, LeaseBounds DEF IInv, TypeOK, LeaseRec, LeaseInv, RequestInv, Send
<1>6. \A q \in net : RequestInv(q)'
  BY <1>1, <1>2 DEF IInv, TypeOK, Request, RequestInv, Send
<1>7. HeldInv'
  BY <1>1, <1>2 DEF IInv, TypeOK, HeldInv, Holds, IsExpired, Send
<1> QED
  BY <1>2, <1>3, <1>4, <1>5, <1>6, <1>7 DEF IInv, Send

\* The lock file is written: a takeover found it expired, a renewal found the
\* lease of its sender.
LEMMA ServePutKeeps == ASSUME IInv, NEW r \in net, ServePut(r) PROVE IInv'
<1>1. r \in Request /\ r.by \in Client /\ RequestInv(r) /\ Precondition(r)
  BY DEF IInv, TypeOK, Request, ServePut
<1>2. PICK new \in LeaseRec :
        /\ new = [gen |-> r.gen, owner |-> r.by, exp |-> r.exp, etag |-> netag + 1]
        /\ obj' = new
        /\ netag' = netag + 1 /\ now' = now /\ net' = net \ {r}
        /\ lease' = lease \/ lease' = [lease EXCEPT ![r.by] = new]
  BY <1>1 DEF ServePut, IInv, TypeOK, Request, LeaseRec
<1>3. new # NoLease
  BY <1>2, NoLeaseAssumption DEF LeaseRec
<1>4. TypeOK'
  BY <1>1, <1>2 DEF IInv, TypeOK, ServePut
<1>5. ObjInv'
  BY <1>1, <1>2, <1>3, LeaseBounds DEF IInv, TypeOK, LeaseRec, Request, ObjInv, RequestInv
<1>6. LeaseInv'
  BY <1>1, <1>2, <1>3, LeaseBounds DEF IInv, TypeOK, LeaseRec, Request, LeaseInv, RequestInv
<1>7. \A q \in net' : RequestInv(q)'
  BY <1>1, <1>2, <1>3 DEF IInv, TypeOK, LeaseRec, Request, RequestInv, LeaseInv
<1>8. ASSUME NEW c \in Client, Holds(c)', lease'[c] = lease[c]
      PROVE  r.by = c /\ obj' # NoLease /\ obj'.exp >= lease[c].exp /\ obj'.etag >= lease[c].etag
  <2>1. /\ Holds(c) /\ lease[c] \in LeaseRec
        /\ obj # NoLease /\ obj \in LeaseRec
        /\ obj.owner = c /\ obj.exp >= lease[c].exp /\ obj.etag >= lease[c].etag
        /\ lease[c].exp >= now
    BY <1>2, <1>8 DEF IInv, TypeOK, LeaseRec, HeldInv, Holds, IsExpired
  <2>2. obj.etag = r.etag
    BY <1>1, <2>1 DEF Precondition, ObjInv, IInv
  <2>3. r.op # "acquire"
    BY <1>1, <2>1, <2>2 DEF RequestInv, LeaseRec, IInv, TypeOK
  <2>4. r.op = "renew" /\ obj.owner = r.by /\ obj.exp <= r.exp
    BY <1>1, <2>1, <2>2, <2>3 DEF RequestInv, Request, ServePut
  <2>5. netag \in Nat /\ lease[c].etag <= netag
    BY <2>1 DEF IInv, TypeOK, LeaseInv, Holds
  <2>6. obj' # NoLease /\ obj'.exp = r.exp /\ obj'.etag = netag + 1
    BY <1>2, <1>3
  <2>7. r.exp \in Nat
    BY <1>1 DEF Request
  <2> QED
    BY <2>1, <2>4, <2>5, <2>6, <2>7 DEF LeaseRec
<1>9. HeldInv'
  <2> SUFFICES ASSUME NEW c \in Client, Holds(c)'
               PROVE  (obj # NoLease /\ obj.owner = c
                         /\ obj.exp >= lease[c].exp /\ obj.etag >= lease[c].etag)'
    BY DEF HeldInv
  <2>1. CASE lease'[c] = lease[c]
    BY <1>2, <1>8, <2>1
  <2>2. CASE lease'[c] # lease[c]
    <3>1. c = r.by /\ lease'[c] = new
      BY <1>1, <1>2, <2>2 DEF IInv, TypeOK
    <3> QED
      BY <1>2, <1>3, <3>1 DEF LeaseRec
  <2> QED
    BY <2>1, <2>2
<1> QED
  BY <1>4, <1>5, <1>6, <1>7, <1>9 DEF IInv

\* The lock file is deleted: nobody holds the lease in it.
LEMMA ServeDeleteKeeps == ASSUME IInv, NEW r \in net, ServeDelete(r) PROVE IInv'
<1>1. r \in Request /\ r.by \in Client /\ RequestInv(r) /\ Precondition(r) /\ r.op = "release"
  BY DEF IInv, TypeOK, Request, ServeDelete
<1>2. obj' = NoLease /\ netag' = netag /\ now' = now /\ net' = net \ {r} /\ lease' = lease
  BY DEF ServeDelete
<1>3. TypeOK'
  BY <1>1, <1>2 DEF IInv, TypeOK, ServeDelete
<1>4. ObjInv' /\ LeaseInv' /\ \A q \in net' : RequestInv(q)'
  BY <1>2 DEF IInv, ObjInv, LeaseInv, RequestInv
<1>5. ASSUME NEW c \in Client, Holds(c) PROVE FALSE
  <2>1. /\ obj # NoLease /\ obj.owner = c /\ obj.etag >= lease[c].etag
        /\ lease[c] # NoLease /\ lease[c] \in LeaseRec /\ obj \in LeaseRec
    BY <1>5 DEF IInv, TypeOK, HeldInv, Holds
  <2>2. obj.etag = r.etag
    BY <1>1, <2>1 DEF Precondition
  <2>3. c = r.by /\ r.etag < lease[c].etag
    BY <1>1, <2>1, <2>2 DEF RequestInv
  <2> QED
    BY <2>1, <2>2, <2>3 DEF LeaseRec
<1>6. HeldInv'
  BY <1>2, <1>5 DEF HeldInv, Holds, IsExpired
<1> QED
  BY <1>3, <1>4, <1>6 DEF IInv

\* Steps that leave the lock file and the leases alone and send nothing.
LEMMA QuietKeeps ==
    ASSUME IInv, TypeOK', now' \in {now, now + 1}, net' \subseteq net,
           UNCHANGED <<obj, netag, lease>>
    PROVE  IInv'
<1>1. ObjInv' /\ LeaseInv' /\ HeldInv'
  BY LeaseBounds DEF IInv, TypeOK, LeaseRec, ObjInv, LeaseInv, HeldInv, Holds, IsExpired
<1>2. \A q \in net' : RequestInv(q)'
  BY LeaseBounds DEF IInv, TypeOK, LeaseRec, Request, RequestInv
<1> QED
  BY <1>1, <1>2 DEF IInv

LEMMA StepKeeps == IInv /\ [Next]_vars => IInv'
<1> SUFFICES ASSUME IInv, [Next]_vars PROVE IInv'
  OBVIOUS
<1>1. CASE UNCHANGED vars
  <2>1. TypeOK'
    BY <1>1 DEF IInv, TypeOK, vars
  <2> QED
    BY <1>1, <2>1, QuietKeeps DEF vars
<1>2. CASE Tick
  <2>1. TypeOK'
    BY <1>2 DEF IInv, TypeOK, Tick
  <2> QED
    BY <1>2, <2>1, QuietKeeps DEF Tick
<1>3. ASSUME NEW c \in Client, GiveUp(c) PROVE IInv'
  <2>1. TypeOK'
    BY <1>3 DEF IInv, TypeOK, GiveUp
  <2> QED
    BY <1>3, <2>1, QuietKeeps DEF GiveUp
<1>4. ASSUME NEW r \in net, ServeRefused(r) PROVE IInv'
  <2>1. r.by \in Client /\ Refusal(r) \in {"none", "ok", "exists", "notHeld", "released", "error"}
    BY DEF Refusal, IInv, TypeOK, Request
  <2>2. TypeOK'
    BY <1>4, <2>1 DEF IInv, TypeOK, ServeRefused
  <2> QED
    BY <1>4, <2>2, QuietKeeps DEF ServeRefused
<1>5. ASSUME NEW r \in net, Drop(r) PROVE IInv'
  <2>1. TypeOK'
    BY <1>5 DEF IInv, TypeOK, Drop
  <2> QED
    BY <1>5, <2>1, QuietKeeps DEF Drop
<1> QED
  BY <1>1, <1>2, <1>3, <1>4, <1>5, AcquireKeeps, RenewKeeps, ReleaseKeeps, ServePutKeeps, ServeDeleteKeeps
  DEF Next

\* The inductive invariant, from which the two theorems below follow.
LEMMA Invariant == Spec => []IInv
BY InitHolds, StepKeeps, PTL DEF Spec

\* Shape of the lock file, the leases and the requests of s3/leaser.go.
THEOREM LeaseTyped == Spec => []TypeOK
BY Invariant, PTL DEF IInv

\* No two clients of s3/leaser.go ever hold the lease at the same time: for
\* every set of clients and TTL, with requests served arbitrarily late.
THEOREM LeaseExclusive == Spec => []MutualExclusion
<1>1. IInv => MutualExclusion
  BY DEF IInv, HeldInv, MutualExclusion
<1> QED
  BY <1>1, Invariant, PTL

-----------------------------------------------------------------------------
(* The refinement: what a step does to the grant in force.                 *)

\* A write that S3 accepts while the lease is held is the holder's renewal.
LEMMA PutWhileHeld ==
    ASSUME IInv, NEW r \in net, ServePut(r), NEW c \in Client, Holds(c)
    PROVE  r.by = c /\ lease[c].exp <= r.exp /\ now <= r.exp
<1>1. /\ lease[c] # NoLease /\ lease[c] \in LeaseRec /\ lease[c].exp >= now
      /\ obj # NoLease /\ obj \in LeaseRec /\ obj.owner = c /\ obj.exp >= lease[c].exp
  BY DEF IInv, TypeOK, LeaseRec, HeldInv, Holds, IsExpired
<1>2. r \in Request /\ RequestInv(r) /\ Precondition(r) /\ r.op \in {"acquire", "renew"}
  BY DEF IInv, TypeOK, ServePut
<1>3. obj.etag = r.etag
  BY <1>1, <1>2 DEF Precondition
<1>4. r.op = "renew"
  BY <1>1, <1>2, <1>3 DEF RequestInv, LeaseRec, IInv, TypeOK
<1>5. obj.owner = r.by /\ obj.exp <= r.exp
  BY <1>1, <1>2, <1>3, <1>4 DEF RequestInv
<1> QED
  BY <1>1, <1>2, <1>5 DEF LeaseRec, Request, IInv, TypeOK

\* The grant depends on the leases and the clock only.
LEMMA SameGrant == lease' = lease /\ now' = now => held' = held
BY DEF held, Holds, IsExpired

LEMMA ReleaseGrant ==
    ASSUME IInv, NEW c \in Client, ReleaseLease(c)
    PROVE  held' = held \/ Lock!Release(c)
<1>1. now' = now /\ lease' = [lease EXCEPT ![c] = NoLease]
  BY DEF ReleaseLease, Send
<1>2. \A d \in Client : lease'[d] = IF d = c THEN NoLease ELSE lease[d]
  BY <1>1 DEF IInv, TypeOK
<1>3. \A d \in Client : Holds(d)' <=> d # c /\ Holds(d)
  BY <1>1, <1>2 DEF Holds, IsExpired
<1>4. CASE Holds(c)
  <2>1. \A d \in Client : Holds(d) => d = c
    BY <1>4 DEF IInv, HeldInv
  <2>2. held' = {}
    BY <1>3, <2>1 DEF held
  <2>3. [owner |-> c, exp |-> lease[c].exp] \in held
    BY <1>4 DEF held
  <2> QED
    BY <1>1, <2>2, <2>3 DEF Lock!Release
<1>5. CASE ~Holds(c)
  <2>1. {d \in Client : Holds(d)'} = {d \in Client : Holds(d)}
    BY <1>3, <1>5
  <2>2. \A d \in {e \in Client : Holds(e)} : lease'[d] = lease[d]
    BY <1>2, <1>5
  <2> QED
    BY <2>1, <2>2 DEF held
<1> QED
  BY <1>4, <1>5

LEMMA PutGrant ==
    ASSUME IInv, NEW r \in net, ServePut(r)
    PROVE  held' = held \/ Lock!Grant(r.by) \/ Lock!Extend(r.by)
<1> DEFINE c == r.by
<1>1. r \in Request /\ c \in Client /\ RequestInv(r) /\ now \in Nat /\ r.exp \in Nat
  BY DEF IInv, TypeOK, Request
<1>2. CASE lease' = lease
  BY <1>2, SameGrant DEF ServePut
<1>3. CASE lease' # lease
  <2>1. PICK new \in LeaseRec :
          new.exp = r.exp /\ lease' = [lease EXCEPT ![c] = new] /\ now' = now
    BY <1>1, <1>3 DEF ServePut, IInv, TypeOK, Request, LeaseRec
  <2>2. new # NoLease
    BY <2>1, NoLeaseAssumption DEF LeaseRec
  <2>3. \A d \in Client : lease'[d] = IF d = c THEN new ELSE lease[d]
    BY <1>1, <2>1 DEF IInv, TypeOK
  <2>4. \A d \in Client : Holds(d) => d = c
    BY PutWhileHeld
  <2>5. \A d \in Client : Holds(d)' <=> d = c /\ now <= r.exp
    BY <1>1, <2>1, <2>2, <2>3, <2>4 DEF Holds, IsExpired
  <2>6. CASE ~(now <= r.exp)
    <3>1. \A d \in Client : ~Holds(d)
      BY <1>1, <2>6, PutWhileHeld
    <3> QED
      BY <2>5, <2>6, <3>1 DEF held
  <2>7. CASE now <= r.exp
    <3>1. held' = {[owner |-> c, exp |-> r.exp]}
      <4>1. \A d \in Client : Holds(d)' <=> d = c
        BY <2>5, <2>7
      <4>2. lease'[c].exp = r.exp
        BY <1>1, <2>1, <2>3
      <4> QED
        BY <1>1, <4>1, <4>2 DEF held
    <3>2. r.exp \in now..(now + TTL)
      BY <1>1, <2>7, LeaseBounds DEF RequestInv
    <3>3. CASE Holds(c)
      <4>1. [owner |-> c, exp |-> lease[c].exp] \in held
        BY <1>1, <3>3 DEF held
      <4>2. lease[c] \in LeaseRec /\ lease[c].exp <= r.exp
        BY <1>1, <3>3, PutWhileHeld DEF IInv, TypeOK, Holds
      <4>3. r.exp \in (lease[c].exp)..(now + TTL)
        BY <1>1, <3>2, <4>2, LeaseBounds DEF LeaseRec
      <4> QED
        BY <2>1, <3>1, <4>1, <4>3 DEF Lock!Extend
    <3>4. CASE ~Holds(c)
      <4>1. held = {}
        BY <2>4, <3>4 DEF held
      <4> QED
        BY <2>1, <3>1, <3>2, <4>1 DEF Lock!Grant
    <3> QED
      BY <3>3, <3>4
  <2> QED
    BY <2>6, <2>7
<1> QED
  BY <1>2, <1>3

LEMMA TickGrant == ASSUME IInv, Tick PROVE Lock!Lapse
<1>1. now' = now + 1 /\ lease' = lease /\ now \in Nat
  BY DEF Tick, IInv, TypeOK
<1>2. \A d \in Client : lease[d] # NoLease => lease[d].exp \in Nat
  BY DEF IInv, TypeOK, LeaseRec
<1>3. \A d \in Client : Holds(d)' <=> Holds(d) /\ lease[d].exp >= now + 1
  BY <1>1, <1>2 DEF Holds, IsExpired
<1>4. held' = {g \in held : g.exp >= now + 1}
  BY <1>1, <1>3 DEF held
<1> QED
  BY <1>1, <1>4 DEF Lock!Lapse

\* Every step is a step of the lock that lapses, or leaves it alone.
LEMMA StepRefines == ASSUME IInv, [Next]_vars PROVE [Lock!Next]_<<now, held>>
<1>1. CASE UNCHANGED vars
  BY <1>1, SameGrant DEF vars
<1>2. CASE Tick
  BY <1>2, TickGrant DEF Lock!Next
<1>3. ASSUME NEW c \in Client, ReleaseLease(c) PROVE [Lock!Next]_<<now, held>>
  BY <1>3, ReleaseGrant DEF Lock!Next, ReleaseLease, Send
<1>4. ASSUME NEW c \in Client, AcquireLease(c) \/ RenewLease(c) \/ GiveUp(c)
      PROVE  UNCHANGED <<now, held>>
  BY <1>4, SameGrant DEF AcquireLease, RenewLease, GiveUp, Send
<1>5. ASSUME NEW r \in net, ServePut(r) PROVE [Lock!Next]_<<now, held>>
  <2>1. r.by \in Client /\ now' = now
    BY <1>5 DEF IInv, TypeOK, Request, ServePut
  <2> QED
    BY <1>5, <2>1, PutGrant DEF Lock!Next
<1>6. ASSUME NEW r \in net, ServeDelete(r) \/ ServeRefused(r) \/ Drop(r)
      PROVE  UNCHANGED <<now, held>>
  BY <1>6, SameGrant DEF ServeDelete, ServeRefused, Drop
<1> QED
  BY <1>1, <1>2, <1>3, <1>4, <1>5, <1>6 DEF Next

\* s3/leaser.go implements the lock that lapses, for every set of clients and
\* every TTL: a client loses the lease only by its own release or by time.
THEOREM LeaseRefines == Spec => ImplementsTimedLock
<1>1. Init => Lock!Init
  BY DEF Init, Lock!Init, held, Holds
<1>2. IInv /\ [Next]_vars => [Lock!Next]_<<now, held>>
  BY StepRefines
<1> QED
  BY <1>1, <1>2, Invariant, PTL DEF Spec, Lock!Spec, ImplementsTimedLock

=============================================================================
