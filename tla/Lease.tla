------------------------------- MODULE Lease -------------------------------
(***************************************************************************)
(* s3/leaser.go: a lease kept in one S3 object, written and deleted with   *)
(* conditional requests.  A request may be served long after its caller    *)
(* gave up on it, and its answer may be lost.  Every write gives the       *)
(* object an ETag no earlier one had (the body holds the owner and the     *)
(* time in nanoseconds).  The clocks of the clients agree.                 *)
(***************************************************************************)
EXTENDS Integers, FiniteSets

CONSTANTS
    Client,   \* the Leasers, each with an Owner of its own
    NoLease,  \* no lease, no object
    NoRequest,
    TTL,      \* Leaser.TTL in ticks of the clock
    MaxTime,  \* bound on the clock
    MaxETag,  \* bound on the writes of the object
    MaxNet    \* bound on the requests under way

ASSUME NoLeaseAssumption == NoLease \notin [gen: Nat, owner: Client, exp: Nat, etag: Nat]
ASSUME NoRequestAssumption ==
    NoRequest \notin [op: {"acquire", "renew", "release"}, by: Client, etag: Nat, gen: Nat, exp: Nat]
ASSUME LeaseBounds == TTL \in Nat /\ MaxTime \in Nat /\ MaxETag \in Nat /\ MaxNet \in Nat

VARIABLES
    now,    \* time.Now()
    obj,    \* the lock file
    netag,  \* ETags handed out by S3 so far
    net,    \* requests that S3 has yet to serve
    wait,   \* the request whose answer the client waits for, or NoRequest
    lease,  \* the lease the client believes it holds, with its ETag
    result  \* what the client's last call returned

vars == <<now, obj, netag, net, wait, lease, result>>

LeaseRec == [gen: Nat, owner: Client, exp: Nat, etag: Nat]

\* The parameters of PutObject and DeleteObject; ETag 0 is If-None-Match: *.
Request ==
    [op: {"acquire", "renew", "release"}, by: Client, etag: Nat, gen: Nat, exp: Nat]

Init ==
    /\ now = 0
    /\ obj = NoLease
    /\ netag = 0
    /\ net = {}
    /\ wait = [c \in Client |-> NoRequest]
    /\ lease = [c \in Client |-> NoLease]
    /\ result = [c \in Client |-> "none"]

IsExpired(l) == now > l.exp

-----------------------------------------------------------------------------
(* The calls, up to the conditional request.                               *)

\* Two calls of one client happen at different times: their requests differ.
Send(c, r) ==
    /\ wait[c] = NoRequest
    /\ r \notin net
    /\ Cardinality(net) < MaxNet
    /\ net' = net \cup {r}
    /\ wait' = [wait EXCEPT ![c] = r]
    /\ UNCHANGED <<now, obj, netag, result>>

\* Mutants: the lease ends before it starts; a valid lease is taken over like
\* an expired one.
AcquireLease_NegativeTTL(c) ==
    /\ obj # NoLease => IsExpired(obj)
    /\ Send(c, [op |-> "acquire", by |-> c,
                etag |-> IF obj = NoLease THEN 0 ELSE obj.etag,
                gen |-> IF obj = NoLease THEN 1 ELSE obj.gen + 1, exp |-> now - TTL])
    /\ UNCHANGED lease

AcquireLease_IgnoresExpiry(c) ==
    /\ Send(c, [op |-> "acquire", by |-> c,
                etag |-> IF obj = NoLease THEN 0 ELSE obj.etag,
                gen |-> IF obj = NoLease THEN 1 ELSE obj.gen + 1, exp |-> now + TTL])
    /\ UNCHANGED lease

\* AcquireLease: readLease, then a lease of the next generation if there is
\* none or it has expired.  (A valid lease is an error and changes nothing.)
AcquireLease(c) ==
    /\ obj # NoLease => IsExpired(obj)
    /\ Send(c, [op |-> "acquire", by |-> c,
                etag |-> IF obj = NoLease THEN 0 ELSE obj.etag,
                gen |-> IF obj = NoLease THEN 1 ELSE obj.gen + 1, exp |-> now + TTL])
    /\ UNCHANGED lease

\* Mutant: the TTL is added to the old expiry.
RenewLease_FromExpiry(c) ==
    /\ lease[c] # NoLease
    /\ Send(c, [op |-> "renew", by |-> c, etag |-> lease[c].etag,
                gen |-> lease[c].gen, exp |-> lease[c].exp + TTL])
    /\ UNCHANGED lease

\* RenewLease: the same generation, if the object is still the one we wrote.
RenewLease(c) ==
    /\ lease[c] # NoLease
    /\ Send(c, [op |-> "renew", by |-> c, etag |-> lease[c].etag,
                gen |-> lease[c].gen, exp |-> now + TTL])
    /\ UNCHANGED lease

\* ReleaseLease: its caller has stopped relying on the lease.
ReleaseLease(c) ==
    /\ lease[c] # NoLease
    /\ Send(c, [op |-> "release", by |-> c, etag |-> lease[c].etag,
                gen |-> lease[c].gen, exp |-> lease[c].exp])
    /\ lease' = [lease EXCEPT ![c] = NoLease]

-----------------------------------------------------------------------------
(* S3.                                                                     *)

\* If-None-Match: * or If-Match.
Precondition(r) == IF r.etag = 0 THEN obj = NoLease ELSE obj # NoLease /\ obj.etag = r.etag

\* The request is served.  The caller gets the answer if it still waits for
\* one and the answer is not lost.
ServePut(r) ==
    /\ r.op \in {"acquire", "renew"}
    /\ Precondition(r)
    /\ netag < MaxETag
    /\ LET new == [gen |-> r.gen, owner |-> r.by, exp |-> r.exp, etag |-> netag + 1]
       IN  /\ obj' = new
           /\ netag' = netag + 1
           /\ \/ /\ wait[r.by] = r
                 /\ lease' = [lease EXCEPT ![r.by] = new]
                 /\ result' = [result EXCEPT ![r.by] = "ok"]
                 /\ wait' = [wait EXCEPT ![r.by] = NoRequest]
              \/ UNCHANGED <<lease, result, wait>>
    /\ net' = net \ {r}
    /\ UNCHANGED now

ServeDelete(r) ==
    /\ r.op = "release"
    /\ Precondition(r)
    /\ obj' = NoLease
    /\ net' = net \ {r}
    /\ \/ /\ wait[r.by] = r
          /\ wait' = [wait EXCEPT ![r.by] = NoRequest]
          /\ result' = [result EXCEPT ![r.by] = "ok"]
       \/ UNCHANGED <<wait, result>>
    /\ UNCHANGED <<now, netag, lease>>

\* What a refused call returns.  If-Match on an object that is gone is a 404:
\* a release takes it for done, a write returns it as a plain error.
Refusal(r) ==
    LET gone == r.etag # 0 /\ obj = NoLease
    IN  CASE r.op = "acquire" -> IF gone THEN "error" ELSE "exists"
          [] r.op = "renew"   -> IF gone THEN "error" ELSE "notHeld"
          [] r.op = "release" -> IF gone THEN "released" ELSE "notHeld"

\* 412 or 404.  A caller whose renewal fails keeps the lease it had until
\* that expires.
ServeRefused(r) ==
    /\ ~Precondition(r)
    /\ net' = net \ {r}
    /\ \/ /\ wait[r.by] = r
          /\ wait' = [wait EXCEPT ![r.by] = NoRequest]
          /\ result' = [result EXCEPT ![r.by] = Refusal(r)]
       \/ UNCHANGED <<wait, result>>
    /\ UNCHANGED <<now, obj, netag, lease>>

\* The call ends without an answer; its request stays on its way.
GiveUp(c) ==
    /\ wait[c] # NoRequest
    /\ wait' = [wait EXCEPT ![c] = NoRequest]
    /\ result' = [result EXCEPT ![c] = "error"]
    /\ UNCHANGED <<now, obj, netag, net, lease>>

\* The request never arrives.
Drop(r) ==
    /\ net' = net \ {r}
    /\ UNCHANGED <<now, obj, netag, wait, lease, result>>

Tick ==
    /\ now < MaxTime
    /\ now' = now + 1
    /\ UNCHANGED <<obj, netag, net, wait, lease, result>>

Next ==
    \/ \E c \in Client : AcquireLease(c) \/ RenewLease(c) \/ ReleaseLease(c) \/ GiveUp(c)
    \/ \E r \in net : ServePut(r) \/ ServeDelete(r) \/ ServeRefused(r) \/ Drop(r)
    \/ Tick

Spec == Init /\ [][Next]_vars

-----------------------------------------------------------------------------
(* Properties.                                                             *)

\* Shape of the lock file, of the leases and of the requests.
TypeOK ==
    /\ now \in Nat /\ netag \in Nat
    /\ obj \in LeaseRec \cup {NoLease}
    /\ net \subseteq Request
    /\ wait \in [Client -> Request \cup {NoRequest}]
    /\ lease \in [Client -> LeaseRec \cup {NoLease}]
    /\ result \in [Client -> {"none", "ok", "exists", "notHeld", "released", "error"}]

\* The client has a lease and, by its clock, may still act on it.
Holds(c) == lease[c] # NoLease /\ ~IsExpired(lease[c])

\* No two clients hold the lease at the same time, however late requests are
\* served and whichever answers are lost.
MutualExclusion == \A c, d \in Client : Holds(c) /\ Holds(d) => c = d

\* The grant in force, as the clients see it.
held == {[owner |-> c, exp |-> lease[c].exp] : c \in {d \in Client : Holds(d)}}

Lock == INSTANCE TimedLock WITH held <- held

\* The conditional requests implement a lock that lapses: a client that holds
\* it loses it only by its own release or when its time is up, is never given
\* more than TTL from now, and nobody is granted it before.
ImplementsTimedLock == Lock!Spec

=============================================================================
