------------------------------- MODULE Store -------------------------------
(***************************************************************************)
(* The requests that add, remove, start, stop and sync one database of a   *)
(* running store (server.go, directory_watcher.go, store.go), and the life *)
(* of the DB they act on: Open, its monitor, the initialization inside the *)
(* first Sync, Close (db.go).  A path may have several DB instances for a  *)
(* while: every registration brings a new one.  A step ends where s.mu or  *)
(* db.mu is given up; db.Sync, which holds db.mu throughout, is one step.  *)
(*                                                                         *)
(* A read transaction of database/sql ends with the context it was begun   *)
(* in, whoever still refers to it.                                         *)
(***************************************************************************)
EXTENDS Integers, FiniteSets

CONSTANTS
    DB,           \* instances for the path, made by NewDB
    Call,         \* goroutines that serve requests
    Requests,     \* the kinds of request that are made
    Faults,       \* what may fail: "open", "init", "early", "lock"
    NoDB,         \* a call that works on no instance
    MaxRequests,  \* bound on the requests
    MaxFaults     \* bound on the kinds of failure in one behaviour

Kind == {"register", "unregister", "start", "stop", "sync", "timedsync"}

ASSUME StoreAssumption ==
    /\ Requests \subseteq Kind
    /\ Faults \subseteq {"open", "init", "early", "lock"}
    /\ NoDB \notin DB
    /\ MaxRequests \in Nat /\ MaxFaults \in Nat

\* Requests, other than a stop, for an instance that was found before.
Late == {"start", "sync", "timedsync"}

Gen == 0..MaxRequests    \* the contexts of an instance, by the Open that made them
NoTx == <<"nil", 0>>
Ended == <<"ended", 0>>  \* db.rtx is set, and its transaction rolled back
VARIABLES
    dbs,        \* s.dbs, for this path
    unused,     \* instances that NewDB has yet to make
    opened,     \* db.opened
    ctx,        \* db.ctx
    cancelled,  \* which contexts of the instance are cancelled
    monitors,   \* running monitors, by the context they wait for
    conn,       \* db.db: "nil", "ready", or "half" when init gave up after sql.Open
    rtx,        \* db.rtx: NoTx, Ended, or the context of the transaction
    call,       \* what each goroutine does: request, step and instance
    requests,   \* requests so far
    asked,      \* the kinds of Late among them
    failed      \* what has failed, each kind at most once

instance == <<opened, ctx, cancelled, monitors, conn, rtx>>
vars == <<dbs, unused, opened, ctx, cancelled, monitors, conn, rtx, call, requests, asked, failed>>

Idle == [kind |-> "register", step |-> "idle", db |-> NoDB]

Init ==
    /\ dbs = {} /\ unused = DB
    /\ opened = [d \in DB |-> FALSE]
    /\ ctx = [d \in DB |-> 0]
    /\ cancelled = [d \in DB |-> {}]
    /\ monitors = [d \in DB |-> [g \in Gen |-> 0]]
    /\ conn = [d \in DB |-> "nil"]
    /\ rtx = [d \in DB |-> NoTx]
    /\ call = [c \in Call |-> Idle]
    /\ requests = 0 /\ asked = {} /\ failed = {}

At(c, step) == call[c].step = step
Goto(c, step) == call' = [call EXCEPT ![c].step = step]
Return(c) == call' = [call EXCEPT ![c] = Idle]

Begin(c, kind, step, d) ==
    /\ At(c, "idle") /\ kind \in Requests /\ requests < MaxRequests
    /\ requests' = requests + 1 /\ asked' = asked \cup ({kind} \cap Late)
    /\ call' = [call EXCEPT ![c] = [kind |-> kind, step |-> step, db |-> d]]

Fault(f) == f \in Faults \ failed /\ Cardinality(failed) < MaxFaults /\ failed' = failed \cup {f}

-----------------------------------------------------------------------------
\* DB.Sync with the context x, live or not.

\* init fails after sql.Open and before its cleanup is installed: at once if
\* the context is cancelled.
InitHalf(d, live) ==
    /\ conn[d] = "nil"
    /\ IF live THEN Fault("early") ELSE UNCHANGED failed
    /\ conn' = [conn EXCEPT ![d] = "half"]
    /\ UNCHANGED rtx

\* init fails later and cleans up.
InitFails(d, live) ==
    /\ conn[d] = "nil" /\ live /\ Fault("init")
    /\ UNCHANGED <<conn, rtx>>

\* init succeeds, and takes the read lock unless db.rtx is set.
InitDone(d, x, live) ==
    /\ conn[d] = "nil" /\ live
    /\ conn' = [conn EXCEPT ![d] = "ready"]
    /\ rtx' = [rtx EXCEPT ![d] = IF @ = NoTx THEN x ELSE @]
    /\ UNCHANGED failed

\* init finds db.db set.  A sync that comes to a checkpoint gives the read
\* lock up and takes it again with its own context.
SyncWAL(d, x, live) ==
    /\ conn[d] # "nil"
    /\ \/ UNCHANGED <<rtx, failed>>
       \/ conn[d] = "ready" /\ live /\ rtx' = [rtx EXCEPT ![d] = x] /\ UNCHANGED failed
       \/ conn[d] = "ready" /\ live /\ rtx' = [rtx EXCEPT ![d] = NoTx] /\ Fault("lock")
    /\ UNCHANGED conn

Sync(d, x, live) ==
    /\ InitHalf(d, live) \/ InitFails(d, live) \/ InitDone(d, x, live) \/ SyncWAL(d, x, live)
    /\ UNCHANGED <<dbs, unused, opened, ctx, cancelled, requests, asked>>

-----------------------------------------------------------------------------
\* DB.Open, by a register or a start request.

\* An instance that is open is left alone; otherwise it gets a new context.
Open(c) ==
    LET d == call[c].db
    IN  /\ At(c, "open")
        /\ IF opened[d]
           THEN /\ IF call[c].kind = "register" THEN Goto(c, "check") ELSE Return(c)
                /\ UNCHANGED ctx
           ELSE ctx' = [ctx EXCEPT ![d] = @ + 1] /\ Goto(c, "launch")
        /\ UNCHANGED <<dbs, unused, opened, cancelled, monitors, conn, rtx, requests, asked, failed>>

OpenFails(c) ==
    /\ At(c, "launch") /\ Fault("open")
    /\ Return(c)
    /\ UNCHANGED <<dbs, unused, instance, requests, asked>>

Launch(c) ==
    LET d == call[c].db
    IN  /\ At(c, "launch")
        /\ monitors' = [monitors EXCEPT ![d][ctx[d]] = @ + 1]
        /\ Goto(c, "mark")
        /\ UNCHANGED <<dbs, unused, opened, ctx, cancelled, conn, rtx, requests, asked, failed>>

MarkOpened(c) ==
    /\ At(c, "mark")
    /\ opened' = [opened EXCEPT ![call[c].db] = TRUE]
    /\ IF call[c].kind = "register" THEN Goto(c, "check") ELSE Return(c)
    /\ UNCHANGED <<dbs, unused, ctx, cancelled, monitors, conn, rtx, requests, asked, failed>>

-----------------------------------------------------------------------------
\* DB.Close, by an unregister or a stop request or for a duplicate.

\* Mutant: the monitor is waited for and not told.
Cancel_NoCancel(c) ==
    /\ At(c, "cancel")
    /\ Goto(c, "wait")
    /\ UNCHANGED <<dbs, unused, instance, requests, asked, failed>>

\* db.cancel ends the read transaction begun with the instance's context.
Cancel(c) ==
    LET d == call[c].db
    IN  /\ At(c, "cancel")
        /\ cancelled' = [cancelled EXCEPT ![d] = @ \cup {ctx[d]}]
        /\ rtx' = [rtx EXCEPT ![d] = IF @ = <<"db", ctx[d]>> THEN Ended ELSE @]
        /\ Goto(c, "wait")
        /\ UNCHANGED <<dbs, unused, opened, ctx, monitors, conn, requests, asked, failed>>

\* db.wg.Wait; an instance that is initialized is synced once more.
Wait(c) ==
    LET d == call[c].db
    IN  /\ At(c, "wait")
        /\ \A g \in Gen : monitors[d][g] = 0
        /\ Goto(c, IF conn[d] = "nil" THEN "release" ELSE "final")
        /\ UNCHANGED <<dbs, unused, instance, requests, asked, failed>>

\* The last sync, which initializes the instance again if another Close has
\* come between.
LastSync(c) ==
    /\ At(c, "final")
    /\ Sync(call[c].db, <<"request", c>>, TRUE)
    /\ Goto(c, "release")
    /\ UNCHANGED monitors

\* The read lock is released and the handles are closed, without db.mu.
Release(c) ==
    LET d == call[c].db
    IN  /\ At(c, "release")
        /\ rtx' = [rtx EXCEPT ![d] = NoTx]
        /\ conn' = [conn EXCEPT ![d] = "nil"]
        /\ Goto(c, "closed")
        /\ UNCHANGED <<dbs, unused, opened, ctx, cancelled, monitors, requests, asked, failed>>

MarkClosed(c) ==
    LET d == call[c].db
    IN  /\ At(c, "closed")
        /\ opened' = [opened EXCEPT ![d] = FALSE]
        /\ rtx' = [rtx EXCEPT ![d] = NoTx]
        /\ Return(c)
        /\ UNCHANGED <<dbs, unused, ctx, cancelled, monitors, conn, requests, asked, failed>>

-----------------------------------------------------------------------------
\* The store's operations, each called by a handler of the server.

\* The next instance: they are all alike.
NewDB == CHOOSE d \in unused : TRUE

\* RegisterDB up to DB.Open: the path is not registered yet.
RegisterDB(c) ==
    /\ dbs = {} /\ unused # {}
    /\ LET d == NewDB IN Begin(c, "register", "open", d) /\ unused' = unused \ {d}
    /\ UNCHANGED <<dbs, instance, failed>>

\* Mutants: the second look is left out, or its loser stays open.
SecondCheck_None(c) ==
    /\ At(c, "check")
    /\ dbs' = dbs \cup {call[c].db} /\ Return(c)
    /\ UNCHANGED <<unused, instance, requests, asked, failed>>

SecondCheck_StaysOpen(c) ==
    /\ At(c, "check")
    /\ dbs' = IF dbs = {} THEN {call[c].db} ELSE dbs
    /\ Return(c)
    /\ UNCHANGED <<unused, instance, requests, asked, failed>>

\* The rest of RegisterDB: it looks again, and closes a duplicate.
SecondCheck(c) ==
    /\ At(c, "check")
    /\ IF dbs = {}
       THEN dbs' = {call[c].db} /\ Return(c)
       ELSE Goto(c, "cancel") /\ UNCHANGED dbs
    /\ UNCHANGED <<unused, instance, requests, asked, failed>>

\* UnregisterDB takes the instance off the list and closes it.
UnregisterDB(c) ==
    /\ \E d \in dbs : Begin(c, "unregister", "cancel", d) /\ dbs' = dbs \ {d}
    /\ UNCHANGED <<unused, instance, failed>>

\* EnableDB, DisableDB and SyncDB: FindDB, and then IsOpen.
FindDB(c) ==
    /\ \E d \in dbs : \E kind \in Kind \ {"register", "unregister"} : Begin(c, kind, "isopen", d)
    /\ UNCHANGED <<dbs, unused, instance, failed>>

IsOpen(c) ==
    LET open == opened[call[c].db]
        kind == call[c].kind
    IN  /\ At(c, "isopen")
        /\ \/ kind = "start" /\ ~open /\ Goto(c, "open")
           \/ kind = "stop" /\ open /\ Goto(c, "cancel")
           \/ kind \in {"sync", "timedsync"} /\ open /\ Goto(c, "sync")
           \/ (kind = "start") = open /\ Return(c)
        /\ UNCHANGED <<dbs, unused, instance, requests, asked, failed>>

\* SyncDB: with the server's context, or with one of the request's own.
SyncDB(c) ==
    /\ At(c, "sync")
    /\ Sync(call[c].db, IF call[c].kind = "sync" THEN <<"server", 0>> ELSE <<"request", c>>, TRUE)
    /\ Goto(c, "reply")
    /\ UNCHANGED monitors

\* The handler returns and cancels the context it has made.
Reply(c) ==
    LET d == call[c].db
    IN  /\ At(c, "reply")
        /\ rtx' = [rtx EXCEPT ![d] = IF @ = <<"request", c>> THEN Ended ELSE @]
        /\ Return(c)
        /\ UNCHANGED <<dbs, unused, opened, ctx, cancelled, monitors, conn, requests, asked, failed>>

-----------------------------------------------------------------------------
\* DB.monitor.  It waits for its context and for the ticker, and looks the
\* context up again after every round.

MonitorExit(d) ==
    /\ \E g \in cancelled[d] :
          monitors[d][g] > 0 /\ monitors' = [monitors EXCEPT ![d][g] = @ - 1]
    /\ UNCHANGED <<dbs, unused, opened, ctx, cancelled, conn, rtx, call, requests, asked, failed>>

MonitorTick(d) ==
    LET now == ctx[d]
    IN  /\ \E g \in Gen :
              /\ monitors[d][g] > 0
              /\ monitors' = IF g = now THEN monitors
                             ELSE [monitors EXCEPT ![d][g] = @ - 1, ![d][now] = @ + 1]
        /\ Sync(d, <<"db", now>>, now \notin cancelled[d])
        /\ UNCHANGED call

-----------------------------------------------------------------------------
CallStep(c) ==
    \/ Open(c) \/ OpenFails(c) \/ Launch(c) \/ MarkOpened(c) \/ SecondCheck(c)
    \/ Cancel(c) \/ Wait(c) \/ LastSync(c) \/ Release(c) \/ MarkClosed(c)
    \/ IsOpen(c) \/ SyncDB(c) \/ Reply(c)

\* Nobody has to make a request.
Stopped == (\A c \in Call : At(c, "idle")) /\ UNCHANGED vars

Next ==
    \/ \E c \in Call : RegisterDB(c) \/ UnregisterDB(c) \/ FindDB(c) \/ CallStep(c)
    \/ \E d \in DB : MonitorExit(d) \/ MonitorTick(d)
    \/ Stopped

Spec == Init /\ [][Next]_vars

\* Goroutines run, and a monitor's ticker fires.  No request has to come.
Fairness ==
    /\ \A c \in Call : WF_vars(CallStep(c))
    /\ \A d \in DB : WF_vars(MonitorExit(d)) /\ WF_vars(MonitorTick(d))

FairSpec == Spec /\ Fairness

-----------------------------------------------------------------------------
\* At most one instance of a path is registered, however registrations,
\* removals, starts and stops overlap: RegisterDB opens its instance without
\* s.mu and looks again.
OneRegistered == \A d, e \in dbs : d = e

Busy(d) == \E c \in Call : call[c].db = d

\* With registrations, removals and stops only, an instance that is not
\* registered and that no request works on is not open, has no monitor and
\* holds nothing of SQLite: UnregisterDB "stops monitoring the database at the
\* provided path and closes it", and RegisterDB closes a duplicate.  A start or
\* a sync may act on an instance that was removed after it was found.
NoStray ==
    asked = {} =>
        \A d \in DB \ dbs :
            ~Busy(d) => /\ ~opened[d] /\ conn[d] = "nil" /\ rtx[d] = NoTx
                        /\ \A g \in Gen : monitors[d][g] = 0

\* Every request returns, unless there is a start: a Close waits for no monitor
\* but the ones it has told to end.
RequestsReturn ==
    \A c \in Call : call[c].step # "idle" ~> (call[c].step = "idle" \/ "start" \in asked)

-----------------------------------------------------------------------------
(* What is said of a DB and not kept.                                      *)

Closing(d) == \E c \in Call : call[c].db = d /\ call[c].step \in {"wait", "final", "release", "closed"}

\* "Start a long-running read transaction to prevent other transactions from
\* checkpointing": an open database that init is through with holds it until it
\* is closed.  A sync request with a context of its own, which is what a request
\* that waits has, may come to a checkpoint and take the transaction again in
\* that context; it ends with the request, and db.rtx stays set.
ReadLockHeld ==
    \A d \in DB : opened[d] /\ conn[d] = "ready" /\ ~Closing(d) => rtx[d] \notin {NoTx, Ended}

\* "Initialization can retry on next sync": a database that is open is
\* initialized in the end, or closed.  init may fail between sql.Open, which
\* sets db.db, and the installation of its cleanup; no sync gets past
\* its first test after that.
InitIsRetried == \A d \in DB : opened[d] ~> (conn[d] = "ready" \/ ~opened[d])

=============================================================================
