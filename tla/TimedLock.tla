----------------------------- MODULE TimedLock -----------------------------
(***************************************************************************)
(* What leaser.go's Leaser promises its callers: a lock that lapses.  At   *)
(* most one client has it; it is granted for at most TTL from now, only    *)
(* its owner extends it or gives it back, and time alone takes it away.    *)
(***************************************************************************)
EXTENDS Integers

CONSTANTS Client, TTL

VARIABLES
    now,  \* the clock
    held  \* the grant that is in force: empty, or one owner and its expiry

Init == now = 0 /\ held = {}

Grant(c) ==
    /\ held = {}
    /\ \E e \in now..(now + TTL) : held' = {[owner |-> c, exp |-> e]}
    /\ UNCHANGED now

Extend(c) ==
    /\ \E g \in held : \E e \in g.exp..(now + TTL) :
          g.owner = c /\ held' = {[owner |-> c, exp |-> e]}
    /\ UNCHANGED now

Release(c) ==
    /\ \E g \in held : g.owner = c
    /\ held' = {}
    /\ UNCHANGED now

Lapse ==
    /\ now' = now + 1
    /\ held' = {g \in held : g.exp >= now + 1}

Next == Lapse \/ \E c \in Client : Grant(c) \/ Extend(c) \/ Release(c)

Spec == Init /\ [][Next]_<<now, held>>

=============================================================================
