---------------------------- MODULE StoreProofs ----------------------------
(***************************************************************************)
(* The requests to a store, for every set of instances and goroutines and  *)
(* any number of requests and failures.                                    *)
(***************************************************************************)
EXTENDS Store, TLAPS

Steps ==
    {"idle", "open", "launch", "mark", "check", "cancel", "wait", "final", "release", "closed",
     "isopen", "sync", "reply"}

\* What db.rtx may be.
Txs ==
    {NoTx, Ended, <<"server", 0>>} \cup {<<"db", g>> : g \in Nat} \cup {<<"request", c>> : c \in Call}

CallTyped ==
    /\ call \in [Call -> [kind : Kind, step : Steps, db : DB \cup {NoDB}]]
    /\ \A c \in Call :
          /\ call[c].db = NoDB <=> call[c].step = "idle"
          /\ call[c].step \in {"open", "launch", "mark"} => call[c].kind \in {"register", "start"}
          /\ call[c].step = "check" => call[c].kind = "register"
          /\ call[c].step = "isopen" => call[c].kind \notin {"register", "unregister"}
          /\ call[c].step \in {"sync", "reply"} => call[c].kind \in {"sync", "timedsync"}
          /\ call[c].step # "idle" /\ call[c].kind \in Late => call[c].kind \in asked

TypeInv ==
    /\ dbs \subseteq DB /\ unused \subseteq DB
    /\ opened \in [DB -> BOOLEAN]
    /\ ctx \in [DB -> Nat]
    /\ cancelled \in [DB -> SUBSET Nat]
    /\ monitors \in [DB -> [Gen -> Nat]]
    /\ conn \in [DB -> {"nil", "ready", "half"}]
    /\ rtx \in [DB -> Txs]
    /\ CallTyped

\* An instance on which nothing has happened.
Fresh(d) ==
    /\ ~opened[d] /\ conn[d] = "nil" /\ rtx[d] = NoTx /\ cancelled[d] = {}
    /\ \A g \in Gen : monitors[d][g] = 0

\* The call is inside RegisterDB, with an instance nobody else can find.
Registering(c) == call[c].kind = "register" /\ call[c].step \in {"open", "launch", "mark", "check"}

\* Before it is registered an instance belongs to the call that made it.
OwnInv ==
    /\ \A d \in unused : Fresh(d) /\ d \notin dbs /\ ~Busy(d)
    /\ \A c \in Call : Registering(c) =>
          /\ call[c].db \notin dbs \cup unused
          /\ \A x \in Call \ {c} : call[x].db # call[c].db
          /\ cancelled[call[c].db] = {}
          /\ call[c].step \in {"open", "launch"} => Fresh(call[c].db)

\* The call will still release what its instance holds.
Holding(c) == Registering(c) \/ call[c].step \in {"cancel", "wait", "final", "release"}

\* What an instance off the list still has is in the care of a call.  Once a
\* Close has waited, the monitors are gone for good: only a start makes new
\* ones for an instance that was open before.
CareInv ==
    asked = {} =>
        /\ \A c \in Call : call[c].step \in {"final", "release", "closed"} =>
              \A g \in Gen : monitors[call[c].db][g] = 0
        /\ \A d \in DB \ dbs :
              /\ (\E g \in Gen : monitors[d][g] # 0) \/ conn[d] # "nil" \/ rtx[d] # NoTx =>
                    \E c \in Call : call[c].db = d /\ Holding(c)
              /\ opened[d] => \E c \in Call : call[c].db = d /\ (Holding(c) \/ call[c].step = "closed")

IInv == TypeInv /\ OneRegistered /\ OwnInv /\ CareInv

-----------------------------------------------------------------------------
(* The operators.                                                          *)

LEMMA NewDBIsUnused == unused # {} => NewDB \in unused
BY DEF NewDB

LEMMA InitHolds == Init => IInv
<1> SUFFICES ASSUME Init PROVE IInv
  OBVIOUS
<1>1. TypeInv
  BY StoreAssumption DEF Init, TypeInv, CallTyped, Steps, Txs, Kind, Idle, NoTx
<1>2. OneRegistered /\ OwnInv /\ CareInv 
  BY StoreAssumption DEF Init, OneRegistered, OwnInv, CareInv, Fresh, Busy, Registering, Idle
<1> QED
  BY <1>1, <1>2 DEF IInv

\* A call on no instance is idle, and one on an instance works.
LEMMA CallIsTyped ==
    ASSUME TypeInv, NEW c \in Call, call[c].step # "idle"
    PROVE  call[c].db \in DB /\ call[c].kind \in Kind
BY DEF TypeInv, CallTyped

\* A sync changes the handle and the read transaction of its own instance.
LEMMA SyncTouches ==
    ASSUME TypeInv, NEW d \in DB, NEW x \in Txs, NEW live \in BOOLEAN, Sync(d, x, live)
    PROVE  /\ conn' \in [DB -> {"nil", "ready", "half"}] /\ rtx' \in [DB -> Txs]
           /\ \A e \in DB \ {d} : conn'[e] = conn[e] /\ rtx'[e] = rtx[e]
           /\ failed \subseteq failed'
           /\ UNCHANGED <<dbs, unused, opened, ctx, cancelled, requests, asked>>
<1> USE DEF Sync
<1>1. CASE InitHalf(d, live)
  BY <1>1 DEF TypeInv, InitHalf, Fault
<1>2. CASE InitFails(d, live)
  BY <1>2 DEF TypeInv, InitFails, Fault
<1>3. CASE InitDone(d, x, live)
  BY <1>3 DEF TypeInv, InitDone
<1>4. CASE SyncWAL(d, x, live)
  BY <1>4 DEF TypeInv, SyncWAL, Fault, Txs
<1> QED
  BY <1>1, <1>2, <1>3, <1>4

LEMMA GotoMoves ==
    ASSUME TypeInv, NEW c \in Call, call[c].step # "idle", NEW s \in Steps \ {"idle"}, Goto(c, s), asked' = asked,
           s \in {"open", "launch", "mark"} => call[c].kind \in {"register", "start"},
           s = "check" => call[c].kind = "register",
           s \in {"sync", "reply"} => call[c].kind \in {"sync", "timedsync"},
           s # "isopen"
    PROVE  /\ CallTyped'
           /\ \A x \in Call \ {c} : call'[x] = call[x]
           /\ call'[c].step = s /\ call'[c].kind = call[c].kind /\ call'[c].db = call[c].db
BY DEF TypeInv, CallTyped, Goto

LEMMA ReturnMoves ==
    ASSUME TypeInv, NEW c \in Call, Return(c), asked' = asked
    PROVE  /\ CallTyped'
           /\ \A x \in Call \ {c} : call'[x] = call[x]
           /\ call'[c].step = "idle" /\ call'[c].db = NoDB
BY StoreAssumption DEF TypeInv, CallTyped, Return, Idle, Steps, Kind

\* A step of the call c: nothing changes but c and its instance d.
Alone(c, d) ==
    /\ \A x \in Call \ {c} : call'[x] = call[x]
    /\ call'[c].db \in {d, NoDB}
    /\ \A e \in DB \ {d} :
          /\ opened'[e] = opened[e] /\ cancelled'[e] = cancelled[e]
          /\ monitors'[e] = monitors[e] /\ conn'[e] = conn[e] /\ rtx'[e] = rtx[e]

\* What such a step owes to each part of the invariant.
LEMMA OwnKeeps ==
    ASSUME IInv, NEW c \in Call, NEW d \in DB, d = call[c].db, Alone(c, d),
           unused' = unused, dbs' \subseteq dbs \cup {d},
           Registering(c)' => /\ Registering(c) /\ dbs' = dbs /\ cancelled'[d] = {}
                              /\ call'[c].step \in {"open", "launch"} => Fresh(d)',
           call'[c].step # "idle" => call'[c].db = d
    PROVE  OwnInv'
<1>1. ASSUME NEW e \in unused' PROVE (Fresh(e) /\ e \notin dbs /\ ~Busy(e))'
  <2>1. e \in DB /\ e # d /\ Fresh(e) /\ e \notin dbs /\ ~Busy(e)
    BY DEF IInv, TypeInv, OwnInv, Busy
  <2> QED
    BY <2>1, StoreAssumption DEF Fresh, Busy, Alone
<1>2. ASSUME NEW x \in Call, Registering(x)'
      PROVE  /\ (call[x].db \notin dbs \cup unused)'
             /\ \A y \in Call \ {x} : call'[y].db # call'[x].db
             /\ (cancelled[call[x].db] = {})'
             /\ (call[x].step \in {"open", "launch"} => Fresh(call[x].db))'
  <2>1. Registering(x) /\ call'[x].db = call[x].db
    BY <1>2 DEF Registering, Alone
  <2>2. call[x].db \in DB
    BY <2>1, CallIsTyped DEF IInv, Registering
  <2>3. \A y \in Call \ {x} : call'[y].db # call'[x].db
    BY <2>1, <2>2, StoreAssumption DEF IInv, OwnInv, Alone
  <2>4. CASE x = c
    BY <1>2, <2>1, <2>3, <2>4 DEF IInv, OwnInv
  <2>5. CASE x # c
    <3>1. call'[x] = call[x] /\ call[x].db # d
      BY <2>1, <2>5 DEF IInv, OwnInv, Alone
    <3>2. Fresh(call[x].db)' <=> Fresh(call[x].db)
      BY <2>2, <3>1 DEF Fresh, Alone
    <3> QED
      BY <2>1, <2>2, <2>3, <3>1, <3>2 DEF IInv, OwnInv, Alone
  <2> QED
    BY <2>4, <2>5
<1> QED
  BY <1>1, <1>2 DEF OwnInv

LEMMA CareKeeps ==
    ASSUME IInv, NEW c \in Call, NEW d \in DB, d = call[c].db, Alone(c, d),
           asked' = asked, dbs' = dbs \/ dbs = {},
           asked = {} =>
             /\ call'[c].step \in {"final", "release", "closed"} =>
                   call'[c].db = d /\ \A g \in Gen : monitors'[d][g] = 0
             /\ \A g \in Gen : monitors'[d][g] # 0 => monitors[d][g] # 0 \/ Registering(c)
             /\ d \notin dbs' /\ ((\E g \in Gen : monitors'[d][g] # 0) \/ conn'[d] # "nil" \/ rtx'[d] # NoTx) =>
                   (\E x \in Call : call[x].db = d /\ Holding(x) /\ x # c) \/ (Holding(c)' /\ call'[c].db = d)
             /\ d \notin dbs' /\ opened'[d] =>
                   \/ \E x \in Call : /\ call[x].db = d /\ x # c
                                      /\ Holding(x) \/ call[x].step = "closed"
                   \/ (Holding(c) \/ call[c].step = "closed")' /\ call'[c].db = d
    PROVE  CareInv'
<1> SUFFICES ASSUME asked = {} PROVE CareInv'
  BY DEF CareInv
<1>1. ASSUME NEW x \in Call, call'[x].step \in {"final", "release", "closed"}, NEW g \in Gen
      PROVE  monitors'[call'[x].db][g] = 0
  <2>1. CASE x = c
    BY <1>1, <2>1
  <2>2. CASE x # c
    <3>1. call'[x] = call[x] /\ call[x].db \in DB
      BY <1>1, <2>2, CallIsTyped DEF Alone, IInv
    <3>2. monitors[call[x].db][g] = 0
      BY <1>1, <3>1 DEF IInv, CareInv
    <3>3. CASE call[x].db = d
      BY <2>2, <3>1, <3>2, <3>3 DEF IInv, OwnInv
    <3>4. CASE call[x].db # d
      BY <3>1, <3>2, <3>4 DEF Alone
    <3> QED
      BY <3>3, <3>4
  <2> QED
    BY <2>1, <2>2
<1>2. \A x \in Call \ {c} : /\ call'[x] = call[x]
                            /\ Holding(x)' <=> Holding(x)
  BY DEF Alone, Holding, Registering
<1>3. ASSUME NEW e \in DB \ dbs',
             (\E g \in Gen : monitors'[e][g] # 0) \/ conn'[e] # "nil" \/ rtx'[e] # NoTx
      PROVE  \E x \in Call : (call[x].db = e /\ Holding(x))'
  <2>1. CASE e = d
    BY <1>2, <1>3, <2>1
  <2>2. CASE e # d
    <3>1. PICK x \in Call : call[x].db = e /\ Holding(x)
      BY <1>3, <2>2 DEF IInv, CareInv, Alone
    <3> QED
      BY <1>2, <2>2, <3>1
  <2> QED
    BY <2>1, <2>2
<1>4. ASSUME NEW e \in DB \ dbs', opened'[e]
      PROVE  \E x \in Call : (call[x].db = e /\ (Holding(x) \/ call[x].step = "closed"))'
  <2>1. CASE e = d
    BY <1>2, <1>4, <2>1
  <2>2. CASE e # d
    <3>1. PICK x \in Call : call[x].db = e /\ (Holding(x) \/ call[x].step = "closed")
      BY <1>4, <2>2 DEF IInv, CareInv, Alone
    <3> QED
      BY <1>2, <2>2, <3>1
  <2> QED
    BY <2>1, <2>2
<1> QED
  BY <1>1, <1>3, <1>4 DEF CareInv

-----------------------------------------------------------------------------
(* DB.Open and DB.Close.                                                   *)

LEMMA OpenKeeps == ASSUME IInv, NEW c \in Call, Open(c) PROVE IInv'
<1>1. PICK d \in DB : d = call[c].db /\ call[c].step = "open"
  BY CallIsTyped DEF IInv, Open, At
<1>2. /\ CallTyped'
      /\ \A x \in Call \ {c} : call'[x] = call[x]
      /\ \/ ~opened[d] /\ call'[c].step = "launch" /\ call'[c].kind = call[c].kind /\ call'[c].db = d
         \/ call[c].kind = "start" /\ call'[c].step = "idle" /\ call'[c].db = NoDB
  <2>1. CASE opened[d]
    BY <1>1, <2>1, ReturnMoves DEF IInv, TypeInv, CallTyped, Steps, OwnInv, Fresh, Registering, Open, instance
  <2>2. CASE ~(opened[d])
    BY <1>1, <2>2, GotoMoves DEF IInv, TypeInv, CallTyped, Steps, OwnInv, Fresh, Registering, Open, instance
  <2> QED
    BY <2>1, <2>2
<1>3. Alone(c, d)
  BY <1>1, <1>2 DEF IInv, TypeInv, Alone, Open
<1>4. TypeInv'
  BY <1>1, <1>2 DEF IInv, TypeInv, Open
<1>5. OneRegistered'
  BY StoreAssumption DEF IInv, OneRegistered, Open
<1>6. OwnInv'
  BY <1>1, <1>2, <1>3, OwnKeeps DEF IInv, OwnInv, Fresh, Registering, Open
<1>7. CareInv'
  <2> SUFFICES ASSUME asked = {} PROVE CareInv'
    BY DEF Open, CareInv
  <2>1. Registering(c)
    BY <1>1 DEF IInv, TypeInv, CallTyped, Registering, Late, Kind
  <2>2. call'[c].step \in {"final", "release", "closed"} =>
           call'[c].db = d /\ \A g \in Gen : monitors'[d][g] = 0
    BY <1>1, <1>2, <2>1 DEF IInv, TypeInv, CareInv, Open
  <2>3. \A g \in Gen : monitors'[d][g] # 0 => monitors[d][g] # 0 \/ Registering(c)
    BY <1>1, <1>2, <2>1 DEF IInv, TypeInv, Open
  <2>4. ASSUME d \notin dbs', (\E g \in Gen : monitors'[d][g] # 0) \/ conn'[d] # "nil" \/ rtx'[d] # NoTx
        PROVE  (\E x \in Call : call[x].db = d /\ Holding(x) /\ x # c) \/ (Holding(c)' /\ call'[c].db = d)
    BY <1>1, <1>2, <2>1, <2>4 DEF IInv, TypeInv, CareInv, OwnInv, Fresh, Holding, Registering, Open
  <2>5. ASSUME d \notin dbs', opened'[d]
        PROVE  \/ \E x \in Call : /\ call[x].db = d /\ x # c
                                  /\ Holding(x) \/ call[x].step = "closed"
               \/ (Holding(c) \/ call[c].step = "closed")' /\ call'[c].db = d
    BY <1>1, <1>2, <2>1, <2>5 DEF IInv, TypeInv, CareInv, OwnInv, Fresh, Holding, Registering, Open
  <2>6. asked' = asked /\ (dbs' = dbs \/ dbs = {})
    BY DEF Open
  <2> QED
    BY <1>1, <1>3, <2>2, <2>3, <2>4, <2>5, <2>6, CareKeeps
<1> QED
  BY <1>4, <1>5, <1>6, <1>7 DEF IInv

\* An Open that fails leaves the instance as it was.
LEMMA OpenFailsKeeps == ASSUME IInv, NEW c \in Call, OpenFails(c) PROVE IInv'
<1>1. PICK d \in DB : d = call[c].db /\ call[c].step = "launch"
  BY CallIsTyped DEF IInv, OpenFails, At
<1>2. /\ CallTyped'
      /\ \A x \in Call \ {c} : call'[x] = call[x]
      /\ call'[c].step = "idle" /\ call'[c].db = NoDB
  BY ReturnMoves DEF IInv, OpenFails
<1>3. Alone(c, d)
  BY <1>1, <1>2 DEF IInv, TypeInv, Alone, OpenFails, Fault, instance
<1>4. TypeInv'
  BY <1>1, <1>2 DEF IInv, TypeInv, OpenFails, Fault, instance
<1>5. OneRegistered'
  BY StoreAssumption DEF IInv, OneRegistered, OpenFails
<1>6. OwnInv'
  BY <1>1, <1>2, <1>3, OwnKeeps DEF IInv, OwnInv, Fresh, Registering, OpenFails, Fault, instance
<1>7. CareInv'
  <2> SUFFICES ASSUME asked = {} PROVE CareInv'
    BY DEF OpenFails, CareInv, Fault, instance
  <2>1. Registering(c)
    BY <1>1 DEF IInv, TypeInv, CallTyped, Registering, Late, Kind
  <2>2. call'[c].step \in {"final", "release", "closed"} =>
           call'[c].db = d /\ \A g \in Gen : monitors'[d][g] = 0
    BY <1>1, <1>2, <2>1 DEF IInv, TypeInv, CareInv, OpenFails, Fault, instance
  <2>3. \A g \in Gen : monitors'[d][g] # 0 => monitors[d][g] # 0 \/ Registering(c)
    BY <1>1, <1>2, <2>1 DEF IInv, TypeInv, OpenFails, Fault, instance
  <2>4. ASSUME d \notin dbs', (\E g \in Gen : monitors'[d][g] # 0) \/ conn'[d] # "nil" \/ rtx'[d] # NoTx
        PROVE  (\E x \in Call : call[x].db = d /\ Holding(x) /\ x # c) \/ (Holding(c)' /\ call'[c].db = d)
    BY <1>1, <1>2, <2>1, <2>4 DEF IInv, TypeInv, CareInv, OwnInv, Fresh, Holding, Registering, OpenFails, Fault, instance
  <2>5. ASSUME d \notin dbs', opened'[d]
        PROVE  \/ \E x \in Call : /\ call[x].db = d /\ x # c
                                  /\ Holding(x) \/ call[x].step = "closed"
               \/ (Holding(c) \/ call[c].step = "closed")' /\ call'[c].db = d
    BY <1>1, <1>2, <2>1, <2>5 DEF IInv, TypeInv, CareInv, OwnInv, Fresh, Holding, Registering, OpenFails, Fault, instance
  <2>6. asked' = asked /\ (dbs' = dbs \/ dbs = {})
    BY DEF OpenFails, Fault, instance
  <2> QED
    BY <1>1, <1>3, <2>2, <2>3, <2>4, <2>5, <2>6, CareKeeps
<1> QED
  BY <1>4, <1>5, <1>6, <1>7 DEF IInv

LEMMA LaunchKeeps == ASSUME IInv, NEW c \in Call, Launch(c) PROVE IInv'
<1>1. PICK d \in DB : d = call[c].db /\ call[c].step = "launch"
  BY CallIsTyped DEF IInv, Launch, At
<1>2. /\ CallTyped'
      /\ \A x \in Call \ {c} : call'[x] = call[x]
      /\ call'[c].step = "mark" /\ call'[c].kind = call[c].kind /\ call'[c].db = d
  BY <1>1, GotoMoves DEF IInv, TypeInv, CallTyped, Launch, Steps
<1>3. Alone(c, d)
  BY <1>1, <1>2 DEF IInv, TypeInv, Alone, Launch
<1>4. TypeInv'
  <2>1. [monitors[d] EXCEPT ![ctx[d]] = @ + 1] \in [Gen -> Nat]
    <3>1. monitors[d] \in [Gen -> Nat]
      BY <1>1 DEF IInv, TypeInv
    <3>2. CASE ctx[d] \in Gen
      BY <3>1, <3>2
    <3>3. CASE ctx[d] \notin Gen
      BY <3>1, <3>3
    <3> QED
      BY <3>2, <3>3
  <2>2. monitors' \in [DB -> [Gen -> Nat]]
    BY <1>1, <2>1 DEF IInv, TypeInv, Launch
  <2> QED
    BY <1>2, <2>2 DEF IInv, TypeInv, Launch
<1>5. OneRegistered'
  BY StoreAssumption DEF IInv, OneRegistered, Launch
<1>6. OwnInv'
  BY <1>1, <1>2, <1>3, OwnKeeps DEF IInv, OwnInv, Fresh, Registering, Launch
<1>7. CareInv'
  <2> SUFFICES ASSUME asked = {} PROVE CareInv'
    BY DEF Launch, CareInv
  <2>1. Registering(c)
    BY <1>1 DEF IInv, TypeInv, CallTyped, Registering, Late, Kind
  <2>2. call'[c].step \in {"final", "release", "closed"} =>
           call'[c].db = d /\ \A g \in Gen : monitors'[d][g] = 0
    BY <1>1, <1>2, <2>1 DEF IInv, TypeInv, CareInv, Launch
  <2>3. \A g \in Gen : monitors'[d][g] # 0 => monitors[d][g] # 0 \/ Registering(c)
    BY <1>1, <1>2, <2>1 DEF IInv, TypeInv, Launch
  <2>4. ASSUME d \notin dbs', (\E g \in Gen : monitors'[d][g] # 0) \/ conn'[d] # "nil" \/ rtx'[d] # NoTx
        PROVE  (\E x \in Call : call[x].db = d /\ Holding(x) /\ x # c) \/ (Holding(c)' /\ call'[c].db = d)
    BY <1>1, <1>2, <2>1, <2>4 DEF IInv, TypeInv, CareInv, OwnInv, Fresh, Holding, Registering, Launch
  <2>5. ASSUME d \notin dbs', opened'[d]
        PROVE  \/ \E x \in Call : /\ call[x].db = d /\ x # c
                                  /\ Holding(x) \/ call[x].step = "closed"
               \/ (Holding(c) \/ call[c].step = "closed")' /\ call'[c].db = d
    BY <1>1, <1>2, <2>1, <2>5 DEF IInv, TypeInv, CareInv, OwnInv, Fresh, Holding, Registering, Launch
  <2>6. asked' = asked /\ (dbs' = dbs \/ dbs = {})
    BY DEF Launch
  <2> QED
    BY <1>1, <1>3, <2>2, <2>3, <2>4, <2>5, <2>6, CareKeeps
<1> QED
  BY <1>4, <1>5, <1>6, <1>7 DEF IInv

LEMMA MarkOpenedKeeps == ASSUME IInv, NEW c \in Call, MarkOpened(c) PROVE IInv'
<1>1. PICK d \in DB : d = call[c].db /\ call[c].step = "mark"
  BY CallIsTyped DEF IInv, MarkOpened, At
<1>2. /\ CallTyped'
      /\ \A x \in Call \ {c} : call'[x] = call[x]
      /\ \/ call[c].kind = "register" /\ call'[c].step = "check" /\ call'[c].kind = call[c].kind /\ call'[c].db = d
         \/ call[c].kind = "start" /\ call'[c].step = "idle" /\ call'[c].db = NoDB
  <2>1. CASE call[c].kind = "register"
    BY <1>1, <2>1, GotoMoves DEF IInv, TypeInv, CallTyped, Steps, OwnInv, Fresh, Registering, MarkOpened, instance
  <2>2. CASE ~(call[c].kind = "register")
    BY <1>1, <2>2, ReturnMoves DEF IInv, TypeInv, CallTyped, Steps, OwnInv, Fresh, Registering, MarkOpened, instance
  <2> QED
    BY <2>1, <2>2
<1>3. Alone(c, d)
  BY <1>1, <1>2 DEF IInv, TypeInv, Alone, MarkOpened
<1>4. TypeInv'
  BY <1>1, <1>2 DEF IInv, TypeInv, MarkOpened
<1>5. OneRegistered'
  BY StoreAssumption DEF IInv, OneRegistered, MarkOpened
<1>6. OwnInv'
  BY <1>1, <1>2, <1>3, OwnKeeps DEF IInv, OwnInv, Fresh, Registering, MarkOpened
<1>7. CareInv'
  <2> SUFFICES ASSUME asked = {} PROVE CareInv'
    BY DEF MarkOpened, CareInv
  <2>1. Registering(c)
    BY <1>1 DEF IInv, TypeInv, CallTyped, Registering, Late, Kind
  <2>2. call'[c].step \in {"final", "release", "closed"} =>
           call'[c].db = d /\ \A g \in Gen : monitors'[d][g] = 0
    BY <1>1, <1>2, <2>1 DEF IInv, TypeInv, CareInv, MarkOpened
  <2>3. \A g \in Gen : monitors'[d][g] # 0 => monitors[d][g] # 0 \/ Registering(c)
    BY <1>1, <1>2, <2>1 DEF IInv, TypeInv, MarkOpened
  <2>4. ASSUME d \notin dbs', (\E g \in Gen : monitors'[d][g] # 0) \/ conn'[d] # "nil" \/ rtx'[d] # NoTx
        PROVE  (\E x \in Call : call[x].db = d /\ Holding(x) /\ x # c) \/ (Holding(c)' /\ call'[c].db = d)
    BY <1>1, <1>2, <2>1, <2>4 DEF IInv, TypeInv, CareInv, OwnInv, Fresh, Holding, Registering, MarkOpened
  <2>5. ASSUME d \notin dbs', opened'[d]
        PROVE  \/ \E x \in Call : /\ call[x].db = d /\ x # c
                                  /\ Holding(x) \/ call[x].step = "closed"
               \/ (Holding(c) \/ call[c].step = "closed")' /\ call'[c].db = d
    BY <1>1, <1>2, <2>1, <2>5 DEF IInv, TypeInv, CareInv, OwnInv, Fresh, Holding, Registering, MarkOpened
  <2>6. asked' = asked /\ (dbs' = dbs \/ dbs = {})
    BY DEF MarkOpened
  <2> QED
    BY <1>1, <1>3, <2>2, <2>3, <2>4, <2>5, <2>6, CareKeeps
<1> QED
  BY <1>4, <1>5, <1>6, <1>7 DEF IInv

LEMMA CancelKeeps == ASSUME IInv, NEW c \in Call, Cancel(c) PROVE IInv'
<1>1. PICK d \in DB : d = call[c].db /\ call[c].step = "cancel"
  BY CallIsTyped DEF IInv, Cancel, At
<1>2. /\ CallTyped'
      /\ \A x \in Call \ {c} : call'[x] = call[x]
      /\ call'[c].step = "wait" /\ call'[c].kind = call[c].kind /\ call'[c].db = d
  BY <1>1, GotoMoves DEF IInv, TypeInv, CallTyped, Cancel, Steps
<1>3. Alone(c, d)
  BY <1>1, <1>2 DEF IInv, TypeInv, Alone, Cancel
<1>4. TypeInv'
  BY <1>1, <1>2 DEF IInv, TypeInv, Cancel, Txs, Ended
<1>5. OneRegistered'
  BY StoreAssumption DEF IInv, OneRegistered, Cancel
<1>6. OwnInv'
  BY <1>1, <1>2, <1>3, OwnKeeps DEF IInv, OwnInv, Fresh, Registering, Cancel
<1>7. CareInv'
  <2> SUFFICES ASSUME asked = {} PROVE CareInv'
    BY DEF Cancel, CareInv
  <2>2. call'[c].step \in {"final", "release", "closed"} =>
           call'[c].db = d /\ \A g \in Gen : monitors'[d][g] = 0
    BY <1>1, <1>2 DEF IInv, TypeInv, CareInv, Cancel
  <2>3. \A g \in Gen : monitors'[d][g] # 0 => monitors[d][g] # 0 \/ Registering(c)
    BY <1>1, <1>2 DEF IInv, TypeInv, Cancel
  <2>4. ASSUME d \notin dbs', (\E g \in Gen : monitors'[d][g] # 0) \/ conn'[d] # "nil" \/ rtx'[d] # NoTx
        PROVE  (\E x \in Call : call[x].db = d /\ Holding(x) /\ x # c) \/ (Holding(c)' /\ call'[c].db = d)
    BY <1>1, <1>2, <2>4 DEF IInv, TypeInv, CareInv, OwnInv, Fresh, Holding, Registering, Cancel
  <2>5. ASSUME d \notin dbs', opened'[d]
        PROVE  \/ \E x \in Call : /\ call[x].db = d /\ x # c
                                  /\ Holding(x) \/ call[x].step = "closed"
               \/ (Holding(c) \/ call[c].step = "closed")' /\ call'[c].db = d
    BY <1>1, <1>2, <2>5 DEF IInv, TypeInv, CareInv, OwnInv, Fresh, Holding, Registering, Cancel
  <2>6. asked' = asked /\ (dbs' = dbs \/ dbs = {})
    BY DEF Cancel
  <2> QED
    BY <1>1, <1>3, <2>2, <2>3, <2>4, <2>5, <2>6, CareKeeps
<1> QED
  BY <1>4, <1>5, <1>6, <1>7 DEF IInv

LEMMA WaitKeeps == ASSUME IInv, NEW c \in Call, Wait(c) PROVE IInv'
<1>1. PICK d \in DB : d = call[c].db /\ call[c].step = "wait"
  BY CallIsTyped DEF IInv, Wait, At
<1>2. /\ CallTyped'
      /\ \A x \in Call \ {c} : call'[x] = call[x]
      /\ call'[c].step \in {"final", "release"} /\ call'[c].kind = call[c].kind /\ call'[c].db = d
  BY <1>1, GotoMoves DEF IInv, TypeInv, CallTyped, Wait, Steps
<1>3. Alone(c, d)
  BY <1>1, <1>2 DEF IInv, TypeInv, Alone, Wait, instance
<1>4. TypeInv'
  BY <1>1, <1>2 DEF IInv, TypeInv, Wait, instance
<1>5. OneRegistered'
  BY StoreAssumption DEF IInv, OneRegistered, Wait
<1>6. OwnInv'
  BY <1>1, <1>2, <1>3, OwnKeeps DEF IInv, OwnInv, Fresh, Registering, Wait, instance
<1>7. CareInv'
  <2> SUFFICES ASSUME asked = {} PROVE CareInv'
    BY DEF Wait, CareInv, instance
  <2>2. call'[c].step \in {"final", "release", "closed"} =>
           call'[c].db = d /\ \A g \in Gen : monitors'[d][g] = 0
    BY <1>1, <1>2 DEF IInv, TypeInv, CareInv, Wait, instance
  <2>3. \A g \in Gen : monitors'[d][g] # 0 => monitors[d][g] # 0 \/ Registering(c)
    BY <1>1, <1>2 DEF IInv, TypeInv, Wait, instance
  <2>4. ASSUME d \notin dbs', (\E g \in Gen : monitors'[d][g] # 0) \/ conn'[d] # "nil" \/ rtx'[d] # NoTx
        PROVE  (\E x \in Call : call[x].db = d /\ Holding(x) /\ x # c) \/ (Holding(c)' /\ call'[c].db = d)
    BY <1>1, <1>2, <2>4 DEF IInv, TypeInv, CareInv, OwnInv, Fresh, Holding, Registering, Wait, instance
  <2>5. ASSUME d \notin dbs', opened'[d]
        PROVE  \/ \E x \in Call : /\ call[x].db = d /\ x # c
                                  /\ Holding(x) \/ call[x].step = "closed"
               \/ (Holding(c) \/ call[c].step = "closed")' /\ call'[c].db = d
    BY <1>1, <1>2, <2>5 DEF IInv, TypeInv, CareInv, OwnInv, Fresh, Holding, Registering, Wait, instance
  <2>6. asked' = asked /\ (dbs' = dbs \/ dbs = {})
    BY DEF Wait, instance
  <2> QED
    BY <1>1, <1>3, <2>2, <2>3, <2>4, <2>5, <2>6, CareKeeps
<1> QED
  BY <1>4, <1>5, <1>6, <1>7 DEF IInv

LEMMA ReleaseKeeps == ASSUME IInv, NEW c \in Call, Release(c) PROVE IInv'
<1>1. PICK d \in DB : d = call[c].db /\ call[c].step = "release"
  BY CallIsTyped DEF IInv, Release, At
<1>2. /\ CallTyped'
      /\ \A x \in Call \ {c} : call'[x] = call[x]
      /\ call'[c].step = "closed" /\ call'[c].kind = call[c].kind /\ call'[c].db = d
  BY <1>1, GotoMoves DEF IInv, TypeInv, CallTyped, Release, Steps
<1>3. Alone(c, d)
  BY <1>1, <1>2 DEF IInv, TypeInv, Alone, Release
<1>4. TypeInv'
  BY <1>1, <1>2 DEF IInv, TypeInv, Release, Txs
<1>5. OneRegistered'
  BY StoreAssumption DEF IInv, OneRegistered, Release
<1>6. OwnInv'
  BY <1>1, <1>2, <1>3, OwnKeeps DEF IInv, OwnInv, Fresh, Registering, Release
<1>7. CareInv'
  <2> SUFFICES ASSUME asked = {} PROVE CareInv'
    BY DEF Release, CareInv
  <2>2. call'[c].step \in {"final", "release", "closed"} =>
           call'[c].db = d /\ \A g \in Gen : monitors'[d][g] = 0
    BY <1>1, <1>2 DEF IInv, TypeInv, CareInv, Release
  <2>3. \A g \in Gen : monitors'[d][g] # 0 => monitors[d][g] # 0 \/ Registering(c)
    BY <1>1, <1>2 DEF IInv, TypeInv, Release
  <2>4. ASSUME d \notin dbs', (\E g \in Gen : monitors'[d][g] # 0) \/ conn'[d] # "nil" \/ rtx'[d] # NoTx
        PROVE  (\E x \in Call : call[x].db = d /\ Holding(x) /\ x # c) \/ (Holding(c)' /\ call'[c].db = d)
    BY <1>1, <1>2, <2>4 DEF IInv, TypeInv, CareInv, OwnInv, Fresh, Holding, Registering, Release
  <2>5. ASSUME d \notin dbs', opened'[d]
        PROVE  \/ \E x \in Call : /\ call[x].db = d /\ x # c
                                  /\ Holding(x) \/ call[x].step = "closed"
               \/ (Holding(c) \/ call[c].step = "closed")' /\ call'[c].db = d
    BY <1>1, <1>2, <2>5 DEF IInv, TypeInv, CareInv, OwnInv, Fresh, Holding, Registering, Release
  <2>6. asked' = asked /\ (dbs' = dbs \/ dbs = {})
    BY DEF Release
  <2> QED
    BY <1>1, <1>3, <2>2, <2>3, <2>4, <2>5, <2>6, CareKeeps
<1> QED
  BY <1>4, <1>5, <1>6, <1>7 DEF IInv

\* After the last step of a Close nothing is open.
LEMMA MarkClosedKeeps == ASSUME IInv, NEW c \in Call, MarkClosed(c) PROVE IInv'
<1>1. PICK d \in DB : d = call[c].db /\ call[c].step = "closed"
  BY CallIsTyped DEF IInv, MarkClosed, At
<1>2. /\ CallTyped'
      /\ \A x \in Call \ {c} : call'[x] = call[x]
      /\ call'[c].step = "idle" /\ call'[c].db = NoDB
  BY ReturnMoves DEF IInv, MarkClosed
<1>3. Alone(c, d)
  BY <1>1, <1>2 DEF IInv, TypeInv, Alone, MarkClosed
<1>4. TypeInv'
  BY <1>1, <1>2 DEF IInv, TypeInv, MarkClosed, Txs
<1>5. OneRegistered'
  BY StoreAssumption DEF IInv, OneRegistered, MarkClosed
<1>6. OwnInv'
  BY <1>1, <1>2, <1>3, OwnKeeps DEF IInv, OwnInv, Fresh, Registering, MarkClosed
<1>7. CareInv'
  <2> SUFFICES ASSUME asked = {} PROVE CareInv'
    BY DEF MarkClosed, CareInv
  <2>2. call'[c].step \in {"final", "release", "closed"} =>
           call'[c].db = d /\ \A g \in Gen : monitors'[d][g] = 0
    BY <1>1, <1>2 DEF IInv, TypeInv, CareInv, MarkClosed
  <2>3. \A g \in Gen : monitors'[d][g] # 0 => monitors[d][g] # 0 \/ Registering(c)
    BY <1>1, <1>2 DEF IInv, TypeInv, MarkClosed
  <2>4. ASSUME d \notin dbs', (\E g \in Gen : monitors'[d][g] # 0) \/ conn'[d] # "nil" \/ rtx'[d] # NoTx
        PROVE  (\E x \in Call : call[x].db = d /\ Holding(x) /\ x # c) \/ (Holding(c)' /\ call'[c].db = d)
    BY <1>1, <1>2, <2>4 DEF IInv, TypeInv, CareInv, OwnInv, Fresh, Holding, Registering, MarkClosed
  <2>5. ASSUME d \notin dbs', opened'[d]
        PROVE  \/ \E x \in Call : /\ call[x].db = d /\ x # c
                                  /\ Holding(x) \/ call[x].step = "closed"
               \/ (Holding(c) \/ call[c].step = "closed")' /\ call'[c].db = d
    BY <1>1, <1>2, <2>5 DEF IInv, TypeInv, CareInv, OwnInv, Fresh, Holding, Registering, MarkClosed
  <2>6. asked' = asked /\ (dbs' = dbs \/ dbs = {})
    BY DEF MarkClosed
  <2> QED
    BY <1>1, <1>3, <2>2, <2>3, <2>4, <2>5, <2>6, CareKeeps
<1> QED
  BY <1>4, <1>5, <1>6, <1>7 DEF IInv

-----------------------------------------------------------------------------
(* The requests.                                                           *)

LEMMA SecondCheckKeeps == ASSUME IInv, NEW c \in Call, SecondCheck(c) PROVE IInv'
<1>1. PICK d \in DB : d = call[c].db /\ call[c].step = "check"
  BY CallIsTyped DEF IInv, SecondCheck, At
<1>2. /\ CallTyped'
      /\ \A x \in Call \ {c} : call'[x] = call[x]
      /\ \/ dbs = {} /\ dbs' = {d} /\ call'[c].step = "idle" /\ call'[c].db = NoDB
         \/ dbs' = dbs /\ call'[c].step = "cancel" /\ call'[c].kind = call[c].kind /\ call'[c].db = d
  <2>1. CASE dbs = {}
    BY <1>1, <2>1, ReturnMoves DEF IInv, TypeInv, CallTyped, Steps, OwnInv, Fresh, Registering, SecondCheck, instance
  <2>2. CASE ~(dbs = {})
    BY <1>1, <2>2, GotoMoves DEF IInv, TypeInv, CallTyped, Steps, OwnInv, Fresh, Registering, SecondCheck, instance
  <2> QED
    BY <2>1, <2>2
<1>3. Alone(c, d)
  BY <1>1, <1>2 DEF IInv, TypeInv, Alone, SecondCheck, instance
<1>4. TypeInv'
  BY <1>1, <1>2 DEF IInv, TypeInv, SecondCheck, instance
<1>5. OneRegistered'
  BY <1>1, StoreAssumption DEF IInv, OneRegistered, SecondCheck
<1>6. OwnInv'
  BY <1>1, <1>2, <1>3, OwnKeeps DEF IInv, OwnInv, Fresh, Registering, SecondCheck, instance
<1>7. CareInv'
  <2> SUFFICES ASSUME asked = {} PROVE CareInv'
    BY DEF SecondCheck, CareInv, instance
  <2>2. call'[c].step \in {"final", "release", "closed"} =>
           call'[c].db = d /\ \A g \in Gen : monitors'[d][g] = 0
    BY <1>1, <1>2 DEF IInv, TypeInv, CareInv, SecondCheck, instance
  <2>3. \A g \in Gen : monitors'[d][g] # 0 => monitors[d][g] # 0 \/ Registering(c)
    BY <1>1, <1>2 DEF IInv, TypeInv, SecondCheck, instance
  <2>4. ASSUME d \notin dbs', (\E g \in Gen : monitors'[d][g] # 0) \/ conn'[d] # "nil" \/ rtx'[d] # NoTx
        PROVE  (\E x \in Call : call[x].db = d /\ Holding(x) /\ x # c) \/ (Holding(c)' /\ call'[c].db = d)
    BY <1>1, <1>2, <2>4 DEF IInv, TypeInv, CareInv, OwnInv, Fresh, Holding, Registering, SecondCheck, instance
  <2>5. ASSUME d \notin dbs', opened'[d]
        PROVE  \/ \E x \in Call : /\ call[x].db = d /\ x # c
                                  /\ Holding(x) \/ call[x].step = "closed"
               \/ (Holding(c) \/ call[c].step = "closed")' /\ call'[c].db = d
    BY <1>1, <1>2, <2>5 DEF IInv, TypeInv, CareInv, OwnInv, Fresh, Holding, Registering, SecondCheck, instance
  <2>6. asked' = asked /\ (dbs' = dbs \/ dbs = {})
    BY DEF SecondCheck, instance
  <2> QED
    BY <1>1, <1>3, <2>2, <2>3, <2>4, <2>5, <2>6, CareKeeps
<1> QED
  BY <1>4, <1>5, <1>6, <1>7 DEF IInv

LEMMA IsOpenKeeps == ASSUME IInv, NEW c \in Call, IsOpen(c) PROVE IInv'
<1>1. PICK d \in DB : d = call[c].db /\ call[c].step = "isopen"
  BY CallIsTyped DEF IInv, IsOpen, At
<1>0. call[c].kind \notin {"register", "unregister"}
  BY <1>1 DEF IInv, TypeInv, CallTyped
<1>2. /\ CallTyped'
      /\ \A x \in Call \ {c} : call'[x] = call[x]
      /\ \/ call'[c].step \in {"open", "cancel", "sync"} /\ call'[c].kind = call[c].kind /\ call'[c].db = d
         \/ call'[c].step = "idle" /\ call'[c].db = NoDB
  <2>1. CASE call[c].kind = "start" /\ Goto(c, "open")
    BY <1>1, <2>1, GotoMoves DEF IInv, IsOpen, Steps
  <2>2. CASE Goto(c, "cancel")
    BY <1>1, <2>2, GotoMoves DEF IInv, IsOpen, Steps
  <2>3. CASE call[c].kind \in {"sync", "timedsync"} /\ Goto(c, "sync")
    BY <1>1, <2>3, GotoMoves DEF IInv, IsOpen, Steps
  <2>4. CASE Return(c)
    BY <1>1, <2>4, ReturnMoves DEF IInv, IsOpen
  <2> QED
    BY <1>1, <2>1, <2>2, <2>3, <2>4 DEF IsOpen
<1>3. Alone(c, d)
  BY <1>1, <1>2 DEF IInv, TypeInv, Alone, IsOpen, instance
<1>4. TypeInv'
  BY <1>1, <1>2 DEF IInv, TypeInv, IsOpen, instance
<1>5. OneRegistered'
  BY StoreAssumption DEF IInv, OneRegistered, IsOpen
<1>6. OwnInv'
  BY <1>1, <1>2, <1>3, <1>0, OwnKeeps DEF IInv, OwnInv, Fresh, Registering, IsOpen, instance
<1>7. CareInv'
  <2> SUFFICES ASSUME asked = {} PROVE CareInv'
    BY DEF IsOpen, CareInv, instance
  <2>2. call'[c].step \in {"final", "release", "closed"} =>
           call'[c].db = d /\ \A g \in Gen : monitors'[d][g] = 0
    BY <1>0, <1>1, <1>2 DEF IInv, TypeInv, CareInv, IsOpen, instance
  <2>3. \A g \in Gen : monitors'[d][g] # 0 => monitors[d][g] # 0 \/ Registering(c)
    BY <1>0, <1>1, <1>2 DEF IInv, TypeInv, IsOpen, instance
  <2>4. ASSUME d \notin dbs', (\E g \in Gen : monitors'[d][g] # 0) \/ conn'[d] # "nil" \/ rtx'[d] # NoTx
        PROVE  (\E x \in Call : call[x].db = d /\ Holding(x) /\ x # c) \/ (Holding(c)' /\ call'[c].db = d)
    <3>1. PICK x \in Call : call[x].db = d /\ Holding(x)
      BY <1>1, <2>4 DEF IInv, CareInv, IsOpen, instance
    <3> QED
      BY <1>1, <3>1 DEF Holding, Registering
  <2>5. ASSUME d \notin dbs', opened'[d]
        PROVE  \/ \E x \in Call : /\ call[x].db = d /\ x # c
                                  /\ Holding(x) \/ call[x].step = "closed"
               \/ (Holding(c) \/ call[c].step = "closed")' /\ call'[c].db = d
    BY <1>0, <1>1, <1>2, <2>5 DEF IInv, TypeInv, CareInv, OwnInv, Fresh, Holding, Registering, IsOpen, instance
  <2>6. asked' = asked /\ (dbs' = dbs \/ dbs = {})
    BY DEF IsOpen, instance
  <2> QED
    BY <1>0, <1>1, <1>3, <2>2, <2>3, <2>4, <2>5, <2>6, CareKeeps
<1> QED
  BY <1>4, <1>5, <1>6, <1>7 DEF IInv

LEMMA ReplyKeeps == ASSUME IInv, NEW c \in Call, Reply(c) PROVE IInv'
<1>1. PICK d \in DB : d = call[c].db /\ call[c].step = "reply"
  BY CallIsTyped DEF IInv, Reply, At
<1>2. /\ CallTyped'
      /\ \A x \in Call \ {c} : call'[x] = call[x]
      /\ call'[c].step = "idle" /\ call'[c].db = NoDB
  BY ReturnMoves DEF IInv, Reply
<1>3. Alone(c, d)
  BY <1>1, <1>2 DEF IInv, TypeInv, Alone, Reply
<1>4. TypeInv'
  BY <1>1, <1>2 DEF IInv, TypeInv, Reply, Txs, Ended
<1>5. OneRegistered'
  BY StoreAssumption DEF IInv, OneRegistered, Reply
<1>6. OwnInv'
  BY <1>1, <1>2, <1>3, OwnKeeps DEF IInv, OwnInv, Fresh, Registering, Reply
<1>7. CareInv'
  <2> SUFFICES ASSUME asked = {} PROVE CareInv'
    BY DEF Reply, CareInv, CallTyped, Late
  <2>2. call'[c].step \in {"final", "release", "closed"} =>
           call'[c].db = d /\ \A g \in Gen : monitors'[d][g] = 0
    BY <1>1, <1>2 DEF IInv, TypeInv, CareInv, Reply, CallTyped, Late
  <2>3. \A g \in Gen : monitors'[d][g] # 0 => monitors[d][g] # 0 \/ Registering(c)
    BY <1>1, <1>2 DEF IInv, TypeInv, Reply, CallTyped, Late
  <2>4. ASSUME d \notin dbs', (\E g \in Gen : monitors'[d][g] # 0) \/ conn'[d] # "nil" \/ rtx'[d] # NoTx
        PROVE  (\E x \in Call : call[x].db = d /\ Holding(x) /\ x # c) \/ (Holding(c)' /\ call'[c].db = d)
    BY <1>1, <1>2, <2>4 DEF IInv, TypeInv, CareInv, OwnInv, Fresh, Holding, Registering, Reply, CallTyped, Late
  <2>5. ASSUME d \notin dbs', opened'[d]
        PROVE  \/ \E x \in Call : /\ call[x].db = d /\ x # c
                                  /\ Holding(x) \/ call[x].step = "closed"
               \/ (Holding(c) \/ call[c].step = "closed")' /\ call'[c].db = d
    BY <1>1, <1>2, <2>5 DEF IInv, TypeInv, CareInv, OwnInv, Fresh, Holding, Registering, Reply, CallTyped, Late
  <2>6. asked' = asked /\ (dbs' = dbs \/ dbs = {})
    BY DEF Reply, CallTyped, Late
  <2> QED
    BY <1>1, <1>3, <2>2, <2>3, <2>4, <2>5, <2>6, CareKeeps
<1> QED
  BY <1>4, <1>5, <1>6, <1>7 DEF IInv


LEMMA LastSyncKeeps == ASSUME IInv, NEW c \in Call, LastSync(c) PROVE IInv'
<1>1. PICK d \in DB : d = call[c].db /\ call[c].step = "final"
  BY CallIsTyped DEF IInv, LastSync, At
<1>2. /\ CallTyped'
      /\ \A x \in Call \ {c} : call'[x] = call[x]
      /\ call'[c].step = "release" /\ call'[c].kind = call[c].kind /\ call'[c].db = d
  BY <1>1, GotoMoves DEF IInv, LastSync, Sync, Steps
<1>3. <<"request", c>> \in Txs
  BY DEF Txs
<1>4. /\ conn' \in [DB -> {"nil", "ready", "half"}] /\ rtx' \in [DB -> Txs]
      /\ \A e \in DB \ {d} : conn'[e] = conn[e] /\ rtx'[e] = rtx[e]
      /\ failed \subseteq failed'
      /\ UNCHANGED <<dbs, unused, opened, ctx, cancelled, monitors, asked>>
  BY <1>1, <1>3, SyncTouches DEF IInv, LastSync
<1>5. Alone(c, d)
  BY <1>2, <1>4 DEF Alone
<1>6. TypeInv' /\ OneRegistered'
  BY <1>2, <1>4 DEF IInv, TypeInv, OneRegistered
<1>7. OwnInv'
  BY <1>1, <1>2, <1>4, <1>5, OwnKeeps DEF Registering
<1>8. CareInv'
  <2>1. asked = {} => \A g \in Gen : monitors[d][g] = 0
    BY <1>1 DEF IInv, CareInv
  <2>2. Holding(c)'
    BY <1>2 DEF Holding
  <2> QED
    BY <1>1, <1>2, <1>4, <1>5, <2>1, <2>2, CareKeeps
<1> QED
  BY <1>6, <1>7, <1>8 DEF IInv

LEMMA SyncDBKeeps == ASSUME IInv, NEW c \in Call, SyncDB(c) PROVE IInv'
<1>1. PICK d \in DB : d = call[c].db /\ call[c].step = "sync"
  BY CallIsTyped DEF IInv, SyncDB, At
<1>2. /\ CallTyped'
      /\ \A x \in Call \ {c} : call'[x] = call[x]
      /\ call'[c].step = "reply" /\ call'[c].kind = call[c].kind /\ call'[c].db = d
  BY <1>1, GotoMoves DEF IInv, TypeInv, CallTyped, SyncDB, Sync, Steps
<1>3. call[c].kind \in {"sync", "timedsync"} /\ call[c].kind \in asked
  BY <1>1 DEF IInv, TypeInv, CallTyped, Late
<1>4. PICK t \in Txs : /\ Sync(d, t, TRUE)
                       /\ call[c].kind = "sync" => t = <<"server", 0>>
  <2>1. <<"request", c>> \in Txs /\ <<"server", 0>> \in Txs
    BY DEF Txs
  <2> QED
    BY <1>1, <2>1 DEF SyncDB
<1>5. /\ conn' \in [DB -> {"nil", "ready", "half"}] /\ rtx' \in [DB -> Txs]
      /\ \A e \in DB \ {d} : conn'[e] = conn[e] /\ rtx'[e] = rtx[e]
      /\ failed \subseteq failed'
      /\ UNCHANGED <<dbs, unused, opened, ctx, cancelled, monitors, asked>>
  BY <1>1, <1>4, SyncTouches DEF IInv, SyncDB
<1>6. Alone(c, d)
  BY <1>2, <1>5 DEF Alone
<1>7. TypeInv' /\ OneRegistered'
  BY <1>2, <1>5 DEF IInv, TypeInv, OneRegistered
<1>8. OwnInv'
  BY <1>1, <1>2, <1>5, <1>6, OwnKeeps DEF Registering
<1>9. CareInv'
  BY <1>3, <1>5 DEF CareInv
<1> QED
  BY <1>7, <1>8, <1>9 DEF IInv


-----------------------------------------------------------------------------
(* New requests.                                                           *)

LEMMA BeginMoves ==
    ASSUME TypeInv, NEW c \in Call, NEW kind \in Kind, NEW step \in Steps, NEW d \in DB,
           Begin(c, kind, step, d),
           \/ kind = "register" /\ step = "open"
           \/ kind = "unregister" /\ step = "cancel"
           \/ kind \notin {"register", "unregister"} /\ step = "isopen"
    PROVE  /\ CallTyped' /\ asked \subseteq asked'
           /\ call[c].step = "idle" /\ call[c].db = NoDB
           /\ \A x \in Call \ {c} : call'[x] = call[x]
           /\ call'[c].step = step /\ call'[c].kind = kind /\ call'[c].db = d
BY StoreAssumption DEF TypeInv, CallTyped, Begin, At, Late

\* The new instance is nobody's but the call's.
LEMMA RegisterDBKeeps == ASSUME IInv, NEW c \in Call, RegisterDB(c) PROVE IInv'
<1>1. PICK d \in DB : /\ d \in unused /\ unused' = unused \ {d}
                      /\ Begin(c, "register", "open", d)
  BY NewDBIsUnused DEF IInv, TypeInv, RegisterDB
<1>2. dbs = {} /\ UNCHANGED <<dbs, opened, ctx, cancelled, monitors, conn, rtx, failed>>
  BY DEF RegisterDB, instance
<1>3. /\ CallTyped' /\ asked \subseteq asked'
      /\ call[c].step = "idle" /\ call[c].db = NoDB
      /\ \A x \in Call \ {c} : call'[x] = call[x]
      /\ call'[c].step = "open" /\ call'[c].kind = "register" /\ call'[c].db = d
  <2>1. "register" \in Kind /\ "open" \in Steps
    BY DEF Kind, Steps
  <2> QED
    BY <1>1, <2>1, BeginMoves DEF IInv
<1>4. TypeInv' /\ OneRegistered'
  BY <1>1, <1>2, <1>3 DEF IInv, TypeInv, OneRegistered
<1>5. Fresh(d) /\ ~Busy(d) /\ d \notin dbs
  BY <1>1 DEF IInv, OwnInv
<1>6. \A e \in DB : Fresh(e)' <=> Fresh(e)
  BY <1>2 DEF Fresh
<1>7. OwnInv'
  <2>1. ASSUME NEW e \in unused' PROVE (Fresh(e) /\ e \notin dbs /\ ~Busy(e))'
    BY <1>1, <1>2, <1>3, <1>6, <2>1 DEF IInv, TypeInv, OwnInv, Busy
  <2>2. ASSUME NEW x \in Call, Registering(x)'
        PROVE  /\ (call[x].db \notin dbs \cup unused)'
               /\ \A y \in Call \ {x} : call'[y].db # call'[x].db
               /\ (cancelled[call[x].db] = {})'
               /\ (call[x].step \in {"open", "launch"} => Fresh(call[x].db))'
    <3>1. CASE x = c
      BY <1>1, <1>2, <1>3, <1>5, <1>6, <3>1 DEF Fresh, Busy
    <3>2. CASE x # c
      <4>1. call'[x] = call[x] /\ Registering(x)
        BY <1>3, <2>2, <3>2 DEF Registering
      <4>2. call[x].db \in DB
        BY <4>1, CallIsTyped DEF IInv, Registering
      <4>3. \A y \in Call \ {x} : call'[y].db # call'[x].db
        BY <1>3, <1>5, <3>2, <4>1 DEF IInv, OwnInv, Busy
      <4> QED
        BY <1>1, <1>2, <1>6, <4>1, <4>2, <4>3 DEF IInv, OwnInv
    <3> QED
      BY <3>1, <3>2
  <2> QED
    BY <2>1, <2>2 DEF OwnInv
<1>8. CareInv'
  <2>1. asked' = {} => asked = {}
    BY <1>3
  <2>2. \A x \in Call : /\ call[x].db \in DB => call'[x] = call[x]
                        /\ call'[x].step \in {"final", "release", "closed"} => call'[x] = call[x]
    BY <1>3, StoreAssumption
  <2> QED
    BY <1>2, <2>1, <2>2 DEF IInv, CareInv, Holding, Registering
<1> QED
  BY <1>4, <1>7, <1>8 DEF IInv

\* A request that finds the instance on the list: it leaves the list only in
\* the care of the request.
LEMMA FoundKeeps ==
    ASSUME IInv, NEW c \in Call, NEW d \in dbs, NEW kind \in Kind, NEW step \in Steps,
           Begin(c, kind, step, d), UNCHANGED <<unused, instance, failed>>,
           \/ kind = "unregister" /\ step = "cancel" /\ dbs' = dbs \ {d}
           \/ kind \notin {"register", "unregister"} /\ step = "isopen" /\ dbs' = dbs
    PROVE  IInv'
<1>1. UNCHANGED <<opened, ctx, cancelled, monitors, conn, rtx, failed>> /\ unused' = unused
  BY DEF instance
<1>2. d \in DB
  BY DEF IInv, TypeInv
<1>3. /\ CallTyped' /\ asked \subseteq asked'
      /\ call[c].step = "idle" /\ call[c].db = NoDB
      /\ \A x \in Call \ {c} : call'[x] = call[x]
      /\ call'[c].step = step /\ call'[c].kind = kind /\ call'[c].db = d
  BY <1>2, BeginMoves DEF IInv
<1>4. TypeInv' /\ OneRegistered'
  BY <1>1, <1>3 DEF IInv, TypeInv, OneRegistered
<1>5. \A e \in DB : Fresh(e)' <=> Fresh(e)
  BY <1>1 DEF Fresh
<1>6. OwnInv'
  <2>1. ASSUME NEW e \in unused' PROVE (Fresh(e) /\ e \notin dbs /\ ~Busy(e))'
    <3>1. e \in DB /\ e # d /\ Fresh(e) /\ e \notin dbs /\ ~Busy(e)
      BY <1>1, <2>1 DEF IInv, TypeInv, OwnInv
    <3>2. e \notin dbs' /\ ~Busy(e)'
      BY <1>3, <3>1 DEF Busy
    <3> QED
      BY <1>5, <3>1, <3>2
  <2>2. ASSUME NEW x \in Call, Registering(x)'
        PROVE  /\ (call[x].db \notin dbs \cup unused)'
               /\ \A y \in Call \ {x} : call'[y].db # call'[x].db
               /\ (cancelled[call[x].db] = {})'
               /\ (call[x].step \in {"open", "launch"} => Fresh(call[x].db))'
    <3>1. x # c /\ call'[x] = call[x] /\ Registering(x)
      BY <1>3, <2>2 DEF Registering
    <3>2. call[x].db \in DB
      BY <3>1, CallIsTyped DEF IInv, Registering
    <3>3. \A y \in Call \ {x} : call'[y].db # call'[x].db
      BY <1>3, <3>1 DEF IInv, OwnInv
    <3> QED
      BY <1>1, <1>5, <3>1, <3>2, <3>3 DEF IInv, OwnInv
  <2> QED
    BY <2>1, <2>2 DEF OwnInv
<1>7. \A x \in Call : /\ call[x].db \in DB => call'[x] = call[x]
                      /\ call'[x].step \in {"wait", "final", "release", "closed"} => call'[x] = call[x]
  BY <1>3, StoreAssumption
<1>8. CareInv'
  <2>1. asked' = {} => asked = {}
    BY <1>3
  <2>2. d \in dbs' \/ (call'[c].db = d /\ Holding(c)')
    BY <1>3 DEF Holding
  <2> QED
    BY <1>1, <1>7, <2>1, <2>2 DEF IInv, CareInv, Holding, Registering
<1> QED
  BY <1>4, <1>6, <1>8 DEF IInv

LEMMA UnregisterDBKeeps == ASSUME IInv, NEW c \in Call, UnregisterDB(c) PROVE IInv'
<1>1. "unregister" \in Kind /\ "cancel" \in Steps
  BY DEF Kind, Steps
<1> QED
  BY <1>1, FoundKeeps DEF UnregisterDB

LEMMA FindDBKeeps == ASSUME IInv, NEW c \in Call, FindDB(c) PROVE IInv'
<1>1. "isopen" \in Steps
  BY DEF Steps
<1> QED
  BY <1>1, FoundKeeps DEF FindDB


-----------------------------------------------------------------------------
(* Monitors.                                                               *)

\* A step of a monitor of d.  It leaves alone an instance without monitors.
LEMMA MonitorKeeps ==
    ASSUME IInv, NEW d \in DB, monitors' \in [DB -> [Gen -> Nat]],
           \E g \in Gen : monitors[d][g] # 0,
           conn' \in [DB -> {"nil", "ready", "half"}], rtx' \in [DB -> Txs],
           \A e \in DB \ {d} : conn'[e] = conn[e] /\ rtx'[e] = rtx[e] /\ monitors'[e] = monitors[e],
           failed \subseteq failed', UNCHANGED <<dbs, unused, opened, ctx, cancelled, call, asked>>
    PROVE  IInv'
<1>1. TypeInv' /\ OneRegistered'
  BY DEF IInv, TypeInv, CallTyped, OneRegistered
<1>2. ~Fresh(d)
  BY DEF Fresh
<1>3. \A e \in DB \ {d} : Fresh(e)' <=> Fresh(e)
  BY DEF Fresh
<1>4. OwnInv'
  <2>1. ASSUME NEW e \in unused PROVE Fresh(e)'
    BY <1>2, <1>3 DEF IInv, TypeInv, OwnInv
  <2>2. ASSUME NEW c \in Call, Registering(c), call[c].step \in {"open", "launch"}
        PROVE  Fresh(call[c].db)'
    <3>1. call[c].db \in DB /\ Fresh(call[c].db)
      BY <2>2, CallIsTyped DEF IInv, OwnInv
    <3> QED
      BY <1>2, <1>3, <3>1
  <2> QED
    BY <2>1, <2>2 DEF IInv, OwnInv, Registering, Busy
<1>5. CareInv'
  <2> SUFFICES ASSUME asked = {} PROVE CareInv'
    BY DEF CareInv
  <2>1. \A c \in Call : call[c].step \in {"final", "release", "closed"} => call[c].db \in DB \ {d}
    BY CallIsTyped DEF IInv, CareInv
  <2>2. d \notin dbs => \E c \in Call : call[c].db = d /\ Holding(c)
    BY DEF IInv, CareInv
  <2> QED
    BY <2>1, <2>2 DEF IInv, CareInv, Holding, Registering
<1> QED
  BY <1>1, <1>4, <1>5 DEF IInv

LEMMA StutterKeeps == ASSUME IInv, UNCHANGED vars PROVE IInv'
<1>1. TypeInv' /\ OneRegistered'
  BY DEF vars, IInv, TypeInv, CallTyped, OneRegistered
<1>2. OwnInv' /\ CareInv' 
  BY DEF vars, IInv, OwnInv, Fresh, Busy, Registering, CareInv, Holding, Closing
<1> QED
  BY <1>1, <1>2 DEF IInv

LEMMA MonitorExitKeeps == ASSUME IInv, NEW d \in DB, MonitorExit(d) PROVE IInv'
<1>1. PICK g \in cancelled[d] : monitors[d][g] > 0 /\ monitors' = [monitors EXCEPT ![d][g] = @ - 1]
  BY DEF MonitorExit
<1>2. UNCHANGED <<dbs, unused, opened, ctx, cancelled, conn, rtx, call, asked, failed>>
  BY DEF MonitorExit
<1>3. monitors[d] \in [Gen -> Nat]
  BY DEF IInv, TypeInv
<1>4. CASE g \in Gen
  <2>1. /\ monitors' \in [DB -> [Gen -> Nat]]
        /\ \A e \in DB \ {d} : monitors'[e] = monitors[e]
    <3>1. [monitors[d] EXCEPT ![g] = @ - 1] \in [Gen -> Nat]
      BY <1>1, <1>3, <1>4
    <3> QED
      BY <1>1, <3>1 DEF IInv, TypeInv
  <2>3. monitors[d][g] # 0
    BY <1>1, <1>3, <1>4
  <2> QED
    BY <1>2, <1>4, <2>1, <2>3, MonitorKeeps DEF IInv, TypeInv
<1>5. CASE g \notin Gen
  <2>1. [monitors[d] EXCEPT ![g] = @ - 1] = monitors[d]
    BY <1>3, <1>5
  <2>2. monitors' = monitors
    BY <1>1, <2>1 DEF IInv, TypeInv
  <2> QED
    BY <1>2, <2>2, StutterKeeps DEF MonitorExit, vars
<1> QED
  BY <1>4, <1>5

LEMMA MonitorTickKeeps == ASSUME IInv, NEW d \in DB, MonitorTick(d) PROVE IInv'
<1> DEFINE now == ctx[d]
<1>1. PICK g \in Gen :
         /\ monitors[d][g] > 0
         /\ monitors' = IF g = now THEN monitors
                        ELSE [monitors EXCEPT ![d][g] = @ - 1, ![d][now] = @ + 1]
  BY DEF MonitorTick
<1>2. now \in Nat /\ monitors[d] \in [Gen -> Nat]
  BY DEF IInv, TypeInv
<1>3. /\ monitors' \in [DB -> [Gen -> Nat]] /\ monitors[d][g] # 0
      /\ \A e \in DB \ {d} : monitors'[e] = monitors[e]
  <2>1. CASE g = now
    BY <1>1, <1>2, <2>1 DEF IInv, TypeInv
  <2>2. CASE g # now
    <3> DEFINE m == [monitors[d] EXCEPT ![g] = @ - 1]
    <3>1. m \in [Gen -> Nat]
      BY <1>1, <1>2
    <3>2. [m EXCEPT ![now] = @ + 1] \in [Gen -> Nat]
      <4> HIDE DEF m
      <4>1. CASE now \in Gen
        BY <3>1, <4>1
      <4>2. CASE now \notin Gen
        BY <3>1, <4>2
      <4> QED
        BY <4>1, <4>2
    <3>3. monitors' = [monitors EXCEPT ![d] = [m EXCEPT ![now] = @ + 1]]
      BY <1>1, <2>2 DEF IInv, TypeInv
    <3> HIDE DEF m
    <3> QED
      BY <1>1, <1>2, <3>2, <3>3 DEF IInv, TypeInv
  <2> QED
    BY <2>1, <2>2
<1>4. <<"db", now>> \in Txs /\ <<"db", now>> \notin {NoTx, Ended} \cup {<<"request", x>> : x \in Call}
  BY <1>2 DEF Txs, NoTx, Ended
<1>5. Sync(d, <<"db", now>>, now \notin cancelled[d]) /\ call' = call
  BY DEF MonitorTick
<1>6. /\ conn' \in [DB -> {"nil", "ready", "half"}] /\ rtx' \in [DB -> Txs]
      /\ \A e \in DB \ {d} : conn'[e] = conn[e] /\ rtx'[e] = rtx[e]
      /\ failed \subseteq failed'
      /\ UNCHANGED <<dbs, unused, opened, ctx, cancelled, requests, asked>>
  BY <1>4, <1>5, SyncTouches DEF IInv
<1> HIDE DEF now
<1> QED
  BY <1>3, <1>5, <1>6, MonitorKeeps

-----------------------------------------------------------------------------
LEMMA NextKeeps == IInv /\ [Next]_vars => IInv'
<1> SUFFICES ASSUME IInv, [Next]_vars PROVE IInv'
  OBVIOUS
<1>1. ASSUME NEW c \in Call, RegisterDB(c) \/ UnregisterDB(c) \/ FindDB(c) PROVE IInv'
  BY <1>1, RegisterDBKeeps, UnregisterDBKeeps, FindDBKeeps
<1>2. ASSUME NEW c \in Call, CallStep(c) PROVE IInv'
  BY <1>2, OpenKeeps, OpenFailsKeeps, LaunchKeeps, MarkOpenedKeeps, SecondCheckKeeps, CancelKeeps, WaitKeeps,
     LastSyncKeeps, ReleaseKeeps, MarkClosedKeeps, IsOpenKeeps, SyncDBKeeps, ReplyKeeps
  DEF CallStep
<1>3. ASSUME NEW d \in DB, MonitorExit(d) \/ MonitorTick(d) PROVE IInv'
  BY <1>3, MonitorExitKeeps, MonitorTickKeeps
<1>4. CASE UNCHANGED vars
  BY <1>4, StutterKeeps
<1> QED
  BY <1>1, <1>2, <1>3, <1>4 DEF Next, Stopped

LEMMA SpecKeeps == Spec => []IInv
BY InitHolds, NextKeeps, PTL DEF Spec

\* At most one instance of a path is registered (RegisterDB looks at s.dbs
\* again after it has opened the instance without s.mu).
THEOREM RegisteredOnce == Spec => []OneRegistered
<1>1. IInv => OneRegistered
  BY DEF IInv
<1> QED
  BY <1>1, SpecKeeps, PTL

\* Without starts and syncs, an instance that was removed or never registered
\* ends up closed, without monitors and without a handle of SQLite: whatever it
\* has left, a call is on the way to release it (UnregisterDB, DisableDB and
\* the duplicate of RegisterDB).
THEOREM RemovedIsClosed == Spec => []NoStray
<1>1. IInv => NoStray
  BY DEF IInv, CareInv, NoStray, Busy
<1> QED
  BY <1>1, SpecKeeps, PTL

=============================================================================
