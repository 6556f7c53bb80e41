SPECIFICATION FairSpec
CONSTANTS
    DB = {d1, d2, d3}
    Call = {c1, c2}
    NoDB = NoDB
    Requests = {"register", "unregister", "start", "stop", "sync", "timedsync"}
    Faults = {"open", "init", "early", "lock"}
    MaxRequests = 4
    MaxFaults = 1
INVARIANT OneRegistered
INVARIANT NoStray
PROPERTY RequestsReturn
