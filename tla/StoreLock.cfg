SPECIFICATION Spec
CONSTANTS
    DB = {d1, d2}
    Call = {c1, c2}
    NoDB = NoDB
    Requests = {"register", "timedsync"}
    Faults = {}
    MaxRequests = 2
    MaxFaults = 0
INVARIANT ReadLockHeld
