SPECIFICATION FairSpec
CONSTANTS
    DB = {d1, d2}
    Call = {c1, c2}
    NoDB = NoDB
    Requests = {"register"}
    Faults = {"early"}
    MaxRequests = 2
    MaxFaults = 1
PROPERTY InitIsRetried
