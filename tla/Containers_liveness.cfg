CONSTANTS
    Names = {dev}
    Existing = {dev}
    Ids = {i1}
    NoId = NoId
    Reqs = {a, b}
    NoReq = NoReq
    MaxRestarts = 0
SPECIFICATION FairSpec
PROPERTIES EveryCallReturns CancellationEnds
CHECK_DEADLOCK FALSE
