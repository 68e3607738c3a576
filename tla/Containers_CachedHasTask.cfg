CONSTANTS
    Names = {dev}
    Existing = {}
    Ids = {i1, i2, i3}
    NoId = NoId
    Reqs = {a}
    NoReq = NoReq
    MaxRestarts = 0
SPECIFICATION Spec
PROPERTY CachedHasTask
CHECK_DEADLOCK FALSE
