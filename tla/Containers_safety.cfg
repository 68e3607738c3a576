CONSTANTS
    Names = {dev}
    Existing = {}
    Ids = {i1, i2}
    NoId = NoId
    Reqs = {a, b}
    NoReq = NoReq
    MaxRestarts = 1
SPECIFICATION Spec
SYMMETRY Symmetry
INVARIANTS TypeOK AtMostOnePerName OwnedEntryLive 
PROPERTIES SetupKept
CHECK_DEADLOCK FALSE
