SPECIFICATION FairSpec
CONSTANTS
    Workspace = {w1}
    Sid = {s1, s2, s3}
    Symbol = {x}
    Request = {r1, r2}
    Gc = Gc
    NoSid = NoSid
    NoWs = NoWs
    PinFlag = FALSE
    DbMayFail = TRUE
    MaxCrashes = 2
INVARIANTS
    RedirectLeadsHome

    
