SPECIFICATION Spec
CONSTANTS
    Workspace = {w1, w2}
    Sid = {s1, s2, s3, s4}
    Symbol = {x, y}
    Request = {r1, r2}
    Gc = Gc
    NoSid = NoSid
    NoWs = NoWs
    PinFlag = TRUE
    DbMayFail = FALSE
    MaxCrashes = 1
SYMMETRY Interchangeable
INVARIANTS
    IdsAreSound
    AbandonedIsDead
    
