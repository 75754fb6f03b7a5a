\* Once every agent has closed its session nothing more happens.
CHECK_DEADLOCK FALSE
SPECIFICATION FairSpec
CONSTANTS
    a = a
    b = b
    x = x
    y = y
    f = f
    NoSession = NoSession
    Session = {a, b}
    Symbol = {x}
    File = {f}
    FileOf <- OneSymbol
    Request = {a, b}
    SessionOf <- Serial
    ReleaseOnSubmit = FALSE
    InlineChanges = TRUE
    MayFail = {"stale", "persist", "record", "submit", "merged"}
INVARIANTS
    LockExclusive
PROPERTIES
    ImplementsLockService
    
