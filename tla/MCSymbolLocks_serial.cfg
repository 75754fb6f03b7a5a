\* Once every agent has closed its session nothing more happens.
CHECK_DEADLOCK FALSE
SPECIFICATION Spec
CONSTANTS
    a = a
    b = b
    x = x
    y = y
    f = f
    NoSession = NoSession
    Session = {a, b}
    Symbol = {x, y}
    File = {f}
    FileOf <- OneFile
    Request = {a, b}
    SessionOf <- Serial
    ReleaseOnSubmit = TRUE
    InlineChanges = FALSE
    MayFail = {"stale", "persist", "submit", "merged"}
SYMMETRY Agents
INVARIANTS
    TypeOK
    DraftIsLocked
    LockedOrOnRecord
    NoPhantomLock
