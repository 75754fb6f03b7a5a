SPECIFICATION Spec
CONSTANTS
    p = p
    q = q
    p1 = p1
    q1 = q1
    f = f
    g = g
    x = x
    y = y
    t = t
    u = u
    NoText = NoText
    NoFile = NoFile
    Untouched = Untouched
    NoSession = NoSession
    Session = {p, q}
    File = {f, g}
    Symbol = {x, y}
    Text = {t, u}
    Parsed = {f}
    Request = {p1, q1}
    SessionOf <- OneEach
    Origin <- OneFile
    Draft <- Drafts
    MaxCommits = 2
INVARIANTS
    StatusIsSound
    PreSubmitForesees
PROPERTIES
    KeepsBothSides
    NoSilentOverwrite
