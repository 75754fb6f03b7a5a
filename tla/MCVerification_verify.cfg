\* Two VERIFY calls of one changeset, next to SUBMIT, APPROVE and MERGE.
SPECIFICATION Spec
CONSTANTS
    c1 = c1
    c2 = c2
    Call = {c1, c2}
    Reader = {c1}
    Operator = operator
    Repos <- MCRepos
    FileSets <- MCFileSets
    RunnerCap = 1
    StreamCap = 1
    MayFail = {"begin", "verdict"}
CHECK_DEADLOCK FALSE
INVARIANTS
    ApprovalIsSound
    ReportIsSound
PROPERTIES
    EveryVerifyEnds
