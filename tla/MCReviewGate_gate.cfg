\* Two submissions under every kind of environment.
SPECIFICATION Spec
CONSTANTS
    Envs <- MCEnvs
    MaxSubmits = 2
    MaxLocal = 1
    RpcFails = FALSE
CHECK_DEADLOCK FALSE
INVARIANTS
    ApprovalIsEarned
    NoOrphanReview

    
