SPECIFICATION Spec
CONSTANTS
    Edits <- MCNested
    Size <- MCSize
    NoComment = NoComment
INVARIANT DefinedOnce
CHECK_DEADLOCK FALSE
