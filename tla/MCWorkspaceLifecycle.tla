------------------------ MODULE MCWorkspaceLifecycle ------------------------
\* Instances of WorkspaceLifecycle for TLC.
EXTENDS WorkspaceLifecycle, TLC

\* Symbols and slots are interchangeable; rows and ids are made in order.
\* None of the properties checked with it is a liveness property.
Interchangeable ==
    Permutations(Symbol) \cup Permutations(Request)

=============================================================================
