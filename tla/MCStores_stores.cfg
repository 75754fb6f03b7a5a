CONSTANTS
    session1 = session1
    session2 = session2
    NoSession = NoSession
    Session = {session1, session2}
    Symbol = {symbol1, symbol2}
    Repo = {repo1, repo2}
    RepoOf <- RepoOfKey
    Sweeper = {sweeper1, sweeper2}
    symbol1 = symbol1
    symbol2 = symbol2
    repo1 = repo1
    repo2 = repo2
    sweeper1 = sweeper1
    sweeper2 = sweeper2
    id1 = id1
    caller1 = caller1
    caller2 = caller2
    path1 = path1
    call1 = call1
    call2 = call2
    Id = {id1}
    Caller = {caller1, caller2}
    Timeouts = {1, 2}
    Path = {path1}
    BasePath = {}
    Call = {call1, call2}
SPECIFICATION StoresSpec
SYMMETRY Interchangeable
CHECK_DEADLOCK FALSE
INVARIANTS
    
    
    WorkIsCarried
    TableIsSound
PROPERTIES
    ClaimsAreSound
    ImplementsLockService
