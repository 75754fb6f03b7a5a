CONSTANTS
    Contexts <- MCContexts
    Sources <- MCSources
    Trees <- MCTrees
    Flows <- MCFlows
    Judgements <- MCJudgements
    Limit = 1
    old_file = old_file
    new_file = new_file
    path1 = path1
    path2 = path2
    one_text = one_text
    other_text = other_text
    blob = blob
    NoFile = NoFile
    Deleted = Deleted
    NoEntry = NoEntry
    writer1 = writer1
    writer2 = writer2
    name1 = name1
    name2 = name2
    base1 = base1
    base2 = base2
    new1 = new1
    new2 = new2
    new3 = new3
    None = None
    workspace1 = workspace1
    task1 = task1
    task2 = task2
    All = All
    repo1 = repo1
    publisher1 = publisher1
    publisher2 = publisher2
    receiver1 = receiver1
    receiver2 = receiver2
    update1 = update1
    update2 = update2
    NoRow = NoRow
    Nobody = Nobody
    NoComment = NoComment
    Path = {old_file, new_file}
    Content = {blob}
    Base <- BaseTree
    Parsed = {old_file}
    Binary = {blob}
    Writer = {writer1, writer2}
    SymbolId = {base1, base2, new1, new2, new3}
    Name = {name1, name2}
    Text = {one_text, other_text}
    NameOf <- NameOfId
    FileOf <- FileOfId
    SharedIds = {base1, base2}
    Workspace = {workspace1}
    CodeFile = {path1, path2}
    ttl_secs = 3
    TOUCH_DEBOUNCE = 1
    Task = {task1, task2}
    Repo = {repo1}
    Publisher = {publisher1, publisher2}
    Receiver = {receiver1, receiver2}
    Capacity = 1
    MaxEvents = 2
    MaxChannels = 3
    Calls <- CallPairs
    Update = {update1, update2}
    MaxIds = 3
    Tables <- TablesInOrder
    batch_size = 2
    flush_interval = 2
    channel_capacity = 2
    Handles = 1
    MaxEmitted = 4
    MaxWrite = 3
    table1 = table1
    table2 = table2
SPECIFICATION PartsSpec
SYMMETRY Interchangeable
CHECK_DEADLOCK FALSE
INVARIANTS
    PipelineIsSound
    FilesAreSound
    
    
    
    SinkIsSound
    ClaimsApartMergeApart
    MergeIsSound
PROPERTIES
    BusIsSound
