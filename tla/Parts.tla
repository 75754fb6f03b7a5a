-------------------------------- MODULE Parts --------------------------------
(***************************************************************************)
(* The parts beside the locks and the merge that share no state: the files *)
(* of a workspace, the graph of its symbols, its cache, the event bus, the *)
(* index of a repository, and the sink of analytics events.  What each of  *)
(* them promises.                                                          *)
(***************************************************************************)
EXTENDS Naturals, Sequences

CONSTANTS
    Path, Content, Base, Parsed, Binary, Writer,   \* the files of a workspace
    NoFile, Deleted, NoEntry,
    SymbolId, Name, Text, NameOf, FileOf, SharedIds, None,   \* its graph
    Workspace, CodeFile, ttl_secs, TOUCH_DEBOUNCE, Task,     \* its cache
    Repo, All, Publisher, Receiver,                \* the event bus
    Capacity, MaxEvents, MaxChannels,
    Calls, Update, NoRow, Nobody, MaxIds,          \* the index
    Tables, batch_size, flush_interval, channel_capacity, Handles,   \* the sink
    MaxEmitted, MaxWrite

\* What stands for no file, a deletion and no entry is neither a path nor a
\* content.
ASSUME FilesAssumption ==
    /\ NoFile \notin Path \cup Content /\ Deleted \notin Content \cup {NoEntry}
    /\ NoEntry \notin Content

\* No symbol is a text, nor is what the model says of untouched and removed ones.
ASSUME GraphAssumption ==
    SharedIds \subseteq SymbolId /\ {None, "untouched", "gone"} \cap Text = {}

\* A cache is opened with a time to live longer than the debounce, which the
\* code leaves to whoever opens it (ValkeyCache::new).
ASSUME CacheAssumption ==
    TOUCH_DEBOUNCE \in Nat /\ ttl_secs \in Nat /\ TOUCH_DEBOUNCE + 1 < ttl_secs

\* Calls are between names; what stands for no file, no row and nobody is none.
ASSUME IndexAssumption ==
    /\ Calls \subseteq Name \X Name /\ MaxIds \in Nat
    /\ NoFile \notin CodeFile /\ \A names \in SUBSET Name : NoFile # names
    /\ Nobody \notin Update
    /\ NoRow \notin [id : 1..MaxIds, name : Name, file : CodeFile]

\* A channel holds an event at least, and there is room for the first one.
ASSUME BusAssumption ==
    Capacity \in Nat \ {0} /\ MaxEvents \in Nat /\ MaxChannels \in Nat \ {0}

\* The interval and the channel of a sink are not empty (tokio panics on an
\* empty one); its tables are in an order.
ASSUME SinkAssumption ==
    /\ flush_interval \in Nat \ {0} /\ channel_capacity \in Nat \ {0}
    /\ Handles \in Nat /\ MaxEmitted \in Nat /\ MaxWrite \in Nat
    /\ Tables \in Seq({Tables[k] : k \in DOMAIN Tables})

VARIABLES
    where, entries, rows, write, list, answered, unsure,
    shared, modified_symbols, added_symbols, removed_symbols, removed_symbol_names, last, unseen,
    alive, since, meta, cached, list_ttl, cached_file, task, silent, late,
    channels, sent, publication, receiver, events,
    symbols, call_edges, docs, staged, lock, job, next_id, latest, indexed, ghosts, contested,
    handles, table, channel, batch, age, due, writing, todo, spent, exited, inserted, dropped, lost

F == INSTANCE WorkspaceFiles WITH job <- write
G == INSTANCE SessionGraph WITH Id <- SymbolId, File <- Path
C == INSTANCE WorkspaceCache WITH Path <- CodeFile, listed <- cached, file <- cached_file
B == INSTANCE EventBus WITH job <- publication
A == INSTANCE AnalyticsSink WITH MaxEvents <- MaxEmitted, rows <- inserted
I == INSTANCE CodeIndex WITH File <- CodeFile, shared <- contested

-----------------------------------------------------------------------------
\* What an answered write left is in memory, in its row and in every answer,
\* until the next write (overlay.rs, session_workspace.rs, file_list.rs).
FilesAreSound == F!TypeOK /\ F!AnsweredSurvives /\ F!OneView /\ F!AddedIsMarked

\* A session sees each symbol as it last left it, or as it is shared, and every
\* symbol it changed is among the names of its changes (session_graph.rs).
GraphIsSound == G!TypeOK /\ G!ViewIsLastChange /\ G!ChangesAreNamed

\* A workspace in use stays cached, and an eviction finds what is cached of
\* one (valkey_cache.rs).
CacheIsSound == C!TypeOK /\ C!UsedStaysCached /\ C!EvictFindsAll

\* Publishers and receivers of a repository meet on one channel, nobody loses
\* an event without being told, and who listens to all repositories is sent
\* every event (events.rs).
BusIsSound ==
    /\ [](B!TypeOK /\ B!ReceiversAreFound /\ B!MissedIsTold)
    /\ B!AllHearEverything

\* A file that was indexed to the end has its rows, its calls and its
\* documents, and a search finds nothing else but the known leftovers (repo.rs).
IndexIsSound == I!TypeOK /\ I!RowIsSearchable /\ I!NoGhosts /\ I!FileIsIndexed

\* No analytics event is written twice, out of order, or left out unless it is
\* known to be, and none stays in the batch for two flush intervals (sink.rs).
SinkIsSound == A!TypeOK /\ A!EachEventOnce /\ A!NoRowWaitsLong
=============================================================================
