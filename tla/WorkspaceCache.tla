--------------------------- MODULE WorkspaceCache ---------------------------
(***************************************************************************)
(* The second-level cache of workspaces: keys of a workspace in Valkey,    *)
(* each with a time to live, and the tasks that WorkspaceManager spawns to *)
(* register a workspace, to refresh its keys when it is used, and to evict *)
(* them when it leaves memory.  Nobody waits for a task: tasks run in any  *)
(* order, the two that read the set of cached files first in two steps,    *)
(* and a failure is only logged.  Overlay entries are cached by callers of *)
(* the cache itself.  The key of the graph is like that of the snapshot.   *)
(*                                                                         *)
(* Time is counted in ticks.                                               *)
(***************************************************************************)
EXTENDS Naturals, FiniteSets

CONSTANTS
    Workspace, Path,
    ttl_secs, TOUCH_DEBOUNCE,   \* in ticks
    Task                        \* spawned tasks that have not ended

VARIABLES
    alive,       \* the state of each workspace: "new", "memory" or "gone"
    since,       \* ticks since last_touched, and one more than the debounce at most
    meta,        \* ticks until {id}:meta expires, 0 if it has
    listed, list_ttl,   \* the set {id}:files
    file,        \* ticks until each {id}:file:{path} expires
    task,        \* what each task does, and what it has read
    silent,      \* ticks since the last use of the workspace (history)
    late         \* workspaces with a task that failed, was slow or out of order (history)

vars == <<alive, since, meta, listed, list_ttl, file, task, silent, late>>
keys == <<meta, listed, list_ttl, file>>

NoTask == [op |-> "none", paths |-> {}]
Spawned(op, w) == [op |-> op, on |-> w, paths |-> {}]
Free == {k \in Task : task[k] = NoTask}
TasksOf(w) == {k \in Task : task[k] # NoTask /\ task[k].on = w}
Lapsed == TOUCH_DEBOUNCE + 1

TypeOK ==
    /\ alive \in [Workspace -> {"new", "memory", "gone"}]
    /\ {since, silent} \subseteq [Workspace -> 0..Lapsed]
    /\ {meta, list_ttl} \subseteq [Workspace -> 0..ttl_secs]
    /\ listed \in [Workspace -> SUBSET Path]
    /\ file \in [Workspace -> [Path -> 0..ttl_secs]]
    /\ late \subseteq Workspace

Init ==
    /\ alive = [w \in Workspace |-> "new"]
    /\ since = [w \in Workspace |-> Lapsed] /\ silent = [w \in Workspace |-> 0]
    /\ meta = [w \in Workspace |-> 0] /\ list_ttl = [w \in Workspace |-> 0]
    /\ listed = [w \in Workspace |-> {}]
    /\ file = [w \in Workspace |-> [p \in Path |-> 0]]
    /\ task = [k \in Task |-> NoTask] /\ late = {}

Spawn(op, w) == \E k \in Free : task' = [task EXCEPT ![k] = Spawned(op, w)]

\* create_workspace
Create(w) ==
    /\ alive[w] = "new" /\ alive' = [alive EXCEPT ![w] = "memory"]
    /\ Spawn("register", w)
    /\ UNCHANGED <<since, keys, silent, late>>

IsLapsed(w) == since[w] > TOUCH_DEBOUNCE

\* get_workspace and get_workspace_mut
Use(w) ==
    /\ alive[w] = "memory"
    /\ silent' = [silent EXCEPT ![w] = 0]
    /\ IF IsLapsed(w)
         THEN Spawn("touch", w) /\ since' = [since EXCEPT ![w] = 0]
         ELSE UNCHANGED <<task, since>>
    /\ UNCHANGED <<alive, keys, late>>

\* destroy_workspace and the other ways out of memory
Destroy(w) ==
    /\ alive[w] = "memory" /\ alive' = [alive EXCEPT ![w] = "gone"]
    /\ since' = [since EXCEPT ![w] = Lapsed]
    /\ Spawn("evict", w)
    /\ UNCHANGED <<keys, silent, late>>

-----------------------------------------------------------------------------
\* The tasks.  SMEMBERS finds nothing once the set has expired.

End(k) == task' = [task EXCEPT ![k] = NoTask]

CacheWorkspace(k) ==
    LET w == task[k].on IN
    /\ task[k].op = "register"
    /\ meta' = [meta EXCEPT ![w] = ttl_secs]
    /\ End(k)
    /\ late' = IF alive[w] = "gone" THEN late \cup {w} ELSE late
    /\ UNCHANGED <<alive, since, listed, list_ttl, file, silent>>

ReadSet(k) ==
    /\ task[k].op \in {"touch", "evict"}
    /\ task' = [task EXCEPT ![k].paths = listed[task[k].on],
                            ![k].op = IF @ = "touch" THEN "expire" ELSE "delete"]
    /\ UNCHANGED <<alive, since, keys, silent, late>>

\* EXPIRE does nothing to a key that is not there.
Renewed(left) == IF left > 0 THEN ttl_secs ELSE 0

\* Mutant: the set of files is forgotten.
ListRenewed_not(w) == list_ttl

ListRenewed(w) == [list_ttl EXCEPT ![w] = Renewed(@)]

Expire(k) ==
    LET w == task[k].on IN
    /\ task[k].op = "expire"
    /\ meta' = [meta EXCEPT ![w] = Renewed(@)]
    /\ list_ttl' = ListRenewed(w)
    /\ file' = [file EXCEPT ![w] = [p \in Path |->
                  IF p \in task[k].paths THEN Renewed(file[w][p]) ELSE file[w][p]]]
    /\ End(k)
    /\ UNCHANGED <<alive, since, listed, silent, late>>

\* A file cached since the set was read is left behind.
Delete(k) ==
    LET w == task[k].on
        kept == [p \in Path |-> IF p \in task[k].paths THEN 0 ELSE file[w][p]]
    IN
    /\ task[k].op = "delete"
    /\ meta' = [meta EXCEPT ![w] = 0]
    /\ listed' = [listed EXCEPT ![w] = {}] /\ list_ttl' = [list_ttl EXCEPT ![w] = 0]
    /\ file' = [file EXCEPT ![w] = kept]
    /\ End(k)
    /\ late' = IF \E p \in Path : kept[p] > 0 THEN late \cup {w} ELSE late
    /\ UNCHANGED <<alive, since, silent>>

TaskFails(k) ==
    /\ task[k] # NoTask
    /\ End(k) /\ late' = late \cup {task[k].on}
    /\ UNCHANGED <<alive, since, keys, silent>>

\* cache_file, one pipeline
CacheFile(w, p) ==
    /\ alive[w] = "memory"
    /\ file' = [file EXCEPT ![w][p] = ttl_secs]
    /\ listed' = [listed EXCEPT ![w] = @ \cup {p}]
    /\ list_ttl' = [list_ttl EXCEPT ![w] = ttl_secs]
    /\ UNCHANGED <<alive, since, meta, task, silent, late>>

Less(n) == IF n > 0 THEN n - 1 ELSE 0
More(n) == IF n < Lapsed THEN n + 1 ELSE n

Tick ==
    /\ since' = [w \in Workspace |-> More(since[w])]
    /\ silent' = [w \in Workspace |-> IF alive[w] = "memory" THEN More(silent[w]) ELSE 0]
    /\ meta' = [w \in Workspace |-> Less(meta[w])]
    /\ list_ttl' = [w \in Workspace |-> Less(list_ttl[w])]
    /\ listed' = [w \in Workspace |-> IF list_ttl[w] > 1 THEN listed[w] ELSE {}]
    /\ file' = [w \in Workspace |-> [p \in Path |-> Less(file[w][p])]]
    /\ late' = late \cup {w \in Workspace : TasksOf(w) # {} \/ silent[w] > 0}
    /\ UNCHANGED <<alive, task>>

Next ==
    \/ \E w \in Workspace : Create(w) \/ Use(w) \/ Destroy(w) \/ \E p \in Path : CacheFile(w, p)
    \/ \E k \in Task : CacheWorkspace(k) \/ ReadSet(k) \/ Expire(k) \/ Delete(k) \/ TaskFails(k)
    \/ Tick

Spec == Init /\ [][Next]_vars

-----------------------------------------------------------------------------
\* A workspace that is in use stays cached, however long: the debounce does
\* not let its snapshot expire between two refreshes (touch_in_cache).  Here a
\* workspace is in use that is looked up in every tick, and whose tasks end in
\* the tick they begin in.
UsedStaysCached ==
    \A w \in Workspace \ late :
        alive[w] = "memory" /\ TasksOf(w) = {} => meta[w] > 0

\* Every cached file is in the set, which outlives it, so that an eviction
\* leaves nothing of the workspace behind: no refresh brings back what was
\* deleted (ValkeyCache::evict and touch).  Excepted are workspaces with a
\* task that failed, was slow or registered them after their eviction, and
\* files cached while the eviction ran.
EvictFindsAll ==
    \A w \in Workspace \ late : \A p \in Path :
        /\ file[w][p] > 0 => p \in listed[w] /\ list_ttl[w] >= file[w][p]
        /\ alive[w] = "gone" /\ TasksOf(w) = {} => file[w][p] = 0 /\ meta[w] = 0
=============================================================================
