------------------------------ MODULE McpServer ------------------------------
(***************************************************************************)
(* The MCP bridge of dk-mcp (server.rs): its table of sessions, the cached *)
(* gRPC client, and above all the watch streams -- one background task per *)
(* session that forwards the engine's events into a bounded buffer which   *)
(* the tools drain.  Tool calls run concurrently; they share maps, each    *)
(* behind a lock of its own that is held for one access (watch_tasks is    *)
(* the exception, and is modelled as a lock).  A step is therefore one     *)
(* access, or several that commute with everything in between.             *)
(*                                                                         *)
(* On the other side of a stream is handle_watch of dk-protocol: a cursor  *)
(* in the bounded broadcast channel of the event bus and a bounded pipe.   *)
(***************************************************************************)
EXTENDS Naturals, Sequences, FiniteSets

CONSTANTS
  Session,
  Connect, Watch, Close,   \* the calls of dk_connect, dk_watch and the closing
                           \* tools (dk_close, dk_merge, dk_abandon)
  Held,                    \* the sessions connected, and quiet, at the start
  SessionOf,               \* [Connect \union Watch \union Close -> Session]
  Resumes,                 \* [Connect -> Session \union {NoSession}]
  FilterOf,                \* [Watch -> Kind \union {"*"}]
  Waits,                   \* the dk_watch calls with wait = true
  BufCap, PipeCap, BusCap, \* 100 buffered events, pipe of 64, channel of 256
  Happening,               \* the events that may be published ...
  MaxEvents,               \* ... and, a bound, how many are
  NoSession, None, Parked

Call == Connect \union Watch \union Close
Starter == Connect \union Watch   \* each starts at most one stream, and names it
Notify == Watch \X {1, 2}         \* the Notify objects, named by who makes them
Kind == {"conflict", "release", "change"}

ASSUME HappeningAssumption ==
  Happening \subseteq [from : Session \union {NoSession}, kind : Kind]

ASSUME CapsAssumption ==
  /\ BufCap \in Nat \ {0} /\ PipeCap \in Nat \ {0} /\ BusCap \in Nat \ {0}
  /\ MaxEvents \in Nat

ASSUME CallsAssumption ==
  /\ Connect \intersect Watch = {} /\ Connect \intersect Close = {}
  /\ Watch \intersect Close = {}
  /\ SessionOf \in [Call -> Session]
  /\ Resumes \in [Connect -> Session \union {NoSession}]
  /\ FilterOf \in [Watch -> Kind \union {"*"}] /\ Held \subseteq Session
  /\ None \notin Starter \union Notify /\ Parked \notin Starter

VARIABLES
  pc,         \* where each call is
  sessions,   \* sessions: the keys of the table
  client,     \* grpc_client is Some
  alive,      \* the sessions the engine holds
  nats,       \* sessions with a NATS task and its flag
  tasks,      \* watch_tasks: [Session -> Starter \union {Parked, None}]
  tasksLock,  \* the call holding the lock of watch_tasks, or None
  flags,      \* watch_cancellations: whose flag is stored
  filters,    \* watch_filters
  pending,    \* pending_watch_events
  warnings,   \* pending_warnings
  overflow,   \* watch_overflow
  notify,     \* watch_notify: the Notify stored, named <<call, n>>, or None
  permits,    \* the Notify objects holding a permit
  mine,       \* the Notify a dk_watch call cloned
  woken,      \* waiting calls that were notified
  seen,       \* dk_watch calls whose drain found something
  stream,     \* the state of each stream task
  cancelled,  \* its cancellation flag
  at,         \* its cursor in the broadcast channel
  pipe,       \* events on their way to it
  hold,       \* the event it is handling
  todo,       \* what it does next
  log         \* every event published, in order: the broadcast channel

sessionVars == <<sessions, client, alive, nats>>
mapVars == <<tasks, tasksLock, flags, filters>>
bufVars == <<pending, warnings, overflow>>
notifyVars == <<notify, permits, mine, woken, seen>>
streamVars == <<stream, cancelled, at, pipe, hold, todo>>
vars == <<pc, sessionVars, mapVars, bufVars, notifyVars, streamVars, log>>

Stage == {"idle", "create", "reuse", "rpc", "retry", "store", "evict", "nats",
          "check", "cancel", "park", "client", "giveup", "flag", "filter",
          "install", "drop", "notify", "events", "overflow", "fresh", "wait",
          "drain", "remove", "flags", "tasks", "maps", "done"}
FilterOfStarter(i) == IF i \in Connect THEN "*" ELSE FilterOf[i]
Running(i) == stream[i] \in {"spawned", "open"}

TypeOK ==
  /\ pc \in [Call -> Stage]
  /\ sessions \subseteq Session /\ alive \subseteq Session /\ nats \subseteq Session
  /\ client \in BOOLEAN
  /\ tasks \in [Session -> Starter \union {Parked, None}]
  /\ tasksLock \in Starter \union {None}
  /\ flags \in [Session -> Starter \union {None}]
  /\ filters \in [Session -> Kind \union {"*", None}]
  /\ \A s \in Session : Len(pending[s]) <= BufCap /\ pending[s] \in Seq(1..MaxEvents)
  /\ warnings \in [Session -> SUBSET (1..MaxEvents)]
  /\ overflow \in [Session -> BOOLEAN]
  /\ notify \in [Session -> Notify \union {None}] /\ permits \subseteq Notify
  /\ mine \in [Watch -> Notify \union {None}]
  /\ woken \subseteq Watch /\ seen \subseteq Watch
  /\ stream \in [Starter -> {"none", "spawned", "open", "finished", "aborted"}]
  /\ cancelled \in [Starter -> BOOLEAN]
  /\ at \in [Starter -> Nat]
  /\ \A i \in Starter : Len(pipe[i]) <= PipeCap /\ pipe[i] \in Seq(1..MaxEvents)
  /\ hold \in [Starter -> 0..MaxEvents]
  /\ todo \in [Starter -> {"receive", "deliver", "flag", "wake"}]
  /\ Len(log) <= MaxEvents
  /\ log \in Seq(Happening)

Init ==
  /\ pc = [c \in Call |-> "idle"]
  /\ sessions = Held /\ alive = Held /\ nats = {}
  /\ client = (Held # {})
  /\ tasks = [s \in Session |-> None] /\ tasksLock = None
  /\ flags = [s \in Session |-> None] /\ filters = [s \in Session |-> None]
  /\ pending = [s \in Session |-> <<>>] /\ warnings = [s \in Session |-> {}]
  /\ overflow = [s \in Session |-> FALSE]
  /\ notify = [s \in Session |-> None] /\ permits = {}
  /\ mine = [w \in Watch |-> None] /\ woken = {} /\ seen = {}
  /\ stream = [i \in Starter |-> "none"] /\ cancelled = [i \in Starter |-> FALSE]
  /\ at = [i \in Starter |-> 0] /\ pipe = [i \in Starter |-> <<>>]
  /\ hold = [i \in Starter |-> 0] /\ todo = [i \in Starter |-> "receive"]
  /\ log = <<>>

Goto(c, from, to) == pc[c] = from /\ pc' = [pc EXCEPT ![c] = to]

-----------------------------------------------------------------------------
(* Notify of tokio: notify_one wakes one waiting call, or leaves a permit. *)

Wakers(g) == {w \in Watch : pc[w] = "wait" /\ mine[w] = g /\ w \notin woken}
NotifyOne_noPermit(g) ==       \* mutant: notify_waiters
  UNCHANGED permits /\ woken' = woken \union Wakers(g)
NotifyOne(g) ==
  IF Wakers(g) = {}
  THEN permits' = permits \union {g} /\ UNCHANGED woken
  ELSE \E w \in Wakers(g) : woken' = woken \union {w} /\ UNCHANGED permits

NotifyAll_forgets(ss) == UNCHANGED <<permits, woken>>   \* mutant: only removed
\* notify_one on every stored Notify of the sessions ss
NotifyAll(ss) ==
  LET stored == {notify[s] : s \in ss} \ {None}
  IN /\ woken' = woken \union UNION {Wakers(g) : g \in stored}
     /\ permits' = permits \union {g \in stored : Wakers(g) = {}}

-----------------------------------------------------------------------------
(* The cached client.                                                      *)

\* get_client: cached, or reconnected as long as some session is stored
\* (the reconnection may fail), or refused.
ClientFound == client \/ sessions # {}

\* dk_connect looks whether a client is cached ...
ConnectBegins(c) ==
  /\ Goto(c, "idle", IF client THEN "reuse" ELSE "create")
  /\ UNCHANGED <<sessionVars, mapVars, bufVars, notifyVars, streamVars, log>>

\* ... makes one, which may fail, or asks get_client for it, which is another
\* access and may find it gone.
ConnectClient(c) ==
  /\ \/ Goto(c, "create", "rpc") /\ client' = TRUE
     \/ Goto(c, "create", "done") /\ UNCHANGED client
     \/ ClientFound /\ Goto(c, "reuse", "rpc") /\ client' = TRUE
     \/ ~client /\ Goto(c, "reuse", "done") /\ UNCHANGED client
  /\ UNCHANGED <<sessions, alive, nats, mapVars, bufVars, notifyVars, streamVars, log>>

\* CONNECT: answered, refused as Unauthenticated and tried once more with a
\* new token and client, or failed.
ConnectRpc(c) ==
  /\ \/ \E from \in {"rpc", "retry"} :
          /\ Goto(c, from, "store")
          /\ alive' = (alive \union {SessionOf[c]}) \ {Resumes[c]}
          /\ UNCHANGED client
     \/ Goto(c, "rpc", "retry") /\ client' = TRUE /\ UNCHANGED alive
     \/ \E from \in {"rpc", "retry"} : Goto(c, from, "done") /\ UNCHANGED <<alive, client>>
  /\ UNCHANGED <<sessions, nats, mapVars, bufVars, notifyVars, streamVars, log>>

\* The session is stored, and the one it resumes is evicted.
ConnectStores(c) ==
  /\ Goto(c, "store", IF Resumes[c] = NoSession THEN "nats" ELSE "evict")
  /\ sessions' = (sessions \union {SessionOf[c]}) \ {Resumes[c]}
  /\ UNCHANGED <<client, alive, nats, mapVars, bufVars, notifyVars, streamVars, log>>

\* The background tasks of the resumed session go: NATS first, then watch.
ConnectEvicts(c) ==
  /\ Goto(c, "evict", "flags")
  /\ nats' = nats \ {Resumes[c]}
  /\ warnings' = [warnings EXCEPT ![Resumes[c]] = {}]
  /\ UNCHANGED <<sessions, client, alive, mapVars, pending, overflow, notifyVars,
                 streamVars, log>>

\* The NATS task is spawned (when configured), and with a clone of the server a
\* task that starts the watch stream; dk_connect answers.
ConnectAnswers(c) ==
  /\ Goto(c, "nats", "check")
  /\ nats' \in {nats, nats \union {SessionOf[c]}}
  /\ UNCHANGED <<sessions, client, alive, mapVars, bufVars, notifyVars, streamVars, log>>

-----------------------------------------------------------------------------
(* start_watch_stream, run by dk_watch and by the task of dk_connect.      *)

Answered(s) == \A c \in Connect : SessionOf[c] = s =>
  pc[c] \notin {"idle", "create", "reuse", "rpc", "retry", "store", "evict", "nats"}

\* dk_watch resolves its session.
WatchBegins(c) ==
  /\ SessionOf[c] \in sessions /\ Answered(SessionOf[c])
  /\ Goto(c, "idle", "check")
  /\ UNCHANGED <<sessionVars, mapVars, bufVars, notifyVars, streamVars, log>>

\* What a starter does when start_watch_stream returns.
After(c) == IF c \in Connect THEN "drop" ELSE "notify"

Finished(h) == h # Parked /\ ~Running(h)

\* Under the lock of watch_tasks: nothing to do when a stream (or a parked
\* placeholder) with this filter is there, else the old one is to be replaced.
Check(c) ==
  LET s == SessionOf[c]
      same == filters[s] = FilterOfStarter(c)
  IN /\ tasksLock = None
     /\ IF tasks[s] = None THEN Goto(c, "check", "park") /\ tasksLock' = c
        ELSE IF same /\ ~Finished(tasks[s])
             THEN Goto(c, "check", After(c)) /\ UNCHANGED tasksLock
        ELSE Goto(c, "check", "cancel") /\ tasksLock' = c
     /\ UNCHANGED <<sessionVars, tasks, flags, filters, bufVars, notifyVars,
                    streamVars, log>>

Raise(flag) == IF flag = None THEN cancelled ELSE [cancelled EXCEPT ![flag] = TRUE]

\* Aborting the tasks ts; what the engine still had for them is dropped.
Abort(ts) ==
  LET gone == {i \in ts \intersect Starter : Running(i)}
  IN /\ stream' = [i \in Starter |-> IF i \in gone THEN "aborted" ELSE stream[i]]
     /\ pipe' = [i \in Starter |-> IF i \in gone THEN <<>> ELSE pipe[i]]
     /\ at' = [i \in Starter |-> IF i \in gone THEN 0 ELSE at[i]]
     /\ hold' = [i \in Starter |-> IF i \in gone THEN 0 ELSE hold[i]]

CancelOld(c) ==
  LET s == SessionOf[c]
  IN /\ Goto(c, "cancel", "park")
     /\ flags' = [flags EXCEPT ![s] = None]
     /\ cancelled' = Raise(flags[s])
     /\ UNCHANGED <<sessionVars, tasks, tasksLock, filters, bufVars, notifyVars,
                    stream, at, pipe, hold, todo, log>>

\* The old task is aborted and a placeholder parked in its place.
Park(c) ==
  LET s == SessionOf[c]
  IN /\ Goto(c, "park", "client")
     /\ Abort({tasks[s]})
     /\ filters' = [filters EXCEPT ![s] = IF tasks[s] = None THEN @ ELSE None]
     /\ tasks' = [tasks EXCEPT ![s] = Parked]
     /\ tasksLock' = None
     /\ UNCHANGED <<sessionVars, flags, bufVars, notifyVars, cancelled, todo, log>>

GetClient(c) ==
  /\ \/ ClientFound /\ Goto(c, "client", "flag") /\ client' = TRUE
     \/ ~client /\ Goto(c, "client", "giveup") /\ UNCHANGED client
  /\ UNCHANGED <<sessions, alive, nats, mapVars, bufVars, notifyVars, streamVars, log>>

\* Without a client, whatever handle is stored goes.
GiveUp(c) ==
  LET s == SessionOf[c]
  IN /\ tasksLock = None
     /\ Goto(c, "giveup", After(c))
     /\ tasks' = [tasks EXCEPT ![s] = None]
     /\ Abort({tasks[s]})
     /\ UNCHANGED <<sessionVars, tasksLock, flags, filters, bufVars, notifyVars,
                    cancelled, todo, log>>

StoreFlag(c) ==
  LET s == SessionOf[c]
  IN /\ Goto(c, "flag", "filter")
     /\ flags' = [flags EXCEPT ![s] = c]
     /\ cancelled' = Raise(flags[s])
     /\ UNCHANGED <<sessionVars, tasks, tasksLock, filters, bufVars, notifyVars,
                    stream, at, pipe, hold, todo, log>>

\* The filter is stored and the stream task spawned.
StoreFilter(c) ==
  /\ Goto(c, "filter", "install")
  /\ filters' = [filters EXCEPT ![SessionOf[c]] = FilterOfStarter(c)]
  /\ stream' = [stream EXCEPT ![c] = "spawned"]
  /\ UNCHANGED <<sessionVars, tasks, tasksLock, flags, bufVars, notifyVars,
                 cancelled, at, pipe, hold, todo, log>>

Install_detached(c) ==   \* mutant: the old handle is dropped, not aborted
  LET s == SessionOf[c]
  IN /\ tasksLock = None
     /\ Goto(c, "install", After(c))
     /\ tasks' = [tasks EXCEPT ![s] = c]
     /\ UNCHANGED <<sessionVars, tasksLock, flags, filters, bufVars, notifyVars,
                    streamVars, log>>
\* The handle is stored; the one it replaces, placeholder or stream, is aborted.
Install(c) ==
  LET s == SessionOf[c]
  IN /\ tasksLock = None
     /\ Goto(c, "install", After(c))
     /\ tasks' = [tasks EXCEPT ![s] = c]
     /\ Abort({tasks[s]})
     /\ UNCHANGED <<sessionVars, tasksLock, flags, filters, bufVars, notifyVars,
                    cancelled, todo, log>>

\* The task of dk_connect ends and drops its clone of the server: Drop raises
\* every flag and aborts every task of the maps all clones share (the locks
\* are only tried), and wakes and forgets every Notify.
DropClone(c) ==
  /\ Goto(c, "drop", "done")
  /\ nats' = {}
  /\ cancelled' = [i \in Starter |-> cancelled[i] \/ \E s \in Session : flags[s] = i]
  /\ IF tasksLock = None
     THEN /\ tasks' = [s \in Session |-> None]
          /\ Abort({tasks[s] : s \in Session})
     ELSE UNCHANGED <<tasks, stream, at, pipe, hold>>
  /\ NotifyAll(Session)
  /\ notify' = [s \in Session |-> None]
  /\ UNCHANGED <<sessions, client, alive, tasksLock, flags, filters, bufVars, mine, seen,
                 todo, log>>

-----------------------------------------------------------------------------
(* The rest of dk_watch.                                                   *)

TakeNotify(c) ==
  LET s == SessionOf[c]
      g == IF notify[s] = None THEN <<c, 1>> ELSE notify[s]
  IN /\ Goto(c, "notify", "events")
     /\ notify' = [notify EXCEPT ![s] = g]
     /\ mine' = [mine EXCEPT ![c] = g]
     /\ UNCHANGED <<sessionVars, mapVars, bufVars, permits, woken, seen, streamVars, log>>

\* Warnings and events are drained, then the overflow flag.
DrainEvents(c) ==
  LET s == SessionOf[c]
  IN /\ Goto(c, "events", "overflow")
     /\ warnings' = [warnings EXCEPT ![s] = {}]
     /\ pending' = [pending EXCEPT ![s] = <<>>]
     /\ seen' = IF pending[s] = <<>> THEN seen ELSE seen \union {c}
     /\ UNCHANGED <<sessionVars, mapVars, overflow, notify, permits, mine, woken,
                    streamVars, log>>

\* With nothing to show, a blocking call waits (a stored permit wakes it at
\* once) and a plain one answers; else the Notify is replaced.
DrainOverflow(c) ==
  LET s == SessionOf[c]
      empty == c \notin seen /\ ~overflow[s]
      permit == empty /\ c \in Waits /\ mine[c] \in permits
  IN /\ Goto(c, "overflow", IF ~empty THEN "fresh"
                            ELSE IF c \in Waits THEN "wait" ELSE "done")
     /\ overflow' = [overflow EXCEPT ![s] = FALSE]
     /\ permits' = IF permit THEN permits \ {mine[c]} ELSE permits
     /\ woken' = IF permit THEN woken \union {c} ELSE woken
     /\ UNCHANGED <<sessionVars, mapVars, pending, warnings, notify, mine, seen,
                    streamVars, log>>

FreshNotify(c) ==
  /\ Goto(c, "fresh", "done")
  /\ notify' = [notify EXCEPT ![SessionOf[c]] = <<c, 2>>]
  /\ UNCHANGED <<sessionVars, mapVars, bufVars, permits, mine, woken, seen, streamVars, log>>

\* Woken, it drains once more and answers, whatever it finds.
Wake(c) ==
  LET s == SessionOf[c]
  IN /\ c \in woken /\ Goto(c, "wait", "done")
     /\ pending' = [pending EXCEPT ![s] = <<>>]
     /\ overflow' = [overflow EXCEPT ![s] = FALSE]
     /\ UNCHANGED <<sessionVars, mapVars, warnings, notifyVars, streamVars, log>>

\* The timeout, 30 seconds or what the caller asks up to 120.
TimeOut(c) ==
  /\ c \notin woken /\ Goto(c, "wait", "done")
  /\ UNCHANGED <<sessionVars, mapVars, bufVars, notifyVars, streamVars, log>>

\* drain_notifications, at the end of every other tool.
DrainNotifications(s) ==
  /\ s \in sessions
  /\ pending[s] # <<>> \/ warnings[s] # {} \/ overflow[s]
  /\ pending' = [pending EXCEPT ![s] = <<>>]
  /\ warnings' = [warnings EXCEPT ![s] = {}]
  /\ overflow' = [overflow EXCEPT ![s] = FALSE]
  /\ UNCHANGED <<pc, sessionVars, mapVars, notifyVars, streamVars, log>>

-----------------------------------------------------------------------------
(* dk_close, a successful dk_merge, dk_abandon.                            *)

\* The session is resolved, the client found and the engine has ended the
\* session; or one of these fails and nothing is done here.
CloseRpc(c) ==
  LET s == SessionOf[c]
  IN /\ Answered(s) /\ s \in sessions
     /\ \/ /\ ClientFound /\ Goto(c, "idle", "drain")
           /\ client' = TRUE /\ alive' = alive \ {s}
        \/ Goto(c, "idle", "done") /\ UNCHANGED <<client, alive>>
     /\ UNCHANGED <<sessions, nats, mapVars, bufVars, notifyVars, streamVars, log>>

CloseDrains(c) ==
  LET s == SessionOf[c]
  IN /\ Goto(c, "drain", "remove")
     /\ pending' = [pending EXCEPT ![s] = <<>>]
     /\ warnings' = [warnings EXCEPT ![s] = {}]
     /\ overflow' = [overflow EXCEPT ![s] = FALSE]
     /\ UNCHANGED <<sessionVars, mapVars, notifyVars, streamVars, log>>

\* The session leaves the table and the last one takes the client with it; then
\* NATS and warnings go.
CloseRemoves(c) ==
  LET s == SessionOf[c]
  IN /\ Goto(c, "remove", "flags")
     /\ sessions' = sessions \ {s}
     /\ client' = (client /\ sessions' # {})
     /\ nats' = nats \ {s}
     /\ warnings' = [warnings EXCEPT ![s] = {}]
     /\ UNCHANGED <<alive, mapVars, pending, overflow, notifyVars, streamVars, log>>

\* cleanup_watch_for_session: the flag, the task, then the other maps; a
\* blocking dk_watch is woken.  dk_connect goes on with its own session.
Cleaned(c) == IF c \in Connect THEN Resumes[c] ELSE SessionOf[c]

CleanFlag(c) ==
  /\ Goto(c, "flags", "tasks")
  /\ flags' = [flags EXCEPT ![Cleaned(c)] = None]
  /\ cancelled' = Raise(flags[Cleaned(c)])
  /\ UNCHANGED <<sessionVars, tasks, tasksLock, filters, bufVars, notifyVars,
                 stream, at, pipe, hold, todo, log>>

CleanTask(c) ==
  /\ tasksLock = None
  /\ Goto(c, "tasks", "maps")
  /\ tasks' = [tasks EXCEPT ![Cleaned(c)] = None]
  /\ Abort({tasks[Cleaned(c)]})
  /\ UNCHANGED <<sessionVars, tasksLock, flags, filters, bufVars, notifyVars,
                 cancelled, todo, log>>

CleanMaps(c) ==
  LET s == Cleaned(c)
  IN /\ Goto(c, "maps", IF c \in Connect THEN "nats" ELSE "done")
     /\ filters' = [filters EXCEPT ![s] = None]
     /\ pending' = [pending EXCEPT ![s] = <<>>]
     /\ overflow' = [overflow EXCEPT ![s] = FALSE]
     /\ NotifyAll({s})
     /\ notify' = [notify EXCEPT ![s] = None]
     /\ UNCHANGED <<sessionVars, tasks, tasksLock, flags, warnings, mine, seen,
                    streamVars, log>>

-----------------------------------------------------------------------------
(* A stream: handle_watch on the engine's side, the spawned task on ours.  *)

\* Some session, or somebody outside this bridge, causes an event.
Publish ==
  /\ Len(log) < MaxEvents
  /\ \E e \in Happening :
       e.from \in alive \union {NoSession} /\ log' = Append(log, e)
  /\ UNCHANGED <<pc, sessionVars, mapVars, bufVars, notifyVars, streamVars>>

\* WATCH subscribes from now on, or is refused for a session that is gone.
Open(i) ==
  /\ stream[i] = "spawned"
  /\ stream' = [stream EXCEPT ![i] = IF SessionOf[i] \in alive THEN "open" ELSE "finished"]
  /\ at' = [at EXCEPT ![i] = Len(log)]
  /\ UNCHANGED <<pc, sessionVars, mapVars, bufVars, notifyVars, cancelled, pipe, hold, todo, log>>

Matches(kind, filter) == filter \in {"*", kind}

\* The next event is forwarded, unless it is the session's own or filtered out.
\* A receiver more than BusCap behind skips what was overwritten.
Forward(i) ==
  LET behind == Len(log) - at[i]
      next == IF behind > BusCap THEN Len(log) - BusCap + 1 ELSE at[i] + 1
      wanted == /\ log[next].from # SessionOf[i]
                /\ Matches(log[next].kind, FilterOfStarter(i))
  IN /\ stream[i] = "open" /\ behind > 0
     /\ wanted => Len(pipe[i]) < PipeCap
     /\ pipe' = IF wanted THEN [pipe EXCEPT ![i] = Append(@, next)] ELSE pipe
     /\ at' = [at EXCEPT ![i] = next]
     /\ UNCHANGED <<pc, sessionVars, mapVars, bufVars, notifyVars, stream, cancelled,
                    hold, todo, log>>

\* The task takes an event, or stops at its flag and drops the event.
Receive(i) ==
  /\ stream[i] = "open" /\ todo[i] = "receive" /\ pipe[i] # <<>>
  /\ pipe' = [pipe EXCEPT ![i] = Tail(@)]
  /\ IF cancelled[i]
     THEN stream' = [stream EXCEPT ![i] = "finished"] /\ UNCHANGED <<hold, todo>>
     ELSE /\ hold' = [hold EXCEPT ![i] = Head(pipe[i])]
          /\ todo' = [todo EXCEPT ![i] = "deliver"] /\ UNCHANGED stream
  /\ UNCHANGED <<pc, sessionVars, mapVars, bufVars, notifyVars, cancelled, at, log>>

Full(s) == Len(pending[s]) >= BufCap

\* A conflict becomes a warning; another event is buffered, once, or noted as
\* dropped when the buffer is full.
Deliver(i) ==
  LET s == SessionOf[i]
      e == hold[i]
      known == \E n \in 1..Len(pending[s]) : pending[s][n] = e
  IN /\ stream[i] = "open" /\ todo[i] = "deliver"
     /\ IF log[e].kind = "conflict"
        THEN /\ warnings' = [warnings EXCEPT ![s] = @ \union {e}]
             /\ todo' = [todo EXCEPT ![i] = "receive"] /\ UNCHANGED pending
        ELSE /\ UNCHANGED warnings
             /\ \/ known /\ todo' = [todo EXCEPT ![i] = "receive"] /\ UNCHANGED pending
                \/ /\ ~known /\ ~Full(s)
                   /\ pending' = [pending EXCEPT ![s] = Append(@, e)]
                   /\ todo' = [todo EXCEPT ![i] = "wake"]
                \/ /\ ~known /\ Full(s)
                   /\ todo' = [todo EXCEPT ![i] = "flag"] /\ UNCHANGED pending
     /\ hold' = [hold EXCEPT ![i] = 0]
     /\ UNCHANGED <<pc, sessionVars, mapVars, overflow, notifyVars, stream, cancelled,
                    at, pipe, log>>

FlagOverflow(i) ==
  /\ stream[i] = "open" /\ todo[i] = "flag"
  /\ overflow' = [overflow EXCEPT ![SessionOf[i]] = TRUE]
  /\ todo' = [todo EXCEPT ![i] = "wake"]
  /\ UNCHANGED <<pc, sessionVars, mapVars, pending, warnings, notifyVars, stream,
                 cancelled, at, pipe, hold, log>>

NotifyWatch(i) ==
  LET g == notify[SessionOf[i]]
  IN /\ stream[i] = "open" /\ todo[i] = "wake"
     /\ IF g = None THEN UNCHANGED <<permits, woken>> ELSE NotifyOne(g)
     /\ todo' = [todo EXCEPT ![i] = "receive"]
     /\ UNCHANGED <<pc, sessionVars, mapVars, bufVars, notify, mine, seen, stream,
                    cancelled, at, pipe, hold, log>>

\* The connection breaks; what was in the pipe is lost.
Break(i) ==
  /\ Running(i) /\ todo[i] = "receive"
  /\ stream' = [stream EXCEPT ![i] = "finished"]
  /\ pipe' = [pipe EXCEPT ![i] = <<>>]
  /\ UNCHANGED <<pc, sessionVars, mapVars, bufVars, notifyVars, cancelled, at, hold, todo, log>>

-----------------------------------------------------------------------------
ConnectStep(c) == \/ ConnectBegins(c) \/ ConnectClient(c) \/ ConnectRpc(c)
                  \/ ConnectStores(c) \/ ConnectEvicts(c) \/ ConnectAnswers(c)
                  \/ DropClone(c)
StartStep(c) == \/ Check(c) \/ CancelOld(c) \/ Park(c) \/ GetClient(c) \/ GiveUp(c)
                \/ StoreFlag(c) \/ StoreFilter(c) \/ Install(c)
WatchStep(c) == \/ TakeNotify(c) \/ DrainEvents(c) \/ DrainOverflow(c)
                \/ FreshNotify(c) \/ Wake(c) \/ TimeOut(c)
CloseStep(c) == CloseDrains(c) \/ CloseRemoves(c)
CleanStep(c) == CleanFlag(c) \/ CleanTask(c) \/ CleanMaps(c)
StreamStep(i) == \/ Open(i) \/ Forward(i) \/ Receive(i) \/ Deliver(i)
                 \/ FlagOverflow(i) \/ NotifyWatch(i)

Next ==
  \/ \E c \in Connect : ConnectStep(c)
  \/ \E c \in Starter : StartStep(c)
  \/ \E c \in Watch : WatchBegins(c) \/ WatchStep(c)
  \/ \E c \in Close : CloseRpc(c) \/ CloseStep(c)
  \/ \E c \in Connect \union Close : CleanStep(c)
  \/ \E s \in Session : DrainNotifications(s)
  \/ \E i \in Starter : StreamStep(i) \/ Break(i)
  \/ Publish

Spec == Init /\ [][Next]_vars

-----------------------------------------------------------------------------
(* No stream is left running unattended: a stream task that still runs is  *)
(* the one watch_tasks holds for its session, or its starter is about to   *)
(* store it there -- whatever starters, closers and dropped clones do in   *)
(* between.  A detached task would feed the session's buffer for ever.     *)
NoStrayStream ==
  \A i \in Starter : Running(i) => tasks[SessionOf[i]] = i \/ pc[i] = "install"

(* Whoever sleeps can be reached: the Notify a blocking dk_watch sleeps on *)
(* is the stored one, which events, overflows, cleanup and Drop signal.    *)
(* (Two dk_watch calls on one session would not keep this: the first to    *)
(* find events replaces the Notify of the other.)                          *)
WaiterIsReachable ==
  \A w \in Watch : pc[w] = "wait" /\ w \notin woken => notify[SessionOf[w]] = mine[w]

(* No lost wake-up: when the buffer of a sleeping dk_watch has something,  *)
(* the stream that put it there is about to wake it (or was aborted right  *)
(* before doing so, the one way to sleep on until the timeout).            *)
NoLostWakeup ==
  \A w \in Watch :
    /\ pc[w] = "wait" /\ w \notin woken
    /\ pending[SessionOf[w]] # <<>> \/ overflow[SessionOf[w]]
    => \E i \in Starter : SessionOf[i] = SessionOf[w] /\ todo[i] = "wake"

(* dk_watch's description: the stream is "automatically started on         *)
(* dk_connect".  A stream so started is aborted only to give way to        *)
(* another of its session, or with the session.                            *)
ConnectedIsWatched ==
  \A c \in Connect :
    stream[c] = "aborted" /\ SessionOf[c] \in sessions => tasks[SessionOf[c]] # None

(* The variables keep their types, and no wake-up is lost.                 *)
WakeupIsSound == TypeOK /\ NoLostWakeup

=============================================================================
