---------------------------- MODULE SessionStore ----------------------------
(***************************************************************************)
(* The two stores of agent sessions behind the trait SessionStore.         *)
(* SessionManager keeps the sessions and the snapshots of ended ones in    *)
(* two concurrent maps, each touched under its own guard; RedisSessionStore *)
(* keeps them under keys that expire, and reads, decides and writes in     *)
(* separate commands, any of which may fail.                               *)
(*                                                                         *)
(* Time is the number of ticks since a session was last active, up to one  *)
(* past the largest timeout.  What is stored of a session besides that is  *)
(* its identity, and a snapshot is a copy of it.                           *)
(***************************************************************************)
EXTENDS Integers

CONSTANTS
    Id,         \* session ids
    Caller,     \* requests in flight
    Timeouts    \* the timeouts a server may be started with, in ticks

\* Timeouts is a set of positive numbers, and not empty.

VARIABLES
    backend,     \* "memory" or "redis"
    timeout,     \* the timeout of the running server
    idle,        \* ticks since a stored session was active, or Absent
    left,        \* ticks until Redis drops the session's key
    snapshot,    \* the ids with a snapshot
    call,        \* a request's operation, session, step and what it has read
    removed,     \* ids whose removal was answered with TRUE (history)
    saves,       \* times a snapshot was stored, and was handed to a caller (history)
    troubled     \* ids with a failed command, or with calls that overlapped (history)

vars == <<backend, timeout, idle, left, snapshot, call, removed, saves, troubled>>

Absent == -1
Unused == -2
Horizon == 1 + CHOOSE t \in Timeouts : \A u \in Timeouts : t >= u

Nothing == [op |-> "none", id |-> "none", pc |-> "none", found |-> Absent]

TypeOK ==
    /\ backend \in {"memory", "redis"} /\ timeout \in Timeouts
    /\ idle \in [Id -> {Absent, Unused} \cup 0..Horizon]
    /\ left \in [Id -> 0..Horizon]
    /\ UNION {snapshot, removed, troubled} \subseteq Id
    /\ saves \in [Id -> [stored : 0..3, handed : 0..3]]
    /\ \A c \in Caller : call[c].found \in {Absent} \cup 0..Horizon

Init ==
    /\ backend \in {"memory", "redis"} /\ timeout \in Timeouts
    /\ idle = [i \in Id |-> Unused]
    /\ left = [i \in Id |-> 0]
    /\ snapshot = {} /\ removed = {} /\ troubled = {}
    /\ saves = [i \in Id |-> [stored |-> 0, handed |-> 0]]
    /\ call = [c \in Caller |-> Nothing]

\* elapsed > timeout, in both stores.
Expired(age) == age > timeout

Memory == backend = "memory"
Redis == backend = "redis"

Begin(c, op, i, pc, found) ==
    call' = [call EXCEPT ![c] = [op |-> op, id |-> i, pc |-> pc, found |-> found]]
Done(c) == call' = [call EXCEPT ![c] = Nothing]
At(c, op, pc) == call[c].op = op /\ call[c].pc = pc
Busy(i) == \E c \in Caller : call[c].id = i

\* A request on a session whose other request has not been answered.
Overlap(i) == troubled' = IF Busy(i) THEN troubled \cup {i} ELSE troubled

-----------------------------------------------------------------------------
\* A new id for every session; a Redis that fails stores nothing, and the
\* caller gets the id all the same.
CreateSession(i) ==
    /\ idle[i] = Unused
    /\ \/ idle' = [idle EXCEPT ![i] = 0] /\ left' = [left EXCEPT ![i] = timeout]
       \/ Redis /\ idle' = [idle EXCEPT ![i] = Absent] /\ UNCHANGED left
    /\ UNCHANGED <<backend, timeout, snapshot, call, removed, saves, troubled>>

\* Redis drops a key when its time is up; nothing is told.
Tick ==
    LET gone(i) == Redis /\ left[i] = 1 /\ idle[i] >= 0 IN
    /\ \E i \in Id : idle[i] \in 0..(Horizon - 1)
    /\ idle' = [i \in Id |-> IF gone(i) THEN Absent
                             ELSE IF idle[i] \in 0..(Horizon - 1) THEN idle[i] + 1 ELSE idle[i]]
    /\ left' = [i \in Id |-> IF left[i] > 0 THEN left[i] - 1 ELSE 0]
    /\ UNCHANGED <<backend, timeout, snapshot, call, removed, saves, troubled>>

\* A new process: the maps are empty, the keys are still there, and the
\* timeout may be another one.
Restart ==
    /\ timeout' \in Timeouts
    /\ idle' = IF Memory THEN [i \in Id |-> IF idle[i] = Unused THEN Unused ELSE Absent] ELSE idle
    /\ snapshot' = IF Memory THEN {} ELSE snapshot
    /\ call' = [c \in Caller |-> Nothing]
    /\ troubled' = troubled \cup {i \in Id : Busy(i)}
    /\ UNCHANGED <<backend, left, removed, saves>>

\* The 24 hours of a snapshot's key.
SnapshotExpires(i) ==
    /\ Redis /\ i \in snapshot /\ snapshot' = snapshot \ {i}
    /\ troubled' = troubled \cup {i}
    /\ UNCHANGED <<backend, timeout, idle, left, call, removed, saves>>

StoreSnapshot(i) ==
    /\ saves[i].stored < 2
    /\ snapshot' = snapshot \cup {i}
    /\ saves' = [saves EXCEPT ![i].stored = @ + 1]

-----------------------------------------------------------------------------
\* SessionManager::get_session, one guard to look at the session and, once
\* that is dropped, another to remove the expired one.
GetFromMap(c, i) ==
    /\ Memory /\ call[c] = Nothing
    /\ idle[i] >= 0 /\ Expired(idle[i])
    /\ Begin(c, "get", i, "remove", idle[i])
    /\ Overlap(i)
    /\ UNCHANGED <<backend, timeout, idle, left, snapshot, removed, saves>>

DropExpired(c) ==
    /\ At(c, "get", "remove") /\ Memory
    /\ idle' = [idle EXCEPT ![call[c].id] = Absent]
    /\ Done(c)
    /\ UNCHANGED <<backend, timeout, left, snapshot, removed, saves, troubled>>

\* Mutant: an id that is not there is entered again.
MayTouch_any(i) == TRUE

MayTouch(i) == idle[i] # Absent

\* An expired session that nobody has looked up is active again.
TouchInMap(i) ==
    /\ Memory /\ idle[i] # Unused /\ MayTouch(i)
    /\ idle' = [idle EXCEPT ![i] = 0]
    /\ Overlap(i)
    /\ UNCHANGED <<backend, timeout, left, snapshot, call, removed, saves>>

RemoveFromMap(i) ==
    /\ Memory /\ idle[i] >= 0
    /\ idle' = [idle EXCEPT ![i] = Absent]
    /\ removed' = removed \cup {i}
    /\ Overlap(i)
    /\ UNCHANGED <<backend, timeout, left, snapshot, call, saves>>

\* cleanup_expired: the sessions go first, their snapshots are entered after.
RetainLive(c, i) ==
    /\ Memory /\ call[c] = Nothing
    /\ idle[i] >= 0 /\ Expired(idle[i])
    /\ idle' = [idle EXCEPT ![i] = Absent]
    /\ Begin(c, "cleanup", i, "snapshot", idle[i])
    /\ Overlap(i)
    /\ UNCHANGED <<backend, timeout, left, snapshot, removed, saves>>

EnterSnapshot(c) ==
    /\ At(c, "cleanup", "snapshot") /\ Memory
    /\ StoreSnapshot(call[c].id)
    /\ Done(c)
    /\ UNCHANGED <<backend, timeout, idle, left, removed, troubled>>

WithoutTaken(i) == snapshot \ {i}

TakeFromMap(i) ==
    /\ Memory /\ i \in snapshot
    /\ saves[i].handed < 3
    /\ snapshot' = WithoutTaken(i)
    /\ saves' = [saves EXCEPT ![i].handed = @ + 1]
    /\ UNCHANGED <<backend, timeout, idle, left, call, removed, troubled>>

\* save_snapshot, which a caller may use for any session.
SaveSnapshot(i) ==
    /\ idle[i] # Unused
    /\ StoreSnapshot(i)
    /\ UNCHANGED <<backend, timeout, idle, left, call, removed, troubled>>

-----------------------------------------------------------------------------
\* The GET at the head of get, touch, remove and cleanup, which stop when
\* the key is gone or has not expired, as the operation wants it.
ReadKey(c, op, i) ==
    /\ Redis /\ call[c] = Nothing
    /\ idle[i] >= 0
    /\ op \in {"get", "cleanup"} => Expired(idle[i])
    /\ Begin(c, op, i, IF op = "touch" THEN "write" ELSE "snapshot", idle[i])
    /\ Overlap(i)
    /\ UNCHANGED <<backend, timeout, idle, left, snapshot, removed, saves>>

\* SET EX with the time of now, whether or not the key is still there.
WriteKey(c) ==
    LET i == call[c].id IN
    /\ At(c, "touch", "write")
    /\ idle' = [idle EXCEPT ![i] = 0] /\ left' = [left EXCEPT ![i] = timeout]
    /\ Done(c)
    /\ UNCHANGED <<backend, timeout, snapshot, removed, saves, troubled>>

BeforeDelete(i) == StoreSnapshot(i)

\* save_snapshot_from_stored; when it fails there is only a warning.
SnapshotKey(c) ==
    LET i == call[c].id IN
    /\ Redis /\ call[c].pc = "snapshot"
    /\ \/ BeforeDelete(i) /\ UNCHANGED troubled
       \/ troubled' = troubled \cup {i} /\ UNCHANGED <<snapshot, saves>>
    /\ call' = [call EXCEPT ![c].pc = "delete"]
    /\ UNCHANGED <<backend, timeout, idle, left, removed>>

DeleteKey(c) ==
    LET i == call[c].id IN
    /\ Redis /\ call[c].pc = "delete"
    /\ idle' = [idle EXCEPT ![i] = Absent] /\ left' = [left EXCEPT ![i] = 0]
    /\ removed' = IF call[c].op = "remove" /\ idle[i] >= 0 THEN removed \cup {i} ELSE removed
    /\ Done(c)
    /\ UNCHANGED <<backend, timeout, snapshot, saves, troubled>>

\* remove_session goes on to DEL when its GET fails.
RemoveUnread(c, i) ==
    /\ Redis /\ call[c] = Nothing /\ idle[i] # Unused
    /\ Begin(c, "remove", i, "delete", Absent)
    /\ troubled' = troubled \cup {i}
    /\ UNCHANGED <<backend, timeout, idle, left, snapshot, removed, saves>>

CommandFails(c) ==
    /\ Redis /\ call[c].pc \in {"write", "delete"}
    /\ Done(c)
    /\ troubled' = troubled \cup {call[c].id}
    /\ UNCHANGED <<backend, timeout, idle, left, snapshot, removed, saves>>

ReadSnapshot(c, i) ==
    /\ Redis /\ call[c] = Nothing /\ i \in snapshot
    /\ saves[i].handed < 3
    /\ Begin(c, "take", i, "take", Absent)
    /\ Overlap(i)
    /\ UNCHANGED <<backend, timeout, idle, left, snapshot, removed, saves>>

\* The snapshot is returned whether or not DEL succeeds.
TakeSnapshot(c) ==
    LET i == call[c].id IN
    /\ At(c, "take", "take") /\ saves[i].handed < 3
    /\ \/ snapshot' = WithoutTaken(i) /\ UNCHANGED troubled
       \/ troubled' = troubled \cup {i} /\ UNCHANGED snapshot
    /\ saves' = [saves EXCEPT ![i].handed = @ + 1]
    /\ Done(c)
    /\ UNCHANGED <<backend, timeout, idle, left, removed>>

Next ==
    \/ Tick \/ Restart
    \/ \E i \in Id : CreateSession(i) \/ SnapshotExpires(i) \/ TouchInMap(i) \/ RemoveFromMap(i)
                     \/ TakeFromMap(i) \/ SaveSnapshot(i)
    \/ \E c \in Caller, i \in Id :
          \/ GetFromMap(c, i) \/ RetainLive(c, i) \/ RemoveUnread(c, i) \/ ReadSnapshot(c, i)
          \/ \E op \in {"get", "touch", "remove", "cleanup"} : ReadKey(c, op, i)
    \/ \E c \in Caller : DropExpired(c) \/ EnterSnapshot(c) \/ WriteKey(c) \/ SnapshotKey(c)
                         \/ DeleteKey(c) \/ CommandFails(c) \/ TakeSnapshot(c)

Spec == Init /\ [][Next]_vars

-----------------------------------------------------------------------------
\* A snapshot is handed out at most as often as it was stored ("so it cannot
\* be reused by a stale reconnect"), in memory whatever overlaps, in Redis
\* when no two calls on the session do and no command fails.
HandedOnce ==
    \A i \in Id : Memory \/ i \notin troubled => saves[i].handed <= saves[i].stored

\* A session that was removed does not come back: in memory never, in Redis
\* unless a touch had read it before it was removed.
RemovedStaysRemoved ==
    \A i \in removed : Memory \/ i \notin troubled => idle[i] = Absent

\* In Redis a session that a request ended can be resumed until somebody
\* does: its identity is under the one key before it leaves the other.
EndedIsResumable ==
    \A i \in removed : Redis /\ i \notin troubled => saves[i].stored > 0
                                                   /\ (i \in snapshot \/ saves[i].handed > 0)
=============================================================================
