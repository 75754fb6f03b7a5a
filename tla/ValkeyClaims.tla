---------------------------- MODULE ValkeyClaims ----------------------------
(***************************************************************************)
(* The claim tracker that keeps symbol locks in Valkey, for engines that   *)
(* share them: ValkeyClaimTracker.  A lock is a key that holds its         *)
(* session's claim, and every session has a set of the keys it locked;     *)
(* both expire.  Acquiring and releasing one lock are Lua scripts and so   *)
(* one step each.  Releasing all the locks of a session is a series of     *)
(* commands -- read the set, read the claims, delete and unlist key by     *)
(* key, drop the set -- between which other clients' commands run.  Every  *)
(* command may fail: the tracker then answers as if there was nothing to   *)
(* release, and a failed pipeline may have done any part of its work.      *)
(***************************************************************************)
EXTENDS FiniteSets

CONSTANTS
    Session, NoSession,
    Symbol,          \* lock keys: (repository, file, qualified name)
    Repo, RepoOf,    \* the repository of each key
    Sweeper          \* concurrent calls of release_locks and clear_session

ASSUME NoSessionAssumption == NoSession \notin Session
ASSUME RepoOfAssumption == RepoOf \in [Symbol -> Repo]

VARIABLES
    lock,        \* the session of the claim each key holds
    listed,      \* the set of keys of each session
    sweep,       \* the calls that release many locks
    disturbed    \* sessions whose calls overlapped, met a failing command, or lost a
                 \* lock to another's call (history)

vars == <<lock, listed, sweep, disturbed>>

\* lapsed: the owned keys that expired after the call read them (history).
Idle == [pc |-> "idle", session |-> NoSession, clear |-> FALSE, whole |-> FALSE,
         keys |-> {}, owned |-> {}, at |-> {}, lapsed |-> {}]

TypeOK ==
    /\ lock \in [Symbol -> Session \cup {NoSession}]
    /\ listed \in [Session -> SUBSET Symbol]
    /\ disturbed \subseteq Session
    /\ \A c \in Sweeper :
          /\ sweep[c].pc \in {"idle", "claims", "sweep", "drop"}
          /\ UNION {sweep[c].keys, sweep[c].owned, sweep[c].at, sweep[c].lapsed} \subseteq Symbol

Init ==
    /\ lock = [x \in Symbol |-> NoSession]
    /\ listed = [s \in Session |-> {}]
    /\ sweep = [c \in Sweeper |-> Idle]
    /\ disturbed = {}

Sweeping(s) == \E c \in Sweeper : sweep[c].session = s

\* A call of s begins; another sweep of s may be at work.
Disturb(s) == disturbed' = IF Sweeping(s) THEN disturbed \cup {s} ELSE disturbed

-----------------------------------------------------------------------------
\* Mutant: the script looks at the key of another client's claim no more.
Holder_any(x, s) == s

\* The session ACQUIRE_SCRIPT finds in the key, s itself when it finds none.
Holder(x, s) == IF lock[x] = NoSession THEN s ELSE lock[x]

\* ACQUIRE_SCRIPT, FRESH and REACQUIRE.  A connection that breaks after the
\* script ran reports an error for a lock that was taken.
AcquireLock(s, x) ==
    /\ Holder(x, s) = s
    /\ lock' = [lock EXCEPT ![x] = s]
    /\ listed' = [listed EXCEPT ![s] = @ \cup {x}]
    /\ Disturb(s)
    /\ UNCHANGED sweep

\* SET NX, SADD: the key is listed even when another session's claim stays.
RecordClaim(s, x) ==
    /\ lock' = [lock EXCEPT ![x] = IF @ = NoSession THEN s ELSE @]
    /\ listed' = [listed EXCEPT ![s] = @ \cup {x}]
    /\ Disturb(s)
    /\ UNCHANGED sweep

\* RELEASE_SCRIPT, for the rollback of a write.
ReleaseLock(s, x) ==
    /\ lock' = [lock EXCEPT ![x] = IF @ = s THEN NoSession ELSE @]
    /\ listed' = [listed EXCEPT ![s] = @ \ {x}]
    /\ Disturb(s)
    /\ UNCHANGED sweep

\* The two-hour limit of a key.  The limit of a session's set is renewed
\* with each key it lists, so that the set outlives the locks.
ExpireLock(x) ==
    /\ lock[x] # NoSession
    /\ lock' = [lock EXCEPT ![x] = NoSession]
    /\ sweep' = [c \in Sweeper |-> IF x \in sweep[c].owned
                                   THEN [sweep[c] EXCEPT !.lapsed = @ \cup {x}] ELSE sweep[c]]
    /\ UNCHANGED <<listed, disturbed>>

ExpireSet(s) ==
    /\ listed[s] # {} /\ \A x \in Symbol : lock[x] # s
    /\ listed' = [listed EXCEPT ![s] = {}]
    /\ UNCHANGED <<lock, sweep, disturbed>>

-----------------------------------------------------------------------------
\* release_locks for a repository (SMEMBERS, the filter on the prefix); it
\* returns when nothing is listed, or the command fails.
ReleaseLocks(c, s, r) ==
    LET keys == {x \in listed[s] : RepoOf[x] = r} IN
    /\ sweep[c] = Idle
    /\ keys # {}
    /\ sweep' = [sweep EXCEPT ![c] = [Idle EXCEPT !.pc = "claims", !.session = s,
                                                  !.keys = keys, !.whole = keys = listed[s]]]
    /\ Disturb(s)
    /\ UNCHANGED <<lock, listed>>

ClearSession(c, s) ==
    /\ sweep[c] = Idle
    /\ listed[s] # {}
    /\ sweep' = [sweep EXCEPT ![c] = [Idle EXCEPT !.pc = "claims", !.session = s, !.clear = TRUE,
                                                  !.keys = listed[s], !.whole = TRUE]]
    /\ Disturb(s)
    /\ UNCHANGED <<lock, listed>>

\* Mutant: every listed key is deleted, whoever claims it by now.
Owned_listed(keys, s) == keys

\* The guard on the claims MGET returns.
Owned(keys, s) == {x \in keys : lock[x] = s}

ReadClaims(c) ==
    /\ sweep[c].pc = "claims"
    /\ sweep' = [sweep EXCEPT ![c].pc = "sweep",
                              ![c].owned = Owned(sweep[c].keys, sweep[c].session)]
    /\ UNCHANGED <<lock, listed, disturbed>>

\* The pipeline: a DEL for an owned key, then its SREM; clear_session drops
\* the whole set instead.
DeleteKey(c, x) ==
    /\ sweep[c].pc = "sweep" /\ sweep[c].at = {} /\ x \in sweep[c].keys
    /\ lock' = IF x \in sweep[c].owned THEN [lock EXCEPT ![x] = NoSession] ELSE lock
    /\ sweep' = [sweep EXCEPT ![c].keys = @ \ {x}, ![c].owned = @ \ {x}, ![c].lapsed = @ \ {x},
                              ![c].at = IF sweep[c].clear THEN {} ELSE {x}]
    /\ disturbed' = disturbed \cup (IF x \in sweep[c].owned
                                    THEN {lock[x]} \ {NoSession, sweep[c].session} ELSE {})
    /\ UNCHANGED listed

UnlistKey(c, x) ==
    /\ sweep[c].pc = "sweep" /\ x \in sweep[c].at
    /\ listed' = [listed EXCEPT ![sweep[c].session] = @ \ {x}]
    /\ sweep' = [sweep EXCEPT ![c].at = {}]
    /\ UNCHANGED <<lock, disturbed>>

PipelineEnds(c) ==
    /\ sweep[c].pc = "sweep" /\ sweep[c].at = {} /\ sweep[c].keys = {}
    /\ sweep' = [sweep EXCEPT ![c].pc = "drop"]
    /\ UNCHANGED <<lock, listed, disturbed>>

\* An error in the pipeline is dropped: what was not deleted stays.  The
\* set of clear_session is dropped by the same pipeline; release_locks
\* goes on.
PipelineFails(c) ==
    /\ sweep[c].pc = "sweep"
    /\ disturbed' = disturbed \cup {sweep[c].session}
    /\ sweep' = [sweep EXCEPT ![c] = IF @.clear THEN Idle
                                     ELSE [@ EXCEPT !.pc = "drop", !.at = {}, !.keys = {},
                                                    !.owned = {}, !.lapsed = {}]]
    /\ UNCHANGED <<lock, listed>>

\* "If we released all keys for this session": by count, when they were read.
AllSwept(c) == sweep[c].whole

DropSet(c) ==
    /\ sweep[c].pc = "drop"
    /\ listed' = IF AllSwept(c) THEN [listed EXCEPT ![sweep[c].session] = {}] ELSE listed
    /\ sweep' = [sweep EXCEPT ![c] = Idle]
    /\ UNCHANGED <<lock, disturbed>>

\* MGET, or the last DEL, fails.
CommandFails(c) ==
    /\ sweep[c].pc \in {"claims", "drop"}
    /\ sweep' = [sweep EXCEPT ![c] = Idle]
    /\ UNCHANGED <<lock, listed, disturbed>>

Next ==
    \/ \E s \in Session, x \in Symbol : AcquireLock(s, x) \/ RecordClaim(s, x)
                                          \/ ReleaseLock(s, x)
    \/ \E x \in Symbol : ExpireLock(x)
    \/ \E s \in Session : ExpireSet(s)
    \/ \E c \in Sweeper, s \in Session : ClearSession(c, s) \/ \E r \in Repo : ReleaseLocks(c, s, r)
    \/ \E c \in Sweeper, x \in Symbol : DeleteKey(c, x) \/ UnlistKey(c, x)
    \/ \E c \in Sweeper : ReadClaims(c) \/ PipelineEnds(c) \/ PipelineFails(c)
                          \/ DropSet(c) \/ CommandFails(c)

Spec == Init /\ [][Next]_vars

-----------------------------------------------------------------------------
\* What check_conflicts answers, for the names asked about.
CheckConflicts(s, names) == {x \in names : lock[x] \notin {NoSession, s}}

\* A lock can be found again: while calls of its session do not overlap and
\* no pipeline fails, what it holds is in its set, and a later release_locks
\* or clear_session reaches it.  Otherwise a lock stays, with nobody to
\* release it, until its two hours are over.
LockIsListed ==
    \A x \in Symbol : lock[x] # NoSession /\ lock[x] \notin disturbed => x \in listed[lock[x]]

\* The release of one session's locks deletes another's only if, after the
\* claims were read, the key expired, or another call of the same session
\* released it, and the other took it: the guard on the claims and the
\* deletion are two commands.
OwnDeletes ==
    [][\A c \in Sweeper, x \in Symbol :
          x \in sweep[c].keys \ sweep'[c].keys /\ lock'[x] # lock[x]
              => \/ lock[x] = sweep[c].session
                 \/ x \in sweep[c].lapsed \/ sweep[c].session \in disturbed]_vars

\* A lock that a session holds is found by its release, and the release of one
\* session's locks deletes another's only if the key changed hands after its
\* claim was read (valkey_claim_tracker.rs).
ClaimsAreSound == [](TypeOK /\ LockIsListed) /\ OwnDeletes

\* Whatever expires and whatever overlaps, a lock passes from one session to
\* another only by being given up or lost first.
Locks == INSTANCE LockService WITH owner <- lock
ImplementsLockService == Locks!Spec
=============================================================================
