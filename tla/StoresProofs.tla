----------------------------- MODULE StoresProofs -----------------------------
(***************************************************************************)
(* What stands beside the engine keeps its promises: the claims in Valkey, *)
(* for any number of sessions, keys and concurrent sweeps; the session     *)
(* store, for any callers and timeouts; and what an agent is told, for any *)
(* paths and any number of calls at a time.                                *)
(***************************************************************************)
EXTENDS Stores, TLAPS

USE NoSessionAssumption

\* The type of a call that releases many locks.
Sweep == [pc : {"idle", "claims", "sweep", "drop"}, session : Session \cup {NoSession},
          clear : BOOLEAN, whole : BOOLEAN, keys : SUBSET Symbol,
          owned : SUBSET Symbol, at : SUBSET Symbol, lapsed : SUBSET Symbol]

Types ==
    /\ lock \in [Symbol -> Session \cup {NoSession}]
    /\ listed \in [Session -> SUBSET Symbol]
    /\ sweep \in [Sweeper -> Sweep]
    /\ \A c \in Sweeper : sweep[c].pc # "idle" => sweep[c].session \in Session
    /\ disturbed \subseteq Session

\* A sweep that nothing has disturbed knows the locks of its session: those it
\* still has to delete, those it is about to take off the set, and, if it
\* releases every lock, that there are no others.
Knows(c) ==
    LET s == sweep[c].session IN
    /\ sweep[c].pc = "sweep" =>
         /\ \A x \in sweep[c].keys : lock[x] = s => x \in sweep[c].owned
         /\ \A x \in sweep[c].owned : lock[x] = s \/ x \in sweep[c].lapsed
         /\ \A x \in sweep[c].at : lock[x] # s
    /\ sweep[c].pc = "claims" => sweep[c].at = {}
    /\ sweep[c].whole =>
         \A x \in Symbol : lock[x] = s => sweep[c].pc # "drop" /\ x \in sweep[c].keys

SweepsKnow ==
    \A c \in Sweeper : sweep[c].session \in Session \ disturbed => Knows(c)

\* Two sweeps of one session disturb each other.
SweepsApart ==
    \A c, d \in Sweeper :
        c # d /\ sweep[c].session = sweep[d].session /\ sweep[c].session \in Session
            => sweep[c].session \in disturbed

ClaimsInv == Types /\ LockIsListed /\ SweepsKnow /\ SweepsApart

-----------------------------------------------------------------------------
(* An idle sweep is a sweep. *)
LEMMA IdleType == Idle \in Sweep
BY DEF Idle, Sweep

(* The fields of a sweep. *)
LEMMA SweepFacts ==
    ASSUME Types, NEW c \in Sweeper
    PROVE  /\ sweep[c] \in Sweep
           /\ sweep[c].session \in Session \cup {NoSession}
           /\ sweep[c].keys \in SUBSET Symbol /\ sweep[c].owned \in SUBSET Symbol
           /\ sweep[c].at \in SUBSET Symbol /\ sweep[c].lapsed \in SUBSET Symbol
BY DEF Types, Sweep

(* The invariant holds at the start. *)
LEMMA ClaimsInit == Init => ClaimsInv
BY IdleType DEF Init, ClaimsInv, Types, LockIsListed, SweepsKnow, SweepsApart, Idle

\* What the commands of a sweep do to it.
SweepStep(c) ==
    \/ \E s \in Session : ClearSession(c, s) \/ \E r \in Repo : ReleaseLocks(c, s, r)
    \/ \E x \in Symbol : DeleteKey(c, x) \/ UnlistKey(c, x)
    \/ ReadClaims(c) \/ PipelineEnds(c) \/ PipelineFails(c)
    \/ DropSet(c) \/ CommandFails(c)

\* A call of a session about one lock.
OneLock(s, x) == AcquireLock(s, x) \/ RecordClaim(s, x) \/ ReleaseLock(s, x)

(* Taking one lock, whoever runs into it, keeps the invariant. *)
LEMMA OneLockStep ==
    ASSUME ClaimsInv,
           NEW s \in Session, NEW x \in Symbol, OneLock(s, x)
    PROVE  ClaimsInv'
<1>1. /\ sweep' = sweep
      /\ disturbed \subseteq disturbed' /\ disturbed' \subseteq disturbed \cup {s}
      /\ Sweeping(s) => s \in disturbed'
  BY DEF OneLock, AcquireLock, RecordClaim, ReleaseLock, Disturb
<1>2. Types'
  BY <1>1 DEF ClaimsInv, Types, OneLock, AcquireLock, RecordClaim, ReleaseLock
<1>3. \A y \in Symbol, t \in Session \ {s} : lock'[y] = t <=> lock[y] = t
  BY DEF ClaimsInv, Types, OneLock, AcquireLock, RecordClaim, ReleaseLock, Holder
<1>4. LockIsListed'
  BY <1>1, <1>3 DEF ClaimsInv, Types, LockIsListed, OneLock, AcquireLock, RecordClaim,
                  ReleaseLock, Holder
<1>5. ASSUME NEW c \in Sweeper, sweep'[c].session \in Session \ disturbed'
      PROVE  Knows(c)'
  <2>1. sweep[c].session \in Session \ disturbed /\ sweep[c].session # s
    BY <1>1, <1>5 DEF Sweeping
  <2>2. Knows(c)
    BY <2>1 DEF ClaimsInv, SweepsKnow
  <2> QED BY <1>1, <1>3, <2>1, <2>2, SweepFacts DEF Knows, ClaimsInv
<1>6. SweepsApart'
  BY <1>1 DEF ClaimsInv, SweepsApart
<1> QED BY <1>2, <1>4, <1>5, <1>6 DEF ClaimsInv, SweepsKnow

(* So does the lapse of a lock. *)
LEMMA ExpireLockStep ==
    ASSUME ClaimsInv, NEW x \in Symbol, ExpireLock(x)
    PROVE  ClaimsInv'
<1>1. /\ lock' = [lock EXCEPT ![x] = NoSession]
      /\ UNCHANGED <<listed, disturbed>>
      /\ \A c \in Sweeper :
            /\ sweep'[c].session = sweep[c].session /\ sweep'[c].pc = sweep[c].pc
            /\ sweep'[c].whole = sweep[c].whole /\ sweep'[c].keys = sweep[c].keys
            /\ sweep'[c].owned = sweep[c].owned /\ sweep'[c].at = sweep[c].at
            /\ sweep[c].lapsed \subseteq sweep'[c].lapsed
            /\ x \in sweep[c].owned => x \in sweep'[c].lapsed
  BY DEF ExpireLock, ClaimsInv, Types, Sweep
<1>2. Types'
  <2>1. sweep' \in [Sweeper -> Sweep]
    BY DEF ExpireLock, ClaimsInv, Types, Sweep
  <2> QED BY <1>1, <2>1 DEF ClaimsInv, Types
<1>3. LockIsListed'
  BY <1>1 DEF ClaimsInv, Types, LockIsListed
<1>4. ASSUME NEW c \in Sweeper, sweep'[c].session \in Session \ disturbed'
      PROVE  Knows(c)'
  <2>1. Knows(c)
    BY <1>1, <1>4 DEF ClaimsInv, SweepsKnow
  <2>2. \A y \in Symbol : lock'[y] = sweep[c].session <=> lock[y] = sweep[c].session /\ y # x
    BY <1>1, <1>4 DEF ClaimsInv, Types
  <2> QED BY <1>1, <2>1, <2>2, SweepFacts DEF Knows, ClaimsInv
<1>5. SweepsApart'
  BY <1>1 DEF ClaimsInv, SweepsApart
<1> QED BY <1>2, <1>3, <1>4, <1>5 DEF ClaimsInv, SweepsKnow

\* What a sweep does outside itself: it deletes keys it holds to be its own,
\* and takes off the set of its session what it has released.
LEMMA SweepFrame ==
    ASSUME ClaimsInv, NEW c \in Sweeper, SweepStep(c)
    PROVE  /\ \A d \in Sweeper \ {c} : sweep'[d] = sweep[d]
           /\ sweep' \in [Sweeper -> Sweep]
           /\ sweep'[c].pc # "idle" => sweep'[c].session \in Session
           /\ disturbed \subseteq disturbed' /\ disturbed' \subseteq Session
           /\ \A x \in Symbol : lock'[x] # lock[x] =>
                 /\ lock'[x] = NoSession /\ lock[x] \in Session
                 /\ lock[x] # sweep[c].session => lock[x] \in disturbed'
           /\ lock' \in [Symbol -> Session \cup {NoSession}]
           /\ listed' \in [Session -> SUBSET Symbol]
           /\ \A s \in Session : s # sweep[c].session => listed'[s] = listed[s]
<1>0. Types /\ Idle \in Sweep /\ sweep[c] \in Sweep
  BY IdleType, SweepFacts DEF ClaimsInv
<1>1. \E new \in Sweep : /\ sweep' = [sweep EXCEPT ![c] = new]
                         /\ new.pc # "idle" => new.session \in Session
  <2> DEFINE Becomes(new) == /\ new \in Sweep
                             /\ sweep' = [sweep EXCEPT ![c] = new]
                             /\ new.pc # "idle" => new.session \in Session
  <2>1. ASSUME NEW s \in Session, ClearSession(c, s)
        PROVE  Becomes([Idle EXCEPT !.pc = "claims", !.session = s, !.clear = TRUE,
                                    !.keys = listed[s], !.whole = TRUE])
    BY <1>0, <2>1 DEF ClearSession, Types, Sweep, Idle
  <2>2. ASSUME NEW s \in Session, NEW r \in Repo, ReleaseLocks(c, s, r)
        PROVE  LET keys == {x \in listed[s] : RepoOf[x] = r} IN
               Becomes([Idle EXCEPT !.pc = "claims", !.session = s,
                                    !.keys = keys, !.whole = keys = listed[s]])
    BY <1>0, <2>2 DEF ReleaseLocks, Types, Sweep, Idle
  <2>3. ASSUME NEW x \in Symbol, DeleteKey(c, x)
        PROVE  Becomes([sweep[c] EXCEPT !.keys = @ \ {x}, !.owned = @ \ {x},
                                        !.lapsed = @ \ {x},
                                        !.at = IF sweep[c].clear THEN {} ELSE {x}])
    BY <1>0, <2>3 DEF DeleteKey, Types, Sweep
  <2>4. ASSUME NEW x \in Symbol, UnlistKey(c, x)
        PROVE  Becomes([sweep[c] EXCEPT !.at = {}])
    BY <1>0, <2>4 DEF UnlistKey, Types, Sweep
  <2>5. CASE ReadClaims(c)
    <3>1. Owned(sweep[c].keys, sweep[c].session) \in SUBSET Symbol
      BY <1>0 DEF Owned, Sweep
    <3>2. Becomes([sweep[c] EXCEPT !.pc = "sweep",
                              !.owned = Owned(sweep[c].keys, sweep[c].session)])
      BY <1>0, <2>5, <3>1 DEF ReadClaims, Types, Sweep
    <3> QED BY <3>2
  <2>6. ASSUME PipelineEnds(c)
        PROVE  Becomes([sweep[c] EXCEPT !.pc = "drop"])
    BY <1>0, <2>6 DEF PipelineEnds, Types, Sweep
  <2>7. CASE PipelineFails(c)
    <3>1. Becomes(IF sweep[c].clear THEN Idle
                  ELSE [sweep[c] EXCEPT !.pc = "drop", !.at = {}, !.keys = {},
                                        !.owned = {}, !.lapsed = {}])
      BY <1>0, <2>7 DEF PipelineFails, Types, Sweep, Idle
    <3> QED BY <3>1
  <2>8. ASSUME DropSet(c) \/ CommandFails(c)
        PROVE  Becomes(Idle)
    BY <1>0, <2>8 DEF DropSet, CommandFails, Types, Idle
  <2> QED BY <2>1, <2>2, <2>3, <2>4, <2>5, <2>6, <2>7, <2>8 DEF SweepStep
<1>2. /\ \A x \in Symbol : lock'[x] # lock[x] =>
            /\ lock'[x] = NoSession /\ lock[x] \in Session
            /\ lock[x] # sweep[c].session => lock[x] \in disturbed'
      /\ lock' \in [Symbol -> Session \cup {NoSession}]
  <2>1. CASE \E x \in Symbol : DeleteKey(c, x)
    BY <1>0, <2>1 DEF DeleteKey, Types
  <2>2. CASE ~\E x \in Symbol : DeleteKey(c, x)
    <3>1. lock' = lock
      BY <2>2 DEF SweepStep, ClearSession, ReleaseLocks, UnlistKey, ReadClaims,
                  PipelineEnds, PipelineFails, DropSet, CommandFails
    <3> QED BY <1>0, <3>1 DEF Types
  <2> QED BY <2>1, <2>2
<1>3. disturbed \subseteq disturbed' /\ disturbed' \subseteq Session
  <2>1. PipelineFails(c) => sweep[c].session \in Session
    BY <1>0 DEF PipelineFails, Types
  <2> QED BY <1>0, <2>1 DEF Types, SweepStep, ClearSession, ReleaseLocks, DeleteKey, UnlistKey,
             ReadClaims, PipelineEnds, PipelineFails, DropSet, CommandFails, Disturb
<1>4. /\ listed' \in [Session -> SUBSET Symbol]
      /\ \A s \in Session : s # sweep[c].session => listed'[s] = listed[s]
  <2>1. \/ listed' = listed
        \/ \E x \in Symbol :
              listed' = [listed EXCEPT ![sweep[c].session] = @ \ {x}]
        \/ listed' = [listed EXCEPT ![sweep[c].session] = {}]
    BY DEF SweepStep, ClearSession, ReleaseLocks, DeleteKey, UnlistKey,
       ReadClaims, PipelineEnds, PipelineFails, DropSet, CommandFails
  <2> QED BY <1>0, <2>1 DEF Types
<1>5. PICK new \in Sweep : /\ sweep' = [sweep EXCEPT ![c] = new]
                           /\ new.pc # "idle" => new.session \in Session
  BY <1>1
<1> QED BY <1>0, <1>2, <1>3, <1>4, <1>5 DEF Types

\* What a sweep starts with, and whose it is from then on.
LEMMA SweepBegins ==
    ASSUME Types, NEW c \in Sweeper, NEW s \in Session,
           ClearSession(c, s) \/ \E r \in Repo : ReleaseLocks(c, s, r)
    PROVE  /\ UNCHANGED <<lock, listed>>
           /\ sweep'[c].session = s /\ sweep'[c].pc = "claims" /\ sweep'[c].at = {}
           /\ sweep'[c].whole => sweep'[c].keys = listed[s]
           /\ Sweeping(s) => s \in disturbed'
<1>1. CASE ClearSession(c, s)
  <2>1. sweep'[c] = [pc |-> "claims", session |-> s, clear |-> TRUE, whole |-> TRUE,
                     keys |-> listed[s], owned |-> {}, at |-> {}, lapsed |-> {}]
    BY <1>1 DEF ClearSession, Types, Idle
  <2>2. UNCHANGED <<lock, listed>> /\ Disturb(s)
    BY <1>1 DEF ClearSession
  <2>3. Sweeping(s) => s \in disturbed'
    BY <2>2 DEF Disturb
  <2>4. /\ sweep'[c].session = s /\ sweep'[c].pc = "claims" /\ sweep'[c].at = {}
        /\ sweep'[c].keys = listed[s]
    BY <2>1
  <2> QED BY <2>2, <2>3, <2>4
<1>2. ASSUME NEW r \in Repo, ReleaseLocks(c, s, r)
      PROVE  /\ UNCHANGED <<lock, listed>>
             /\ sweep'[c].session = s /\ sweep'[c].pc = "claims" /\ sweep'[c].at = {}
             /\ sweep'[c].whole => sweep'[c].keys = listed[s]
             /\ Sweeping(s) => s \in disturbed'
  <2> DEFINE keys == {x \in listed[s] : RepoOf[x] = r}
             all == keys = listed[s]
  <2>1. sweep' = [sweep EXCEPT ![c] = [Idle EXCEPT !.pc = "claims", !.session = s,
                                                   !.keys = keys, !.whole = all]]
    BY <1>2 DEF ReleaseLocks
  <2>2. all => keys = listed[s]
    OBVIOUS
  <2> HIDE DEF keys, all
  <2>3. sweep'[c] = [pc |-> "claims", session |-> s, clear |-> FALSE, whole |-> all,
                     keys |-> keys, owned |-> {}, at |-> {}, lapsed |-> {}]
    BY <2>1 DEF Types, Idle
  <2>4. UNCHANGED <<lock, listed>> /\ Disturb(s)
    BY <1>2 DEF ReleaseLocks
  <2>5. Sweeping(s) => s \in disturbed'
    BY <2>4 DEF Disturb
  <2>6. /\ sweep'[c].session = s /\ sweep'[c].pc = "claims" /\ sweep'[c].at = {}
        /\ sweep'[c].keys = keys
    BY <2>3
  <2>7. sweep'[c].whole = all
    BY <2>3
  <2> QED BY <2>2, <2>4, <2>5, <2>6, <2>7
<1> QED BY <1>1, <1>2

(* A sweep that goes on stays with its session, or ends. *)
LEMMA SweepGoesOn ==
    ASSUME Types, NEW c \in Sweeper, SweepStep(c),
           ~\E s \in Session : ClearSession(c, s) \/ \E r \in Repo : ReleaseLocks(c, s, r)
    PROVE  sweep'[c].session = sweep[c].session \/ sweep'[c].session = NoSession
<1> USE DEF Types, Sweep, Idle
<1>1. ASSUME NEW x \in Symbol, DeleteKey(c, x) \/ UnlistKey(c, x)
      PROVE  sweep'[c].session = sweep[c].session
  BY <1>1 DEF DeleteKey, UnlistKey
<1>2. CASE ReadClaims(c) \/ PipelineEnds(c)
  BY <1>2 DEF ReadClaims, PipelineEnds
<1>3. CASE PipelineFails(c)
  BY <1>3 DEF PipelineFails
<1>4. CASE DropSet(c) \/ CommandFails(c)
  BY <1>4 DEF DropSet, CommandFails
<1> QED BY <1>1, <1>2, <1>3, <1>4 DEF SweepStep

\* What was true of another sweep stays true.
LEMMA OthersKnow ==
    ASSUME ClaimsInv, NEW c \in Sweeper, SweepStep(c),
           NEW d \in Sweeper \ {c}, sweep'[d].session \in Session \ disturbed'
    PROVE  Knows(d)'
<1>1. /\ sweep'[d] = sweep[d] /\ sweep[d].session \in Session \ disturbed
      /\ sweep[d].session # sweep[c].session
  BY SweepFrame DEF ClaimsInv, SweepsApart
<1>2. \A x \in Symbol : lock'[x] = sweep[d].session <=> lock[x] = sweep[d].session
  BY <1>1, SweepFrame
<1>3. Knows(d)
  BY <1>1 DEF ClaimsInv, SweepsKnow
<1> QED BY <1>1, <1>2, <1>3, SweepFacts DEF Knows, ClaimsInv

\* And a sweep goes on knowing the locks of its session.
LEMMA SweepKnows ==
    ASSUME ClaimsInv, NEW c \in Sweeper, SweepStep(c),
           sweep'[c].session \in Session \ disturbed'
    PROVE  Knows(c)'
<1>0. Types /\ sweep[c] \in Sweep /\ disturbed \subseteq disturbed'
  BY SweepFacts, SweepFrame DEF ClaimsInv
<1>1. ASSUME NEW s \in Session,
             ClearSession(c, s) \/ \E r \in Repo : ReleaseLocks(c, s, r)
      PROVE  Knows(c)'
  <2>1. /\ lock' = lock /\ sweep'[c].session = s /\ sweep'[c].pc = "claims"
        /\ sweep'[c].at = {}
        /\ sweep'[c].whole => sweep'[c].keys = listed[s]
    BY <1>0, <1>1, SweepBegins
  <2>2. \A x \in Symbol : lock[x] = s => x \in listed[s]
    BY <1>0, <2>1 DEF ClaimsInv, LockIsListed
  <2> QED BY <2>1, <2>2 DEF Knows
<1>2. ASSUME sweep'[c].session = sweep[c].session
      PROVE  Knows(c)
  BY <1>0, <1>2 DEF ClaimsInv, SweepsKnow
<1>3. ASSUME NEW x \in Symbol, DeleteKey(c, x)
      PROVE  Knows(c)'
  <2>1. /\ sweep'[c].session = sweep[c].session /\ sweep'[c].whole = sweep[c].whole
        /\ sweep[c].pc = "sweep" /\ sweep'[c].pc = "sweep" /\ x \in sweep[c].keys
        /\ sweep'[c].keys = sweep[c].keys \ {x}
        /\ sweep'[c].owned = sweep[c].owned \ {x}
        /\ sweep'[c].lapsed = sweep[c].lapsed \ {x}
        /\ sweep'[c].at \subseteq {x}
        /\ lock' = IF x \in sweep[c].owned THEN [lock EXCEPT ![x] = NoSession] ELSE lock
    BY <1>0, <1>3 DEF DeleteKey, Types, Sweep
  <2>2. Knows(c)
    BY <1>2, <2>1
  <2>3. /\ lock'[x] # sweep[c].session
        /\ \A y \in Symbol \ {x} : lock'[y] = lock[y]
    BY <1>0, <2>1, <2>2 DEF Knows, Types
  <2>4. sweep[c].keys \subseteq Symbol /\ sweep[c].owned \subseteq Symbol
    BY <1>0 DEF Sweep
  <2> QED BY <2>1, <2>2, <2>3, <2>4 DEF Knows
<1>4. ASSUME NEW x \in Symbol, UnlistKey(c, x)
      PROVE  Knows(c)'
  <2>1. /\ lock' = lock
        /\ sweep'[c] = [sweep[c] EXCEPT !.at = {}]
    BY <1>0, <1>4 DEF UnlistKey, Types
  <2>2. Knows(c)
    BY <1>0, <1>2, <2>1 DEF Sweep
  <2> QED BY <1>0, <2>1, <2>2 DEF Knows, Sweep
<1>5. CASE ReadClaims(c)
  <2>1. /\ lock' = lock /\ sweep[c].pc = "claims"
        /\ sweep'[c] = [sweep[c] EXCEPT !.pc = "sweep",
                           !.owned = Owned(sweep[c].keys, sweep[c].session)]
    BY <1>0, <1>5 DEF ReadClaims, Types, Sweep
  <2>2. Knows(c)
    BY <1>0, <1>2, <2>1 DEF Sweep
  <2>3. sweep[c].at = {}
    BY <2>1, <2>2 DEF Knows
  <2> QED BY <1>0, <2>1, <2>2, <2>3 DEF Knows, Sweep, Owned
<1>6. CASE PipelineEnds(c)
  <2>1. /\ lock' = lock /\ sweep[c].keys = {}
        /\ sweep'[c] = [sweep[c] EXCEPT !.pc = "drop"]
    BY <1>0, <1>6 DEF PipelineEnds, Types
  <2>2. Knows(c)
    BY <1>0, <1>2, <2>1 DEF Sweep
  <2> QED BY <1>0, <2>1, <2>2 DEF Knows, Sweep
<1>7. CASE PipelineFails(c) \/ DropSet(c) \/ CommandFails(c)
  <2>1. ~\E s \in Session : ClearSession(c, s) \/ \E r \in Repo : ReleaseLocks(c, s, r)
    <3>1. sweep[c].pc # "idle"
      BY <1>7 DEF PipelineFails, DropSet, CommandFails
    <3>2. sweep[c] # Idle
      BY <3>1 DEF Idle
    <3> QED BY <3>2 DEF ClearSession, ReleaseLocks
  <2>2. PipelineFails(c)
    BY <1>0, <1>7 DEF DropSet, CommandFails, Types, Idle
  <2>3. sweep[c].session \in disturbed'
    BY <2>2 DEF PipelineFails
  <2>4. sweep'[c].session = sweep[c].session
    BY <1>0, <2>1, SweepGoesOn
  <2> QED BY <2>3, <2>4
<1> QED BY <1>1, <1>3, <1>4, <1>5, <1>6, <1>7 DEF SweepStep

(* Every step of a sweep keeps the invariant. *)
LEMMA SweepStepKeeps ==
    ASSUME ClaimsInv, NEW c \in Sweeper, SweepStep(c)
    PROVE  ClaimsInv'
<1>0. Types /\ sweep[c] \in Sweep
  BY SweepFacts DEF ClaimsInv
<1>1. Types'
  BY <1>0, SweepFrame DEF Types
<1>2. LockIsListed'
  <2> SUFFICES ASSUME NEW x \in Symbol, lock'[x] # NoSession, lock'[x] \notin disturbed'
               PROVE  x \in listed'[lock'[x]]
    BY DEF LockIsListed
  <2> DEFINE s == lock[x]
  <2>1. lock'[x] = s /\ s \in Session \ disturbed /\ x \in listed[s]
    BY <1>0, SweepFrame DEF ClaimsInv, LockIsListed, Types
  <2>2. CASE listed' = listed
    BY <2>1, <2>2
  <2>3. CASE s # sweep[c].session
    BY <2>1, <2>3, SweepFrame
  <2>4. CASE s = sweep[c].session /\ listed' # listed
    <3>1. Knows(c)
      BY <2>1, <2>4 DEF ClaimsInv, SweepsKnow
    <3>2. ASSUME NEW y \in Symbol, UnlistKey(c, y) PROVE x \in listed'[s]
      BY <1>0, <2>1, <2>4, <3>1, <3>2 DEF UnlistKey, Knows, Types
    <3>3. ~DropSet(c)
      BY <2>1, <2>4, <3>1 DEF DropSet, AllSwept, Knows
    <3>4. \E y \in Symbol : UnlistKey(c, y)
      BY <2>4, <3>3 DEF SweepStep, ClearSession, ReleaseLocks, DeleteKey, ReadClaims,
                        PipelineEnds, PipelineFails, CommandFails
    <3> QED BY <2>1, <3>2, <3>4
  <2> QED BY <2>2, <2>3, <2>4
<1>3. SweepsKnow'
  BY OthersKnow, SweepKnows DEF SweepsKnow
<1>4. SweepsApart'
  <2> SUFFICES ASSUME NEW d \in Sweeper \ {c}, sweep'[c].session = sweep'[d].session,
                      sweep'[c].session \in Session
               PROVE  sweep'[c].session \in disturbed'
    BY SweepFrame DEF ClaimsInv, SweepsApart
  <2>1. sweep'[d] = sweep[d] /\ disturbed \subseteq disturbed'
    BY SweepFrame
  <2>2. CASE sweep'[c].session = sweep[c].session
    BY <2>1, <2>2 DEF ClaimsInv, SweepsApart
  <2>3. CASE sweep'[c].session # sweep[c].session
    <3>1. PICK s \in Session : ClearSession(c, s) \/ \E r \in Repo : ReleaseLocks(c, s, r)
      BY <1>0, <2>3, SweepGoesOn
    <3>2. sweep'[c].session = s /\ (Sweeping(s) => s \in disturbed')
      BY <1>0, <3>1, SweepBegins
    <3> QED BY <2>1, <3>2 DEF Sweeping
  <2> QED BY <2>2, <2>3
<1> QED BY <1>1, <1>2, <1>3, <1>4 DEF ClaimsInv

(* Every step keeps the invariant. *)
LEMMA ClaimsStep ==
    ASSUME ClaimsInv, [Next]_vars
    PROVE  ClaimsInv'
<1>1. ASSUME NEW s \in Session, NEW x \in Symbol, OneLock(s, x) PROVE ClaimsInv'
  BY <1>1, OneLockStep
<1>2. ASSUME NEW x \in Symbol, ExpireLock(x) PROVE ClaimsInv'
  BY <1>2, ExpireLockStep
<1>3. ASSUME NEW s \in Session, ExpireSet(s) PROVE ClaimsInv'
  BY <1>3 DEF ExpireSet, ClaimsInv, Types, LockIsListed, SweepsKnow, Knows, SweepsApart
<1>4. ASSUME NEW c \in Sweeper, SweepStep(c) PROVE ClaimsInv'
  BY <1>4, SweepStepKeeps
<1>5. CASE UNCHANGED vars
  BY <1>5 DEF vars, ClaimsInv, Types, LockIsListed, SweepsKnow, Knows, SweepsApart
<1> QED BY <1>1, <1>2, <1>3, <1>4, <1>5 DEF Next, OneLock, SweepStep

\* A sweep deletes the key of another session only when it lapsed meanwhile,
\* or its own session's calls overlapped.
LEMMA DeletesOwn ==
    ASSUME ClaimsInv, [Next]_vars,
           NEW c \in Sweeper, NEW x \in Symbol,
           x \in sweep[c].keys \ sweep'[c].keys, lock'[x] # lock[x]
    PROVE  \/ lock[x] = sweep[c].session
           \/ x \in sweep[c].lapsed \/ sweep[c].session \in disturbed
<1>0. Types /\ sweep[c] \in Sweep
  BY SweepFacts DEF ClaimsInv
<1>1. ~\E s \in Session, y \in Symbol : OneLock(s, y)
  BY DEF OneLock, AcquireLock, RecordClaim, ReleaseLock
<1>2. ~\E y \in Symbol : ExpireLock(y)
  BY <1>0 DEF ExpireLock, Types, Sweep
<1>3. ~UNCHANGED vars /\ ~\E s \in Session : ExpireSet(s)
  BY DEF vars, ExpireSet
<1>4. PICK d \in Sweeper : SweepStep(d)
  BY <1>1, <1>2, <1>3 DEF Next, OneLock, SweepStep
<1>5. d = c
  BY <1>4, SweepFrame
<1>6. PICK y \in Symbol : DeleteKey(c, y)
  BY <1>4, <1>5 DEF SweepStep, ClearSession, ReleaseLocks, UnlistKey, ReadClaims,
     PipelineEnds, PipelineFails, DropSet, CommandFails
<1>7. x \in sweep[c].owned /\ sweep[c].pc = "sweep"
  BY <1>0, <1>6 DEF DeleteKey, Types
<1>8. sweep[c].session \in Session
  BY <1>0, <1>7 DEF Types
<1>9. sweep[c].session \notin disturbed => Knows(c)
  BY <1>8 DEF ClaimsInv, SweepsKnow
<1> QED BY <1>7, <1>9 DEF Knows

\* Releases find what a session holds, and delete nothing else.
THEOREM ClaimsSound == Spec => ClaimsAreSound
<1>1. Init => ClaimsInv
  BY ClaimsInit
<1>2. ClaimsInv /\ [Next]_vars => ClaimsInv'
  BY ClaimsStep
<1>3. ClaimsInv => TypeOK /\ LockIsListed
  <2> SUFFICES ASSUME ClaimsInv PROVE TypeOK
    BY DEF ClaimsInv
  <2>1. \A c \in Sweeper :
          /\ sweep[c].pc \in {"idle", "claims", "sweep", "drop"}
          /\ UNION {sweep[c].keys, sweep[c].owned, sweep[c].at, sweep[c].lapsed} \subseteq Symbol
    <3> TAKE c \in Sweeper
    <3>1. sweep[c] \in Sweep
      BY SweepFacts DEF ClaimsInv
    <3>2. sweep[c].pc \in {"idle", "claims", "sweep", "drop"}
      BY <3>1 DEF Sweep
    <3>3. \A k \in {sweep[c].keys, sweep[c].owned, sweep[c].at, sweep[c].lapsed} :
             k \subseteq Symbol
      BY SweepFacts DEF ClaimsInv
    <3> QED BY <3>2, <3>3
  <2> QED BY <2>1 DEF TypeOK, ClaimsInv, Types
<1>4. ClaimsInv /\ [Next]_vars =>
        [\A c \in Sweeper, x \in Symbol :
            x \in sweep[c].keys \ sweep'[c].keys /\ lock'[x] # lock[x]
              => \/ lock[x] = sweep[c].session
                 \/ x \in sweep[c].lapsed \/ sweep[c].session \in disturbed]_vars
  BY DeletesOwn
<1> QED BY <1>1, <1>2, <1>3, <1>4, PTL DEF Spec, ClaimsAreSound, OwnDeletes

-----------------------------------------------------------------------------
(***************************************************************************)
(* The refinement of LockService: a key passes from one session to another *)
(* only by way of nobody.                                                  *)
(***************************************************************************)

(* Every step is one of the lock service, or none. *)
LEMMA StepRefines ==
    ASSUME ClaimsInv, [Next]_vars
    PROVE  [Locks!Next]_lock
<1>0. lock \in [Symbol -> Session \cup {NoSession}]
  BY DEF ClaimsInv, Types
<1>1. ASSUME NEW x \in Symbol, NEW s \in Session, lock[x] \in {NoSession, s},
             lock' = [lock EXCEPT ![x] = s]
      PROVE  [Locks!Next]_lock
  <2>1. lock[x] = s => lock' = lock
    BY <1>0, <1>1
  <2>2. lock[x] = NoSession => Locks!Grant(x, s)
    BY <1>1 DEF Locks!Grant
  <2> QED BY <1>1, <2>1, <2>2 DEF Locks!Next
<1>2. ASSUME NEW x \in Symbol, lock' = [lock EXCEPT ![x] = NoSession]
      PROVE  [Locks!Next]_lock
  <2>1. lock[x] = NoSession => lock' = lock
    BY <1>0, <1>2
  <2>2. ASSUME NEW s \in Session, lock[x] = s PROVE Locks!GiveUp(s, {x})
    BY <1>0, <1>2, <2>2 DEF Locks!GiveUp
  <2> QED BY <1>0, <2>1, <2>2 DEF Locks!Next
<1>3. ASSUME NEW s \in Session, NEW x \in Symbol, OneLock(s, x)
      PROVE  [Locks!Next]_lock
  <2>1. \/ lock' = lock
        \/ lock[x] \in {NoSession, s} /\ lock' = [lock EXCEPT ![x] = s]
        \/ lock' = [lock EXCEPT ![x] = NoSession]
    BY <1>0, <1>3 DEF OneLock, AcquireLock, RecordClaim, ReleaseLock, Holder
  <2> QED BY <1>1, <1>2, <2>1
<1>4. ASSUME NEW x \in Symbol, ExpireLock(x) PROVE [Locks!Next]_lock
  BY <1>2, <1>4 DEF ExpireLock
<1>5. ASSUME NEW c \in Sweeper, NEW x \in Symbol, DeleteKey(c, x) PROVE [Locks!Next]_lock
  BY <1>2, <1>5 DEF DeleteKey
<1>6. CASE lock' = lock
  BY <1>6
<1> QED
  BY <1>3, <1>4, <1>5, <1>6
  DEF Next, OneLock, ExpireSet, ClearSession, ReleaseLocks, UnlistKey, ReadClaims,
      PipelineEnds, PipelineFails, DropSet, CommandFails, vars

\* The Valkey tracker keeps the promises of the lock service, whatever expires,
\* fails or overlaps.
THEOREM ValkeyRefines == Spec => ImplementsLockService
<1>1. Init => ClaimsInv /\ Locks!Init
  BY ClaimsInit DEF Init, Locks!Init
<1>2. ClaimsInv /\ [Next]_vars => ClaimsInv' /\ [Locks!Next]_lock
  BY ClaimsStep, StepRefines
<1> QED BY <1>1, <1>2, PTL DEF Spec, ImplementsLockService, Locks!Spec

-----------------------------------------------------------------------------
(* The session store.                                                      *)

Requests ==
    [op : {"none", "get", "touch", "remove", "cleanup", "take"}, id : Id \cup {"none"},
     pc : {"none", "remove", "snapshot", "write", "delete", "take"},
     found : {S!Absent} \cup 0..S!Horizon]

SessionTypes ==
    /\ S!TypeOK
    /\ call \in [Caller -> Requests]
    /\ \A c \in Caller : call[c] # S!Nothing => call[c].id \in Id
    /\ S!Memory => \A c \in Caller : call[c].pc \in {"none", "remove", "snapshot"}

\* Two requests on one session trouble it.
RequestsApart ==
    \A c, d \in Caller :
        c # d /\ call[c] # S!Nothing /\ call[d] # S!Nothing /\ call[c].id = call[d].id
            => call[c].id \in troubled

\* The session has a snapshot, or somebody has it.
Resumable(i) == saves[i].stored > 0 /\ (i \in snapshot \/ saves[i].handed > 0)

\* What a request on an untroubled session found is still so when it writes:
\* the snapshot it takes is there, the session it touches was not removed, and
\* the one it deletes can be resumed.
RequestKnows(c) ==
    LET i == call[c].id IN
    /\ call[c].pc = "take" => (i \in snapshot)
    /\ call[c].pc = "write" => (i \notin removed)
    /\ call[c].pc = "delete" => Resumable(i)

RequestsKnow ==
    \A c \in Caller : call[c] # S!Nothing /\ call[c].id \notin troubled => RequestKnows(c)

\* A snapshot that is there was stored once more than snapshots were handed out.
SnapshotIsSpare ==
    \A i \in snapshot : S!Memory \/ i \notin troubled => saves[i].handed < saves[i].stored

SessionInv ==
    /\ SessionTypes /\ RequestsApart /\ RequestsKnow
    /\ S!HandedOnce /\ SnapshotIsSpare
    /\ S!RemovedStaysRemoved /\ S!EndedIsResumable

\* Every timeout is below the horizon of the clock.
LEMMA HorizonFacts == S!Horizon \in Nat /\ \A t \in Timeouts : t \in Nat \ {0} /\ t < S!Horizon
<1> DEFINE longest == CHOOSE t \in Timeouts : \A u \in Timeouts : t >= u
<1>1. longest \in Timeouts /\ \A u \in Timeouts : longest >= u
  BY TimeoutsAssumption
<1>2. S!Horizon = 1 + longest
  BY DEF S!Horizon
<1> HIDE DEF longest
<1> QED BY <1>1, <1>2, TimeoutsAssumption

\* Storing a snapshot, and handing one out.
LEMMA StoreFacts ==
    ASSUME SessionTypes, NEW i \in Id, S!StoreSnapshot(i)
    PROVE  /\ saves' \in [Id -> [stored : 0..3, handed : 0..3]]
           /\ snapshot' = snapshot \cup {i}
           /\ saves'[i].stored = saves[i].stored + 1 /\ saves'[i].handed = saves[i].handed
           /\ saves[i].stored \in Nat /\ saves[i].handed \in Nat
           /\ \A j \in Id \ {i} : saves'[j] = saves[j]
<1>1. saves[i] \in [stored : 0..3, handed : 0..3] /\ saves[i].stored < 2
  BY DEF SessionTypes, S!TypeOK, S!StoreSnapshot
<1>2. [saves[i] EXCEPT !.stored = @ + 1] \in [stored : 0..3, handed : 0..3]
  BY <1>1
<1> QED BY <1>1, <1>2 DEF SessionTypes, S!TypeOK, S!StoreSnapshot

\* Handing out a snapshot counts, of one session.
LEMMA HandFacts ==
    ASSUME SessionTypes, NEW i \in Id, saves[i].handed < 3,
           saves' = [saves EXCEPT ![i].handed = @ + 1]
    PROVE  /\ saves' \in [Id -> [stored : 0..3, handed : 0..3]]
           /\ saves'[i].stored = saves[i].stored /\ saves'[i].handed = saves[i].handed + 1
           /\ saves[i].stored \in Nat /\ saves[i].handed \in Nat
           /\ \A j \in Id \ {i} : saves'[j] = saves[j]
<1>1. saves[i] \in [stored : 0..3, handed : 0..3]
  BY DEF SessionTypes, S!TypeOK
<1>2. [saves[i] EXCEPT !.handed = @ + 1] \in [stored : 0..3, handed : 0..3]
  BY <1>1
<1> QED BY <1>1, <1>2 DEF SessionTypes, S!TypeOK

\* The store starts with nothing stored.
LEMMA SessionsInit == S!Init => SessionInv
<1> SUFFICES ASSUME S!Init PROVE SessionInv
  OBVIOUS
<1>1. SessionTypes
  BY HorizonFacts DEF S!Init, SessionTypes, S!TypeOK, Requests, S!Nothing, S!Absent, S!Unused,
                      S!Memory
<1> QED
  BY <1>1, HorizonFacts DEF S!Init, SessionInv, RequestsApart, RequestsKnow, S!HandedOnce,
                      SnapshotIsSpare, S!RemovedStaysRemoved, S!EndedIsResumable

\* The steps that no request takes: a session is created, time passes, the
\* server restarts, a snapshot expires.
LEMMA SurroundingsKeep ==
    ASSUME SessionInv,
           S!Tick \/ S!Restart \/ \E i \in Id : S!CreateSession(i) \/ S!SnapshotExpires(i)
    PROVE  SessionInv'
<1> USE HorizonFacts DEF SessionInv, SessionTypes, S!TypeOK, S!Absent, S!Unused, S!Memory,
                         S!Redis
<1>1. CASE S!Tick
  <2>1. SessionTypes'
    BY <1>1 DEF S!Tick, Requests
  <2> QED BY <1>1, <2>1 DEF S!Tick, RequestsApart, RequestsKnow, RequestKnows, Resumable,
       S!HandedOnce,
                      SnapshotIsSpare, S!RemovedStaysRemoved, S!EndedIsResumable
<1>2. CASE S!Restart
  <2>1. SessionTypes'
    BY <1>2 DEF S!Restart, Requests, S!Nothing
  <2> QED BY <1>2, <2>1 DEF S!Restart, RequestsApart, RequestsKnow, S!HandedOnce,
                      SnapshotIsSpare, S!RemovedStaysRemoved, S!EndedIsResumable
<1>3. ASSUME NEW i \in Id, S!CreateSession(i) PROVE SessionInv'
  <2>1. SessionTypes'
    <3>1. timeout \in 0..S!Horizon /\ 0 \in 0..S!Horizon
      OBVIOUS
    <3>2. left' \in [Id -> 0..S!Horizon]
      BY <1>3, <3>1 DEF S!CreateSession
    <3>3. idle' \in [Id -> {-1, -2} \cup 0..S!Horizon]
      BY <1>3, <3>1 DEF S!CreateSession
    <3> QED BY <1>3, <3>2, <3>3 DEF S!CreateSession, Requests
  <2> QED BY <1>3, <2>1 DEF S!CreateSession, RequestsApart, RequestsKnow, RequestKnows, Resumable,
                      S!HandedOnce, SnapshotIsSpare, S!RemovedStaysRemoved, S!EndedIsResumable
<1>4. ASSUME NEW i \in Id, S!SnapshotExpires(i) PROVE SessionInv'
  <2>1. SessionTypes'
    BY <1>4 DEF S!SnapshotExpires, Requests
  <2> QED BY <1>4, <2>1 DEF S!SnapshotExpires, RequestsApart, RequestsKnow, RequestKnows, Resumable,
                      S!HandedOnce, SnapshotIsSpare, S!RemovedStaysRemoved, S!EndedIsResumable
<1> QED BY <1>1, <1>2, <1>3, <1>4

\* The calls of one step: a touch, a removal and the taking of a snapshot in
\* memory, and save_snapshot.
LEMMA OneStepCallsKeep ==
    ASSUME SessionInv,
           \E i \in Id : \/ S!TouchInMap(i) \/ S!RemoveFromMap(i)
                           \/ S!TakeFromMap(i) \/ S!SaveSnapshot(i)
    PROVE  SessionInv'
<1> USE HorizonFacts DEF SessionInv, SessionTypes, S!TypeOK, S!Absent, S!Unused, S!Memory,
                         S!Redis, S!Busy, S!Overlap, S!Done, S!Nothing, S!Begin, S!At
<1>1. ASSUME NEW i \in Id, S!TouchInMap(i) PROVE SessionInv'
  <2>1. SessionTypes'
    BY <1>1 DEF S!TouchInMap, S!MayTouch, Requests
  <2> QED BY <1>1, <2>1 DEF S!TouchInMap, S!MayTouch, RequestsApart, RequestsKnow, RequestKnows,
       Resumable,
                      S!HandedOnce, SnapshotIsSpare, S!RemovedStaysRemoved, S!EndedIsResumable
<1>2. ASSUME NEW i \in Id, S!RemoveFromMap(i) PROVE SessionInv'
  <2>1. SessionTypes'
    BY <1>2 DEF S!RemoveFromMap, Requests
  <2> QED BY <1>2, <2>1 DEF S!RemoveFromMap, RequestsApart, RequestsKnow, RequestKnows, Resumable,
                      S!HandedOnce, SnapshotIsSpare, S!RemovedStaysRemoved, S!EndedIsResumable
<1>3. ASSUME NEW i \in Id, S!TakeFromMap(i) PROVE SessionInv'
  <2>1. saves[i].handed < 3 /\ saves' = [saves EXCEPT ![i].handed = @ + 1]
    BY <1>3 DEF S!TakeFromMap
  <2>2. /\ saves' \in [Id -> [stored : 0..3, handed : 0..3]]
        /\ saves'[i].stored = saves[i].stored /\ saves'[i].handed = saves[i].handed + 1
        /\ saves[i].stored \in Nat /\ saves[i].handed \in Nat
        /\ \A j \in Id \ {i} : saves'[j] = saves[j]
    BY <2>1, HandFacts
  <2>3. SessionTypes'
    BY <1>3, <2>2 DEF S!TakeFromMap, S!WithoutTaken, Requests
  <2>4. S!HandedOnce' /\ SnapshotIsSpare'
    BY <1>3, <2>2 DEF S!TakeFromMap, S!WithoutTaken, S!HandedOnce, SnapshotIsSpare
  <2> QED BY <1>3, <2>2, <2>3, <2>4 DEF S!TakeFromMap, S!WithoutTaken, RequestsApart, RequestsKnow,
                      RequestKnows, Resumable, S!RemovedStaysRemoved, S!EndedIsResumable
<1>4. ASSUME NEW i \in Id, S!SaveSnapshot(i) PROVE SessionInv'
  <2>1. SessionTypes'
    BY <1>4 DEF S!SaveSnapshot, S!StoreSnapshot, Requests
  <2> QED BY <1>4, <2>1 DEF S!SaveSnapshot, S!StoreSnapshot, RequestsApart, RequestsKnow,
       RequestKnows, Resumable,
                      S!HandedOnce, SnapshotIsSpare, S!RemovedStaysRemoved, S!EndedIsResumable
<1> QED BY <1>1, <1>2, <1>3, <1>4

\* A request begins.
LEMMA RequestsBegin ==
    ASSUME SessionInv,
           \E c \in Caller, i \in Id :
              \/ S!GetFromMap(c, i) \/ S!RetainLive(c, i) \/ S!RemoveUnread(c, i)
              \/ S!ReadSnapshot(c, i)
              \/ \E op \in {"get", "touch", "remove", "cleanup"} : S!ReadKey(c, op, i)
    PROVE  SessionInv'
<1> USE HorizonFacts DEF SessionInv, SessionTypes, S!TypeOK, S!Absent, S!Unused, S!Memory,
                         S!Redis, S!Busy, S!Overlap, S!Done, S!Nothing, S!Begin, S!At
<1>1. ASSUME NEW c \in Caller, NEW i \in Id, S!GetFromMap(c, i) PROVE SessionInv'
  <2>1. SessionTypes'
    BY <1>1 DEF S!GetFromMap, Requests
  <2> QED BY <1>1, <2>1 DEF S!GetFromMap, RequestsApart, RequestsKnow, RequestKnows, Resumable,
                      S!HandedOnce, SnapshotIsSpare, S!RemovedStaysRemoved, S!EndedIsResumable
<1>2. ASSUME NEW c \in Caller, NEW i \in Id, S!RetainLive(c, i) PROVE SessionInv'
  <2>1. SessionTypes'
    BY <1>2 DEF S!RetainLive, Requests
  <2> QED BY <1>2, <2>1 DEF S!RetainLive, RequestsApart, RequestsKnow, RequestKnows, Resumable,
                      S!HandedOnce, SnapshotIsSpare, S!RemovedStaysRemoved, S!EndedIsResumable
<1>3. ASSUME NEW c \in Caller, NEW i \in Id, S!RemoveUnread(c, i) PROVE SessionInv'
  <2>1. SessionTypes'
    BY <1>3 DEF S!RemoveUnread, Requests
  <2> QED BY <1>3, <2>1 DEF S!RemoveUnread, RequestsApart, RequestsKnow, RequestKnows, Resumable,
                      S!HandedOnce, SnapshotIsSpare, S!RemovedStaysRemoved, S!EndedIsResumable
<1>4. ASSUME NEW c \in Caller, NEW i \in Id, S!ReadSnapshot(c, i) PROVE SessionInv'
  <2>1. SessionTypes'
    BY <1>4 DEF S!ReadSnapshot, Requests
  <2> QED BY <1>4, <2>1 DEF S!ReadSnapshot, RequestsApart, RequestsKnow, RequestKnows, Resumable,
                      S!HandedOnce, SnapshotIsSpare, S!RemovedStaysRemoved, S!EndedIsResumable
<1>5. ASSUME NEW c \in Caller, NEW i \in Id,
             NEW op \in {"get", "touch", "remove", "cleanup"}, S!ReadKey(c, op, i) PROVE SessionInv'
  <2>1. SessionTypes'
    BY <1>5 DEF S!ReadKey, Requests
  <2> QED BY <1>5, <2>1 DEF S!ReadKey, RequestsApart, RequestsKnow, RequestKnows, Resumable,
                      S!HandedOnce, SnapshotIsSpare, S!RemovedStaysRemoved, S!EndedIsResumable
<1> QED BY <1>1, <1>2, <1>3, <1>4, <1>5

\* A request goes on, or ends.
LEMMA RequestsGoOn ==
    ASSUME SessionInv,
           \E c \in Caller :
              \/ S!DropExpired(c) \/ S!EnterSnapshot(c) \/ S!WriteKey(c) \/ S!SnapshotKey(c)
              \/ S!DeleteKey(c) \/ S!CommandFails(c) \/ S!TakeSnapshot(c)
    PROVE  SessionInv'
<1> USE HorizonFacts DEF SessionInv, SessionTypes, S!TypeOK, S!Absent, S!Unused, S!Memory,
                         S!Redis, S!Busy, S!Overlap, S!Done, S!Nothing, S!Begin, S!At
<1>1. ASSUME NEW c \in Caller, S!DropExpired(c) PROVE SessionInv'
  <2>1. SessionTypes'
    BY <1>1 DEF S!DropExpired, Requests
  <2> QED BY <1>1, <2>1 DEF S!DropExpired, RequestsApart, RequestsKnow, RequestKnows, Resumable,
                      S!HandedOnce, SnapshotIsSpare, S!RemovedStaysRemoved, S!EndedIsResumable
<1>2. ASSUME NEW c \in Caller, S!EnterSnapshot(c) PROVE SessionInv'
  <2>1. call[c].id \in Id /\ S!StoreSnapshot(call[c].id)
    BY <1>2 DEF S!EnterSnapshot
  <2>2. /\ snapshot' = snapshot \cup {call[c].id}
        /\ saves' \in [Id -> [stored : 0..3, handed : 0..3]]
        /\ saves'[call[c].id].stored = saves[call[c].id].stored + 1
        /\ saves'[call[c].id].handed = saves[call[c].id].handed
        /\ saves[call[c].id].stored \in Nat /\ saves[call[c].id].handed \in Nat
        /\ \A j \in Id \ {call[c].id} : saves'[j] = saves[j]
    BY <2>1, StoreFacts
  <2>3. SessionTypes'
    BY <1>2, <2>1, <2>2 DEF S!EnterSnapshot, Requests
  <2>4. S!HandedOnce' /\ SnapshotIsSpare'
    BY <1>2, <2>1, <2>2 DEF S!EnterSnapshot, S!HandedOnce, SnapshotIsSpare
  <2> QED BY <1>2, <2>1, <2>2, <2>3, <2>4 DEF S!EnterSnapshot, RequestsApart, RequestsKnow,
                      RequestKnows, Resumable, S!RemovedStaysRemoved, S!EndedIsResumable
<1>3. ASSUME NEW c \in Caller, S!WriteKey(c) PROVE SessionInv'
  <2>1. SessionTypes'
    BY <1>3 DEF S!WriteKey, Requests
  <2> QED BY <1>3, <2>1 DEF S!WriteKey, RequestsApart, RequestsKnow, RequestKnows, Resumable,
                      S!HandedOnce, SnapshotIsSpare, S!RemovedStaysRemoved, S!EndedIsResumable
<1>4. ASSUME NEW c \in Caller, S!SnapshotKey(c) PROVE SessionInv'
  <2>1. call[c].id \in Id /\ call'[c].id = call[c].id
    BY <1>4 DEF S!SnapshotKey, Requests
  <2>2. CASE S!StoreSnapshot(call[c].id) /\ UNCHANGED troubled
    <3>1. /\ snapshot' = snapshot \cup {call[c].id}
          /\ saves' \in [Id -> [stored : 0..3, handed : 0..3]]
          /\ saves'[call[c].id].stored = saves[call[c].id].stored + 1
          /\ saves'[call[c].id].handed = saves[call[c].id].handed
          /\ saves[call[c].id].stored \in Nat /\ saves[call[c].id].handed \in Nat
          /\ \A j \in Id \ {call[c].id} : saves'[j] = saves[j]
      BY <2>1, <2>2, StoreFacts
    <3>2. SessionTypes'
      <4>1. call' \in [Caller -> Requests]
        BY <1>4 DEF S!SnapshotKey, Requests
      <4> QED BY <1>4, <2>1, <2>2, <3>1, <4>1 DEF S!SnapshotKey
    <3>3. S!HandedOnce' /\ SnapshotIsSpare'
      BY <1>4, <2>1, <2>2, <3>1 DEF S!SnapshotKey, S!HandedOnce, SnapshotIsSpare
    <3> QED BY <1>4, <2>1, <2>2, <3>1, <3>2, <3>3 DEF S!SnapshotKey, RequestsApart, RequestsKnow,
                      RequestKnows, Resumable, S!RemovedStaysRemoved, S!EndedIsResumable
  <2>3. CASE troubled' = troubled \cup {call[c].id} /\ UNCHANGED <<snapshot, saves>>
    <3>1. SessionTypes'
      <4>1. call' \in [Caller -> Requests]
        BY <1>4 DEF S!SnapshotKey, Requests
      <4> QED BY <1>4, <2>1, <2>3, <4>1 DEF S!SnapshotKey
    <3> QED BY <1>4, <2>1, <2>3, <3>1 DEF S!SnapshotKey, RequestsApart, RequestsKnow, RequestKnows,
                      Resumable, S!HandedOnce, SnapshotIsSpare, S!RemovedStaysRemoved, S!EndedIsResumable
  <2> QED BY <1>4, <2>2, <2>3 DEF S!SnapshotKey, S!BeforeDelete
<1>5. ASSUME NEW c \in Caller, S!DeleteKey(c) PROVE SessionInv'
  <2>1. SessionTypes'
    BY <1>5 DEF S!DeleteKey, Requests
  <2> QED BY <1>5, <2>1 DEF S!DeleteKey, RequestsApart, RequestsKnow, RequestKnows, Resumable,
                      S!HandedOnce, SnapshotIsSpare, S!RemovedStaysRemoved, S!EndedIsResumable
<1>6. ASSUME NEW c \in Caller, S!CommandFails(c) PROVE SessionInv'
  <2>1. SessionTypes'
    BY <1>6 DEF S!CommandFails, Requests
  <2> QED BY <1>6, <2>1 DEF S!CommandFails, RequestsApart, RequestsKnow, RequestKnows, Resumable,
                      S!HandedOnce, SnapshotIsSpare, S!RemovedStaysRemoved, S!EndedIsResumable
<1>7. ASSUME NEW c \in Caller, S!TakeSnapshot(c) PROVE SessionInv'
  <2>1. /\ call[c].id \in Id /\ saves[call[c].id].handed < 3
        /\ saves' = [saves EXCEPT ![call[c].id].handed = @ + 1]
    BY <1>7 DEF S!TakeSnapshot
  <2>2. /\ saves' \in [Id -> [stored : 0..3, handed : 0..3]]
        /\ saves'[call[c].id].stored = saves[call[c].id].stored
        /\ saves'[call[c].id].handed = saves[call[c].id].handed + 1
        /\ saves[call[c].id].stored \in Nat /\ saves[call[c].id].handed \in Nat
        /\ \A j \in Id \ {call[c].id} : saves'[j] = saves[j]
    BY <2>1, HandFacts
  <2>3. SessionTypes'
    BY <1>7, <2>1, <2>2 DEF S!TakeSnapshot, S!WithoutTaken, Requests
  <2>3a. /\ call[c].pc = "take" /\ S!Redis
         /\ call' = [call EXCEPT ![c] = S!Nothing]
         /\ UNCHANGED <<backend, timeout, idle, left, removed>>
    BY <1>7 DEF S!TakeSnapshot
  <2>3b. /\ troubled \subseteq troubled' /\ snapshot' \subseteq snapshot
         /\ \A i \in Id \ {call[c].id} : i \in snapshot <=> i \in snapshot'
         /\ call[c].id \notin troubled' => call[c].id \notin snapshot'
    BY <1>7 DEF S!TakeSnapshot, S!WithoutTaken
  <2>4. /\ call[c].pc = "take" /\ call[c] # S!Nothing
        /\ call' = [call EXCEPT ![c] = S!Nothing]
        /\ UNCHANGED <<backend, timeout, idle, left, removed>>
        /\ troubled \subseteq troubled' /\ snapshot' \subseteq snapshot
        /\ \A i \in Id \ {call[c].id} : i \in snapshot <=> i \in snapshot'
        /\ call[c].id \notin troubled' => call[c].id \notin snapshot'
        /\ S!Redis
    BY <2>3a, <2>3b DEF S!Nothing
  <2>5. call[c].id \notin troubled' => call[c].id \in snapshot
    BY <2>1, <2>4 DEF RequestsKnow, RequestKnows
  <2>6. S!HandedOnce'
    <3> SUFFICES ASSUME NEW i \in Id, i \notin troubled'
                 PROVE  saves'[i].handed <= saves'[i].stored
      BY <2>4 DEF S!HandedOnce
    <3>1. CASE i = call[c].id
      BY <2>2, <2>4, <2>5, <3>1 DEF SnapshotIsSpare
    <3>2. CASE i # call[c].id
      BY <2>2, <2>4, <3>2 DEF S!HandedOnce
    <3> QED BY <3>1, <3>2
  <2>7. SnapshotIsSpare'
    BY <2>2, <2>4 DEF SnapshotIsSpare
  <2>8. RequestsApart'
    BY <2>4 DEF RequestsApart
  <2>9. RequestsKnow'
    BY <2>1, <2>2, <2>4 DEF RequestsApart, RequestsKnow, RequestKnows, Resumable
  <2>10. S!RemovedStaysRemoved' /\ S!EndedIsResumable'
    BY <2>2, <2>4 DEF S!RemovedStaysRemoved, S!EndedIsResumable
  <2> QED BY <2>3, <2>6, <2>7, <2>8, <2>9, <2>10
<1> QED BY <1>1, <1>2, <1>3, <1>4, <1>5, <1>6, <1>7

\* Every step keeps the invariant.
LEMMA SessionsStep ==
    ASSUME SessionInv, [S!Next]_(S!vars)
    PROVE  SessionInv'
<1>1. CASE UNCHANGED S!vars
  BY <1>1 DEF S!vars, SessionInv, SessionTypes, S!TypeOK, S!Memory, S!Redis, RequestsApart,
              RequestsKnow, RequestKnows, Resumable, S!HandedOnce, SnapshotIsSpare,
              S!RemovedStaysRemoved, S!EndedIsResumable
<1>2. CASE S!Next
  BY <1>2, SurroundingsKeep, OneStepCallsKeep, RequestsBegin, RequestsGoOn DEF S!Next
<1> QED BY <1>1, <1>2

\* A session that ends stays ended and can be resumed once, in both stores.
THEOREM SessionsStaySound == S!Spec => []SessionsAreSound
<1>1. S!Init => SessionInv
  BY SessionsInit
<1>2. SessionInv /\ [S!Next]_(S!vars) => SessionInv'
  BY SessionsStep
<1>3. SessionInv => SessionsAreSound
  BY DEF SessionInv, SessionTypes, SessionsAreSound
<1> QED BY <1>1, <1>2, <1>3, PTL DEF S!Spec

-----------------------------------------------------------------------------
(***************************************************************************)
(* The clients.                                                            *)
(***************************************************************************)

EngineSession == [life : T!Life, status : T!Status, overlay : SUBSET Path, rows : SUBSET Path]

ToolNames == T!Common \cup {"pre-submit", "review", "push", "approve", "resolve", "close",
                            "abandon", "finalize"}

Answers == {"connected", "report", "content", "listing", "hash", "locked", "stale",
            "accepted", "rejected", "ran", "prepared", "merged", "conflicts", "approved",
            "resolved", "closed", "abandoned", "finalized", "refused", "error"}

Calling == [at : {"idle", "sent", "answered"}, tool : ToolNames \cup {"none"},
            arg : [Path -> T!Change], knew : SUBSET Path, answer : Answers \cup {"none"},
            shown : SUBSET Path, steps : SUBSET T!Step, did : SUBSET T!Effects, after : T!Status]

ClientTypes ==
    /\ client \in DOMAIN T!Tools
    /\ ses \in EngineSession /\ landed \subseteq Path /\ known \subseteq Path
    /\ joined \in BOOLEAN /\ bridged \in BOOLEAN /\ unheard \in BOOLEAN
    /\ tool_call \in [Call -> Calling]
    /\ \A c \in Call : tool_call[c].tool \in T!Tools[client] \cup {"none"}

\* The answers a tool has when its call does not fail.
Fits(whose, tool, a) ==
    /\ tool = "connect" => a = "connected"
    /\ tool \in {"context", "pre-submit", "review", "push"} => a = "report"
    /\ tool = "read" => a = "content"
    /\ tool \in {"list", "status"} => a = "listing"
    /\ tool = "write" => a = "hash" \/ (a \in {"locked", "stale"} /\ whose # "ops")
    /\ tool = "submit" => a \in {"accepted", "rejected"}
    /\ tool = "verify" => a = IF whose = "ops" THEN "prepared" ELSE "ran"
    /\ tool = "merge" => a \in {"merged", "conflicts"}
    /\ tool = "approve" => a = "approved"
    /\ tool = "resolve" => a = "resolved"
    /\ tool = "close" => a = "closed"
    /\ tool = "abandon" => a = "abandoned"
    /\ tool = "finalize" => a = "finalized"

Over == {"abandoned", "swept", "closed"}

\* What a call may do to the session, by its answer: leave the session as e,
\* put the paths on main, and answer with what is shown and the steps.
Does(tool, ps, e, lands, a, shown, steps) ==
    /\ e \in EngineSession /\ lands \subseteq Path /\ shown \subseteq Path /\ steps \subseteq T!Step
    /\ a \in T!Errors \/ (a \in Answers /\ Fits(client, tool, a))
    /\ ses.overlay \subseteq e.overlay /\ ses.rows \subseteq e.rows
    /\ lands # {} => tool = "merge" /\ lands = ses.overlay /\ a \in {"error", "merged"}
    /\ \/ e.life = ses.life
       \/ tool = "connect" /\ e.life = "live"
       \/ a = "closed" /\ e.life = "closed" /\ ses.life # "none"
       \/ a = "abandoned" /\ e.life = "abandoned" /\ ses.life = "stranded"
    /\ a \in {"refused", "locked", "stale", "conflicts"} => e = ses /\ lands = {}
    /\ a = "rejected" => e.status = ses.status
    /\ a = "connected" => e.life = "live"
    /\ a \in {"hash", "resolved"} => ps \subseteq e.overlay
    /\ a = "hash" /\ client = "ops" => ps \subseteq e.rows
    /\ a = "accepted" => e.status = "submitted" /\ (client # "ops" => ses.overlay \subseteq e.rows)
    /\ a = "approved" => e.status = "approved"
    /\ a = "merged" => e.status = "merged" /\ lands = ses.overlay /\ lands # {}
    /\ a = "closed" => e.life = "closed"
    /\ a = "abandoned" => e.life \in Over
    /\ a = "ran" => e.status = T!Verdict(steps) \/ (e.status = "rejected" /\ steps = {})
    /\ a = "content" => ps \cap ses.overlay \subseteq shown
    /\ a = "listing" => ses.overlay \subseteq shown

Outcome(tool, ps, o) == Does(tool, ps, o.ses, o.lands, o.answer, o.shown, o.steps)

\* An outcome that is only an answer.
LEMMA AnsweredFacts ==
    ASSUME NEW tool, NEW ps, NEW e, NEW a
    PROVE  Outcome(tool, ps, T!Answered(e, a)) <=> Does(tool, ps, e, {}, a, {}, {})
<1>1. /\ T!Answered(e, a).ses = e /\ T!Answered(e, a).lands = {}
      /\ T!Answered(e, a).answer = a /\ T!Answered(e, a).shown = {}
      /\ T!Answered(e, a).steps = {}
  BY DEF T!Answered
<1> QED BY <1>1 DEF Outcome

\* An answer that is an error and does nothing is an outcome of any call.
LEMMA FailureFacts ==
    ASSUME ClientTypes, NEW tool, NEW ps
    PROVE  Outcome(tool, ps, T!Says("error")) /\ Outcome(tool, ps, T!Says("refused"))
<1>1. Does(tool, ps, ses, {}, "error", {}, {}) /\ Does(tool, ps, ses, {}, "refused", {}, {})
  BY DEF Does, ClientTypes, T!Errors
<1> QED BY <1>1, AnsweredFacts DEF T!Says

\* Connecting, and the reports.
LEMMA PlainOutcomes ==
    ASSUME ClientTypes, NEW ps
    PROVE  /\ \A o \in T!Connect \cup T!ToolConnect : Outcome("connect", ps, o)
           /\ \A o \in T!Context \cup T!ToolContext : Outcome("context", ps, o)
           /\ \A o \in T!PreSubmitCheck : Outcome("pre-submit", ps, o)
           /\ \A o \in T!Review : Outcome("review", ps, o)
           /\ \A o \in T!Push : Outcome("push", ps, o)
<1>1. \A tool : Outcome(tool, ps, T!Says("error")) /\ Outcome(tool, ps, T!Says("refused"))
  BY FailureFacts
<1>2. ASSUME NEW tool \in {"context", "pre-submit", "review", "push"}
      PROVE  Outcome(tool, ps, T!Says("report"))
  <2>1. Does(tool, ps, ses, {}, "report", {}, {})
    BY DEF Does, ClientTypes, Fits, Answers
  <2> QED BY <2>1, AnsweredFacts DEF T!Says
<1>3. ASSUME NEW a \in {"error", "connected"}
      PROVE  Outcome("connect", ps, T!Answered([ses EXCEPT !.life = "live", !.status = "draft"], a))
  <2> DEFINE e == [ses EXCEPT !.life = "live", !.status = "draft"]
  <2>1. /\ e \in EngineSession /\ e.life = "live" /\ e.status = "draft"
        /\ e.overlay = ses.overlay /\ e.rows = ses.rows
    BY DEF ClientTypes, EngineSession, T!Life, T!Status
  <2> HIDE DEF e
  <2>2. Does("connect", ps, e, {}, a, {}, {})
    BY <2>1 DEF Does, T!Errors, Fits, Answers
  <2>3. Outcome("connect", ps, T!Answered(e, a))
    BY <2>2, AnsweredFacts
  <2> QED BY <2>3 DEF e
<1>4. \A o \in T!Connect \cup T!ToolConnect : Outcome("connect", ps, o)
  BY <1>1, <1>3 DEF T!Connect, T!ToolConnect
<1> QED BY <1>1, <1>2, <1>4
        DEF T!Context, T!ToolContext, T!PreSubmitCheck, T!Review, T!Push, T!Refused

\* A session whose changeset has another status.
LEMMA StatusFacts ==
    ASSUME NEW e \in EngineSession, NEW s \in T!Status, NEW d, d = [e EXCEPT !.status = s]
    PROVE  /\ d \in EngineSession /\ d.life = e.life /\ d.status = s
           /\ d.overlay = e.overlay /\ d.rows = e.rows
  BY DEF EngineSession

\* Writing a file.
LEMMA WriteOutcomes ==
    ASSUME ClientTypes, NEW ps \in SUBSET Path
    PROVE  /\ client # "ops" => \A o \in T!FileWrite(ps) : Outcome("write", ps, o)
           /\ \A o \in T!ToolWriteFile(ps) : Outcome("write", ps, o)
<1>1. Outcome("write", ps, T!Says("error"))
  BY FailureFacts
<1>2. ASSUME client # "ops", NEW a \in {"locked", "stale"} PROVE Outcome("write", ps, T!Says(a))
  <2>1. Does("write", ps, ses, {}, a, {}, {})
    BY <1>2 DEF Does, ClientTypes, Fits, Answers
  <2> QED BY <2>1, AnsweredFacts DEF T!Says
<1>3. ASSUME client # "ops", NEW rs \in {{}, ps}
      PROVE  Outcome("write", ps,
                     T!Answered([ses EXCEPT !.overlay = @ \cup ps, !.rows = @ \cup rs], "hash"))
  <2> DEFINE e == [ses EXCEPT !.overlay = @ \cup ps, !.rows = @ \cup rs]
  <2>1. /\ e \in EngineSession /\ e.life = ses.life
        /\ e.overlay = ses.overlay \cup ps /\ e.rows = ses.rows \cup rs
    BY <1>3 DEF ClientTypes, EngineSession
  <2> HIDE DEF e
  <2>2. Does("write", ps, e, {}, "hash", {}, {})
    BY <1>3, <2>1 DEF Does, Fits, Answers
  <2>3. Outcome("write", ps, T!Answered(e, "hash"))
    BY <2>2, AnsweredFacts
  <2> QED BY <2>3 DEF e
<1>4. client # "ops" => \A o \in T!FileWrite(ps) : Outcome("write", ps, o)
  BY <1>1, <1>2, <1>3 DEF T!FileWrite
<1>5. ASSUME NEW e, e = [ses EXCEPT !.overlay = @ \cup ps],
             NEW d, d = [e EXCEPT !.rows = @ \cup ps]
      PROVE  /\ Outcome("write", ps, T!Answered(e, "error"))
             /\ Outcome("write", ps, T!Answered(d, "hash"))
  <2>1. /\ e \in EngineSession /\ e.life = ses.life
        /\ e.overlay = ses.overlay \cup ps /\ e.rows = ses.rows
    BY <1>5 DEF ClientTypes, EngineSession
  <2>2. /\ d \in EngineSession /\ d.life = ses.life
        /\ d.overlay = ses.overlay \cup ps /\ d.rows = ses.rows \cup ps
    BY <1>5, <2>1 DEF ClientTypes, EngineSession
  <2>3. Does("write", ps, e, {}, "error", {}, {})
    BY <2>1 DEF Does, T!Errors
  <2>4. Does("write", ps, d, {}, "hash", {}, {})
    BY <2>2 DEF Does, Fits, Answers
  <2> QED BY <2>3, <2>4, AnsweredFacts
<1>6. \A o \in T!ToolWriteFile(ps) : Outcome("write", ps, o)
  BY <1>1, <1>5 DEF T!ToolWriteFile
<1> QED BY <1>4, <1>6

\* Submitting the overlay, with inline changes or without.
LEMMA SubmitOutcomes ==
    ASSUME ClientTypes, NEW ps, NEW arg \in [Path -> T!Change]
    PROVE  /\ client # "ops" => \A o \in T!Submit(arg) : Outcome("submit", ps, o)
           /\ client = "ops" => \A o \in T!ToolSubmit : Outcome("submit", ps, o)
<1>1. Outcome("submit", ps, T!Says("error"))
  BY FailureFacts
<1>2. Outcome("submit", ps, T!Says("rejected"))
  <2>1. Does("submit", ps, ses, {}, "rejected", {}, {})
    BY DEF Does, ClientTypes, Fits, Answers
  <2> QED BY <2>1, AnsweredFacts DEF T!Says
<1>3. ASSUME NEW w \in SUBSET Path, NEW e,
             e = [ses EXCEPT !.overlay = @ \cup w, !.rows = @ \cup ses.overlay \cup w],
             NEW d, d = [e EXCEPT !.status = "submitted"]
      PROVE  /\ \A a \in {"rejected", "error"} : Outcome("submit", ps, T!Answered(e, a))
             /\ \A a \in {"accepted", "error"} : Outcome("submit", ps, T!Answered(d, a))
  <2>1. /\ e \in EngineSession /\ e.life = ses.life /\ e.status = ses.status
        /\ e.overlay = ses.overlay \cup w /\ e.rows = ses.rows \cup (ses.overlay \cup w)
    BY <1>3 DEF ClientTypes, EngineSession
  <2>2. /\ d \in EngineSession /\ d.life = ses.life /\ d.status = "submitted"
        /\ d.overlay = ses.overlay \cup w /\ d.rows = ses.rows \cup (ses.overlay \cup w)
    BY <1>3, <2>1 DEF EngineSession, T!Status
  <2>3. \A a \in {"rejected", "error"} : Does("submit", ps, e, {}, a, {}, {})
    BY <2>1 DEF Does, T!Errors, Fits, Answers
  <2>4. \A a \in {"accepted", "error"} : Does("submit", ps, d, {}, a, {}, {})
    BY <2>2 DEF Does, T!Errors, Fits, Answers
  <2> QED BY <2>3, <2>4, AnsweredFacts
<1>4. ASSUME client # "ops" PROVE \A o \in T!Submit(arg) : Outcome("submit", ps, o)
  <2> SUFFICES ASSUME NEW o \in T!Submit(arg) PROVE Outcome("submit", ps, o)
    OBVIOUS
  <2> DEFINE fit == {p \in Path : \/ arg[p] = "add"
                                  \/ arg[p] = "modify" /\ p \in BasePath \cup ses.overlay}
             bad == {p \in Path : arg[p] = "modify"} \ fit
             deletes == {p \in Path : arg[p] = "delete"}
  <2>0. T!Submit(arg) =
          IF ses.overlay \cup fit \cup bad \cup deletes = {} THEN {T!Says("rejected")}
          ELSE {T!Answered(T!Applied(w), a) : w \in SUBSET fit, a \in {"rejected", "error"}}
                  \cup IF bad = {} THEN {T!Answered(T!Sent(fit), a) : a \in {"accepted", "error"}}
                       ELSE {}
    BY DEF T!Submit
  <2> HIDE DEF bad, deletes, fit
  <2>1. \/ o = T!Says("rejected")
        \/ \E w \in SUBSET fit, a \in {"rejected", "error"} : o = T!Answered(T!Applied(w), a)
        \/ \E a \in {"accepted", "error"} : o = T!Answered(T!Sent(fit), a)
    BY <2>0
  <2>2. fit \in SUBSET Path
    BY DEF fit
  <2>3. ASSUME NEW w \in SUBSET fit, NEW a \in {"rejected", "error"}, o = T!Answered(T!Applied(w), a)
        PROVE  Outcome("submit", ps, o)
    BY <1>3, <2>2, <2>3 DEF T!Applied
  <2>4. ASSUME NEW a \in {"accepted", "error"}, o = T!Answered(T!Sent(fit), a)
        PROVE  Outcome("submit", ps, o)
    BY <1>3, <2>2, <2>4 DEF T!Applied, T!Sent
  <2> QED BY <1>2, <2>1, <2>3, <2>4
<1>5. ASSUME client = "ops" PROVE \A o \in T!ToolSubmit : Outcome("submit", ps, o)
  <2> SUFFICES ASSUME NEW e, e = [ses EXCEPT !.status = "submitted"]
               PROVE  Outcome("submit", ps, T!Answered(e, "accepted"))
    BY <1>1 DEF T!ToolSubmit
  <2>1. /\ e \in EngineSession /\ e.life = ses.life /\ e.status = "submitted"
        /\ e.overlay = ses.overlay /\ e.rows = ses.rows
    BY StatusFacts DEF T!Status, ClientTypes
  <2>2. Does("submit", ps, e, {}, "accepted", {}, {})
    BY <1>5, <2>1 DEF Does, T!Errors, Fits, Answers
  <2> QED BY <2>2, AnsweredFacts
<1> QED BY <1>4, <1>5

\* Reading and listing.
LEMMA ReadOutcomes ==
    ASSUME ClientTypes, NEW ps \in SUBSET Path
    PROVE  /\ \A o \in T!FileRead(ps) \cup T!ToolReadFile(ps) : Outcome("read", ps, o)
           /\ \A o \in T!FileList \cup T!ToolListFiles : Outcome("list", ps, o)
           /\ \A o \in T!SessionStatus \cup T!ToolSessionStatus : Outcome("status", ps, o)
<1>1. Outcome("read", ps, T!Says("refused"))
  BY FailureFacts
<1>2. ASSUME NEW tool, NEW a, NEW shown,
             \/ tool = "read" /\ a = "content" /\ shown = ps \cap ses.overlay
             \/ tool \in {"list", "status"} /\ a = "listing" /\ shown = ses.overlay
      PROVE  Outcome(tool, ps, [T!Says(a) EXCEPT !.shown = shown])
  <2> DEFINE o == [T!Says(a) EXCEPT !.shown = shown]
  <2>1. o.ses = ses /\ o.lands = {} /\ o.answer = a /\ o.shown = shown /\ o.steps = {}
    BY DEF T!Says, T!Answered
  <2>2. Does(tool, ps, ses, {}, a, shown, {})
    BY <1>2 DEF Does, ClientTypes, EngineSession, Fits, Answers
  <2> HIDE DEF o
  <2>3. Outcome(tool, ps, o)
    BY <2>1, <2>2 DEF Outcome
  <2> QED BY <2>3 DEF o
<1>3. \A o \in T!FileRead(ps) : Outcome("read", ps, o)
  <2>1. Outcome("read", ps, [T!Says("content") EXCEPT !.shown = ps \cap ses.overlay])
    BY <1>2
  <2> QED BY <1>1, <2>1 DEF T!FileRead, T!Refused
<1> QED BY <1>2, <1>3 DEF T!ToolReadFile, T!FileList, T!ToolListFiles, T!SessionStatus,
        T!ToolSessionStatus

\* Verifying a changeset, on the server and by the tool operations.
LEMMA VerifyOutcomes ==
    ASSUME ClientTypes, NEW ps
    PROVE  /\ client # "ops" => \A o \in T!Verify : Outcome("verify", ps, o)
           /\ client = "ops" => \A o \in T!ToolVerifyPrepare : Outcome("verify", ps, o)
           /\ \A o \in T!ToolVerifyFinalize : Outcome("finalize", ps, o)
<1>1. \A tool : Outcome(tool, ps, T!Says("error"))
  BY FailureFacts
<1>2. ASSUME NEW s \in T!Status, NEW e, e = [ses EXCEPT !.status = s]
      PROVE  /\ e \in EngineSession /\ e.life = ses.life /\ e.status = s
             /\ e.overlay = ses.overlay /\ e.rows = ses.rows
  BY <1>2, StatusFacts DEF ClientTypes
<1>3. ASSUME client # "ops" PROVE \A o \in T!Verify : Outcome("verify", ps, o)
  <2>1. ASSUME NEW s \in SUBSET T!Step, NEW e, e = [ses EXCEPT !.status = T!Verdict(s)]
        PROVE  Outcome("verify", ps, [T!Answered(e, "ran") EXCEPT !.steps = s])
    <3> DEFINE o == [T!Answered(e, "ran") EXCEPT !.steps = s]
    <3>1. o.ses = e /\ o.lands = {} /\ o.answer = "ran" /\ o.shown = {} /\ o.steps = s
      BY DEF T!Answered
    <3>2. T!Verdict(s) \in T!Status
      BY DEF T!Verdict, T!Status
    <3>3. /\ e \in EngineSession /\ e.life = ses.life /\ e.status = T!Verdict(s)
          /\ e.overlay = ses.overlay /\ e.rows = ses.rows
      BY <1>2, <2>1, <3>2
    <3>4. Does("verify", ps, e, {}, "ran", {}, s)
      BY <1>3, <3>3 DEF Does, T!Errors, Fits, Answers
    <3> HIDE DEF o
    <3>5. Outcome("verify", ps, o)
      BY <3>1, <3>4 DEF Outcome
    <3> QED BY <3>5 DEF o
  <2>2. ASSUME NEW e, e = [ses EXCEPT !.status = "rejected"]
        PROVE  Outcome("verify", ps, T!Answered(e, "ran"))
    <3>1. /\ e \in EngineSession /\ e.life = ses.life /\ e.status = "rejected"
          /\ e.overlay = ses.overlay /\ e.rows = ses.rows
      BY <1>2, <2>2 DEF T!Status
    <3>2. Does("verify", ps, e, {}, "ran", {}, {})
      BY <1>3, <3>1 DEF Does, T!Errors, Fits, Answers
    <3> QED BY <3>2, AnsweredFacts
  <2> QED BY <2>1, <2>2 DEF T!Verify, T!Runs
<1>4. ASSUME client = "ops" PROVE \A o \in T!ToolVerifyPrepare : Outcome("verify", ps, o)
  <2>1. ASSUME NEW a \in {"error", "prepared"}, NEW e, e = [ses EXCEPT !.status = "verifying"]
        PROVE  Outcome("verify", ps, T!Answered(e, a))
    <3>1. /\ e \in EngineSession /\ e.life = ses.life /\ e.status = "verifying"
          /\ e.overlay = ses.overlay /\ e.rows = ses.rows
      BY <1>2, <2>1 DEF T!Status
    <3>2. Does("verify", ps, e, {}, a, {}, {})
      BY <1>4, <3>1 DEF Does, T!Errors, Fits, Answers
    <3> QED BY <3>2, AnsweredFacts
  <2> QED BY <1>1, <2>1 DEF T!ToolVerifyPrepare
<1>5. \A o \in T!ToolVerifyFinalize : Outcome("finalize", ps, o)
  <2>1. ASSUME NEW v \in {"approved", "rejected"}, NEW e, e = [ses EXCEPT !.status = v]
        PROVE  Outcome("finalize", ps, T!Answered(e, "finalized"))
    <3>1. /\ e \in EngineSession /\ e.life = ses.life /\ e.status = v
          /\ e.overlay = ses.overlay /\ e.rows = ses.rows
      BY <1>2, <2>1 DEF T!Status
    <3>2. Does("finalize", ps, e, {}, "finalized", {}, {})
      BY <3>1 DEF Does, T!Errors, Fits, Answers
    <3> QED BY <3>2, AnsweredFacts
  <2> QED BY <1>1, <2>1 DEF T!ToolVerifyFinalize
<1> QED BY <1>3, <1>4, <1>5

\* Approving and resolving.
LEMMA DecisionOutcomes ==
    ASSUME ClientTypes, NEW ps \in SUBSET Path
    PROVE  /\ \A o \in T!Approve : Outcome("approve", ps, o)
           /\ \A o \in T!Resolve(ps) : Outcome("resolve", ps, o)
<1>1. \A tool : Outcome(tool, ps, T!Says("error")) /\ Outcome(tool, ps, T!Says("refused"))
  BY FailureFacts
<1>2. \A o \in T!Approve : Outcome("approve", ps, o)
  <2>1. ASSUME NEW e, e = [ses EXCEPT !.status = "approved"]
        PROVE  Outcome("approve", ps, T!Answered(e, "approved"))
    <3>1. /\ e \in EngineSession /\ e.life = ses.life /\ e.status = "approved"
          /\ e.overlay = ses.overlay /\ e.rows = ses.rows
      BY <2>1, StatusFacts DEF ClientTypes, T!Status
    <3>2. Does("approve", ps, e, {}, "approved", {}, {})
      BY <3>1 DEF Does, T!Errors, Fits, Answers
    <3> QED BY <3>2, AnsweredFacts
  <2> QED BY <1>1, <2>1 DEF T!Approve, T!Refused
<1>3. ASSUME NEW e, e = [ses EXCEPT !.overlay = @ \cup ps],
             NEW d, d = [e EXCEPT !.status = "submitted"]
      PROVE  /\ Outcome("resolve", ps, T!Answered(e, "resolved"))
             /\ Outcome("resolve", ps, T!Answered(d, "resolved"))
  <2>1. /\ e \in EngineSession /\ e.life = ses.life /\ e.status = ses.status
        /\ e.overlay = ses.overlay \cup ps /\ e.rows = ses.rows
    BY <1>3 DEF ClientTypes, EngineSession
  <2>2. /\ d \in EngineSession /\ d.life = ses.life
        /\ d.overlay = ses.overlay \cup ps /\ d.rows = ses.rows
    BY <1>3, <2>1 DEF EngineSession, T!Status
  <2>3. /\ Does("resolve", ps, e, {}, "resolved", {}, {})
        /\ Does("resolve", ps, d, {}, "resolved", {}, {})
    BY <2>1, <2>2 DEF Does, T!Errors, Fits, Answers
  <2> QED BY <2>3, AnsweredFacts
<1>4. \A o \in T!Resolve(ps) : Outcome("resolve", ps, o)
  BY <1>1, <1>3 DEF T!Resolve, T!Refused
<1> QED BY <1>2, <1>4

\* Merging.
LEMMA MergeOutcomes ==
    ASSUME ClientTypes, NEW ps
    PROVE  \A o \in T!Merge \cup T!ToolMerge : Outcome("merge", ps, o)
<1>1. Outcome("merge", ps, T!Says("error")) /\ Outcome("merge", ps, T!Says("refused"))
  BY FailureFacts
<1>2. Outcome("merge", ps, T!Says("conflicts"))
  <2>1. Does("merge", ps, ses, {}, "conflicts", {}, {})
    BY DEF Does, ClientTypes, Fits, Answers
  <2> QED BY <2>1, AnsweredFacts DEF T!Says
<1>3. ASSUME NEW o, o = [T!Says("error") EXCEPT !.lands = ses.overlay]
      PROVE  Outcome("merge", ps, o)
  <2>1. /\ o.ses = ses /\ o.lands = ses.overlay /\ o.answer = "error"
        /\ o.shown = {} /\ o.steps = {}
    BY <1>3 DEF T!Says, T!Answered
  <2>2. Does("merge", ps, ses, ses.overlay, "error", {}, {})
    BY DEF Does, ClientTypes, EngineSession, T!Errors
  <2> QED BY <2>1, <2>2 DEF Outcome
<1>4. ASSUME ses.overlay # {}, NEW e, e = [ses EXCEPT !.status = "merged"],
             NEW o, o.ses = e, o.lands = ses.overlay, o.answer = "merged",
             o.shown = {}, o.steps = {}
      PROVE  Outcome("merge", ps, o)
  <2>1. /\ e \in EngineSession /\ e.life = ses.life /\ e.status = "merged"
        /\ e.overlay = ses.overlay /\ e.rows = ses.rows
    BY <1>4, StatusFacts DEF ClientTypes, T!Status
  <2>2. Does("merge", ps, e, ses.overlay, "merged", {}, {})
    BY <1>4, <2>1 DEF Does, ClientTypes, EngineSession, T!Errors, Fits, Answers
  <2> QED BY <1>4, <2>2 DEF Outcome
<1>5. ASSUME ses.overlay # {}, NEW o,
             \/ o = [T!Answered([ses EXCEPT !.status = "merged"], "merged")
                       EXCEPT !.lands = ses.overlay]
             \/ o = [[T!Says("error") EXCEPT !.lands = ses.overlay]
                       EXCEPT !.ses.status = "merged", !.answer = "merged"]
      PROVE  Outcome("merge", ps, o)
  <2>1. /\ o.ses = [ses EXCEPT !.status = "merged"] /\ o.lands = ses.overlay
        /\ o.answer = "merged" /\ o.shown = {} /\ o.steps = {}
    BY <1>5 DEF T!Says, T!Answered
  <2> QED BY <1>4, <1>5, <2>1
<1> QED BY <1>1, <1>2, <1>3, <1>5 DEF T!Merge, T!ToolMerge, T!Refused

\* Closing and abandoning.
LEMMA EndOutcomes ==
    ASSUME ClientTypes, NEW ps, ses.life # "none"
    PROVE  /\ \A o \in T!Close : Outcome("close", ps, o)
           /\ \A o \in T!Abandon : Outcome("abandon", ps, o)
<1>1. Outcome("abandon", ps, T!Says("error")) /\ Outcome("abandon", ps, T!Says("refused"))
  BY FailureFacts
<1>2. ASSUME NEW e, e = [ses EXCEPT !.life = "closed"]
      PROVE  Outcome("close", ps, T!Answered(e, "closed"))
  <2>1. /\ e \in EngineSession /\ e.life = "closed" /\ e.status = ses.status
        /\ e.overlay = ses.overlay /\ e.rows = ses.rows
    BY <1>2 DEF ClientTypes, EngineSession, T!Life
  <2>2. Does("close", ps, e, {}, "closed", {}, {})
    BY <2>1 DEF Does, T!Errors, Fits, Answers
  <2> QED BY <2>2, AnsweredFacts
<1>3. ASSUME ses.life \in {"abandoned", "swept"} PROVE Outcome("abandon", ps, T!Says("abandoned"))
  <2>1. Does("abandon", ps, ses, {}, "abandoned", {}, {})
    BY <1>3 DEF Does, ClientTypes, T!Errors, Fits, Answers, Over
  <2> QED BY <2>1, AnsweredFacts DEF T!Says
<1>4. ASSUME ses.life = "stranded", NEW s \in T!Status, NEW e,
             e = [ses EXCEPT !.life = "abandoned", !.status = s]
      PROVE  Outcome("abandon", ps, T!Answered(e, "abandoned"))
  <2>1. /\ e \in EngineSession /\ e.life = "abandoned"
        /\ e.overlay = ses.overlay /\ e.rows = ses.rows
    BY <1>4 DEF ClientTypes, EngineSession, T!Life
  <2>2. Does("abandon", ps, e, {}, "abandoned", {}, {})
    BY <1>4, <2>1 DEF Does, T!Errors, Fits, Answers, Over
  <2> QED BY <2>2, AnsweredFacts
<1>5. \A o \in T!Abandon : Outcome("abandon", ps, o)
  <2>1. (IF ses.status = "merged" THEN ses.status ELSE "rejected") \in T!Status
    BY DEF T!Status
  <2>2. ses.life = "stranded" =>
          Outcome("abandon", ps,
                  T!Answered([ses EXCEPT !.life = "abandoned",
                                         !.status = IF @ = "merged" THEN @ ELSE "rejected"],
                             "abandoned"))
    BY <1>4, <2>1
  <2> QED BY <1>1, <1>3, <2>2 DEF T!Abandon, T!Refused
<1> QED BY <1>2, <1>5 DEF T!Close

\* Which tools a client has.
LEMMA ToolFacts ==
    ASSUME client \in DOMAIN T!Tools, NEW tool \in T!Tools[client]
    PROVE  /\ client \in {"mcp", "cli", "sdk", "programmatic", "python", "ops"}
           /\ tool \in ToolNames
           /\ tool = "finalize" => client = "ops"
           /\ client = "ops" => tool \in T!Common \cup {"finalize"}
           /\ client = "python" => tool \in {"connect", "context", "read", "write", "status", "submit"}
           /\ client = "programmatic" => tool \in T!Common
           /\ client = "cli" => tool \in T!Common \cup {"pre-submit", "review", "approve"}
           /\ client = "sdk" => tool \in T!Common \cup {"pre-submit", "review", "push", "approve",
                                                        "resolve", "close"}
           /\ client = "mcp" => tool # "finalize"
<1>1. client \in {"mcp", "cli", "sdk", "programmatic", "python", "ops"}
  BY DEF T!Tools
<1>2. CASE client = "mcp"
  BY <1>2 DEF T!Tools, T!Common, ToolNames
<1>3. CASE client = "cli"
  BY <1>3 DEF T!Tools, T!Common, ToolNames
<1>4. CASE client = "sdk"
  BY <1>4 DEF T!Tools, T!Common, ToolNames
<1>5. CASE client = "programmatic"
  BY <1>5 DEF T!Tools, T!Common, ToolNames
<1>6. CASE client = "python"
  BY <1>6 DEF T!Tools, T!Common, ToolNames
<1>7. CASE client = "ops"
  BY <1>7 DEF T!Tools, T!Common, ToolNames
<1> QED BY <1>1, <1>2, <1>3, <1>4, <1>5, <1>6, <1>7

\* The outcomes of a call to the engine.
Outcomes(k) ==
    IF client = "ops" THEN T!ToolServed(k.tool, T!Named(k))
    ELSE T!Served(k.tool, k.arg, T!Named(k))

\* Whatever an agent calls, the engine's answer is an outcome of its call.
LEMMA ServedOutcomes ==
    ASSUME ClientTypes, NEW k, k.tool \in T!Tools[client], k.arg \in [Path -> T!Change],
           NEW o \in Outcomes(k)
    PROVE  Outcome(k.tool, T!Named(k), o)
<1> DEFINE ps == T!Named(k)
<1>1. ps \in SUBSET Path
  BY DEF T!Named
<1>2. Outcome(k.tool, ps, T!Says("error")) /\ Outcome(k.tool, ps, T!Says("refused"))
  BY FailureFacts
<1>3. client \in DOMAIN T!Tools
  BY DEF ClientTypes
<1> HIDE DEF ps
<1>4. CASE client = "ops"
  <2>1. k.tool \in T!Common \cup {"finalize"}
    BY <1>3, <1>4, ToolFacts
  <2>2. o \in T!ToolServed(k.tool, ps)
    BY <1>4 DEF Outcomes, ps
  <2>3. CASE k.tool \in {"connect", "submit", "finalize"}
    <3>1. /\ k.tool = "connect" => o \in T!ToolConnect
          /\ k.tool = "submit" => o \in T!ToolSubmit
          /\ k.tool = "finalize" => o \in T!ToolVerifyFinalize
      BY <2>2, <2>3 DEF T!ToolServed
    <3> QED BY <1>4, <2>3, <3>1, PlainOutcomes, SubmitOutcomes, VerifyOutcomes
  <2>4. CASE k.tool \notin {"connect", "submit", "finalize"} /\ T!Live
    <3>1. /\ k.tool = "context" => o \in T!ToolContext
          /\ k.tool = "write" => o \in T!ToolWriteFile(ps)
          /\ k.tool = "read" => o \in T!ToolReadFile(ps)
          /\ k.tool = "list" => o \in T!ToolListFiles
          /\ k.tool = "status" => o \in T!ToolSessionStatus
          /\ k.tool = "verify" => o \in T!ToolVerifyPrepare
          /\ k.tool = "merge" => o \in T!ToolMerge
      BY <2>2, <2>4 DEF T!ToolServed
    <3>2. k.tool \in {"context", "read", "write", "list", "status", "verify", "merge"}
      BY <2>1, <2>4 DEF T!Common
    <3>3. CASE k.tool \in {"context", "read", "write"}
      BY <1>1, <3>1, <3>3, PlainOutcomes, WriteOutcomes, ReadOutcomes DEF ps
    <3>4. CASE k.tool \in {"list", "status", "verify", "merge"}
      BY <1>1, <1>4, <3>1, <3>4, ReadOutcomes, VerifyOutcomes, MergeOutcomes DEF ps
    <3> QED BY <3>2, <3>3, <3>4
  <2>5. CASE k.tool \notin {"connect", "submit", "finalize"} /\ ~T!Live
    <3>1. o = T!Says("refused")
      BY <2>2, <2>5 DEF T!ToolServed, T!Refused
    <3> QED BY <1>2, <3>1 DEF ps
  <2> QED BY <2>3, <2>4, <2>5 DEF ps
<1>5. CASE client # "ops"
  <2>1. k.tool \in ToolNames \ {"finalize"}
    BY <1>3, <1>5, ToolFacts
  <2>2. o \in T!Served(k.tool, k.arg, ps)
    BY <1>5 DEF Outcomes, ps
  <2>3. CASE k.tool = "connect"
    <3>1. o \in T!Connect
      BY <2>2, <2>3 DEF T!Served
    <3> QED BY <2>3, <3>1, PlainOutcomes
  <2>4. CASE k.tool # "connect" /\ o = T!Says("refused")
    BY <1>2, <2>4 DEF ps
  <2>5. CASE k.tool # "connect" /\ o # T!Says("refused")
    <3>1. T!Valid
      BY <2>2, <2>5 DEF T!Served, T!Refused
    <3>2. ses.life # "none"
      BY <3>1 DEF T!Valid
    <3>3. /\ k.tool = "submit" => o \in T!Submit(k.arg)
          /\ k.tool = "write" => o \in T!FileWrite(ps)
          /\ k.tool = "verify" => o \in T!Verify
          /\ k.tool = "merge" => o \in T!Merge
          /\ k.tool = "read" => o \in T!FileRead(ps)
          /\ k.tool = "list" => o \in T!FileList
          /\ k.tool = "status" => o \in T!SessionStatus
          /\ k.tool = "push" => o \in T!Push
      BY <2>2, <2>5 DEF T!Served, T!Refused, T!SubmitUnnamed
    <3>4. /\ k.tool = "context" => o \in T!Context
          /\ k.tool = "review" => o \in T!Review
          /\ k.tool = "pre-submit" => o \in T!PreSubmitCheck
          /\ k.tool = "approve" => o \in T!Approve
          /\ k.tool = "resolve" => o \in T!Resolve(ps)
          /\ k.tool = "close" => o \in T!Close
          /\ k.tool = "abandon" => o \in T!Abandon
      BY <2>2, <2>5 DEF T!Served, T!Refused
    <3>5. CASE k.tool \in {"submit", "write", "verify", "merge", "read", "list", "status", "push"}
      BY <1>1, <1>5, <3>3, <3>5, PlainOutcomes, SubmitOutcomes, WriteOutcomes, ReadOutcomes,
         VerifyOutcomes, MergeOutcomes DEF ps
    <3>6. CASE k.tool \in {"context", "review", "pre-submit", "approve", "resolve", "close", "abandon"}
      BY <1>1, <3>2, <3>4, <3>6, PlainOutcomes, DecisionOutcomes, EndOutcomes DEF ps
    <3> QED BY <2>1, <2>5, <3>5, <3>6 DEF ToolNames, T!Common
  <2> QED BY <2>3, <2>4, <2>5 DEF ps
<1> QED BY <1>4, <1>5

\* A call that was answered has an answer that fits its tool, or failed.
RepliedTo(whose, k) ==
    \/ k.answer \in T!Errors /\ k.tool = "none"
    \/ k.tool \in T!Tools[whose] /\ Fits(whose, k.tool, k.answer) /\ k.answer \notin T!Errors
Replied(k) == RepliedTo(client, k)

\* What the words an agent hears, the paths it sees and dk-mcp's table say of
\* the answer to its call.
Tells(k, word, sees, lists) ==
    /\ word = "connected" => k.answer = "connected"
    /\ word = "wrote" /\ client # "cli" => k.answer = "hash"
    /\ word \in {"resolved", "accepted", "approved", "merged", "closed", "abandoned"} =>
         k.answer = word
    /\ word = "passed" =>
         /\ k.answer = "ran"
         /\ \/ client = "mcp" /\ k.steps # {} /\ k.steps \cap {"fail", "optional fail"} = {}
            \/ client = "programmatic" /\ k.steps \subseteq {"optional fail"}
    /\ word \in {"content", "listing"} => k.answer = word /\ sees = k.shown
    /\ k.answer \in T!Errors => word = "failed"
    /\ client = "mcp" => /\ k.answer = "connected" => lists = TRUE
                         /\ k.answer \in {"merged", "closed", "abandoned"} => lists = FALSE
                         /\ k.answer \notin {"connected", "merged", "closed", "abandoned"} =>
                              lists = bridged

Says(k, heard) == Tells(k, heard.word, heard.sees, heard.lists)

\* What is heard, seen and listed.
LEMMA HearsFacts ==
    ASSUME NEW k
    PROVE  /\ \A w : Says(k, T!Hears(w)) <=> Tells(k, w, {}, bridged)
           /\ \A w, ps : Says(k, T!Sees(w, ps)) <=> Tells(k, w, ps, bridged)
           /\ \A w : Says(k, T!Forgets(w)) <=> Tells(k, w, {}, FALSE)
           /\ Says(k, T!dk_connect(k)) <=> Tells(k, "connected", {}, TRUE)
<1>1. /\ \A w : T!Hears(w).word = w /\ T!Hears(w).sees = {} /\ T!Hears(w).lists = bridged
      /\ \A w, ps : /\ T!Sees(w, ps).word = w /\ T!Sees(w, ps).sees = ps
                    /\ T!Sees(w, ps).lists = bridged
      /\ \A w : T!Forgets(w).word = w /\ T!Forgets(w).sees = {} /\ T!Forgets(w).lists = FALSE
      /\ T!dk_connect(k).word = "connected" /\ T!dk_connect(k).sees = {}
      /\ T!dk_connect(k).lists = TRUE
  BY DEF T!Hears, T!Sees, T!Forgets, T!dk_connect
<1> QED BY <1>1 DEF Says

\* Each client turns an answer into words that say it.
LEMMA McpSays ==
    ASSUME client = "mcp", NEW k, Replied(k) PROVE Says(k, T!Mcp(k))
<1>1. CASE k.answer \in T!Errors /\ k.tool = "none"
  <2>1. T!Mcp(k) = T!Hears("failed")
    BY <1>1 DEF T!Mcp
  <2>2. Tells(k, "failed", {}, bridged)
    BY <1>1 DEF Tells, T!Errors
  <2> QED BY <2>1, <2>2, HearsFacts
<1>2. CASE k.tool \in T!Tools[client] /\ Fits(client, k.tool, k.answer) /\ k.answer \notin T!Errors
  <2>1. k.tool \in ToolNames \ {"finalize"} /\ client \in DOMAIN T!Tools
    BY <1>2, ToolFacts DEF T!Tools
  <2>2. CASE k.tool \in {"connect", "merge", "close", "abandon"}
    <3>1. T!Mcp(k) \in {T!dk_connect(k), T!Forgets("merged"), T!Hears("conflicts"),
                        T!Forgets("closed"), T!Forgets("abandoned")}
      BY <1>2, <2>2 DEF T!Mcp, T!dk_merge, T!dk_close, T!dk_abandon
    <3>2. /\ k.tool = "connect" => T!Mcp(k) = T!dk_connect(k) /\ k.answer = "connected"
          /\ k.tool = "merge" => \/ T!Mcp(k) = T!Forgets("merged") /\ k.answer = "merged"
                                 \/ T!Mcp(k) = T!Hears("conflicts") /\ k.answer = "conflicts"
          /\ k.tool = "close" => T!Mcp(k) = T!Forgets("closed") /\ k.answer = "closed"
          /\ k.tool = "abandon" => T!Mcp(k) = T!Forgets("abandoned") /\ k.answer = "abandoned"
      BY <1>2, <2>2 DEF T!Mcp, T!dk_merge, T!dk_close, T!dk_abandon, Fits
    <3>3. /\ k.answer = "connected" => Tells(k, "connected", {}, TRUE)
          /\ k.answer = "conflicts" => Tells(k, "conflicts", {}, bridged)
          /\ \A w \in {"merged", "closed", "abandoned"} : k.answer = w => Tells(k, w, {}, FALSE)
      BY DEF Tells, T!Errors
    <3> QED BY <2>2, <3>2, <3>3, HearsFacts
  <2>3. CASE k.tool \in {"context", "pre-submit", "review", "push", "write", "submit"}
    <3>1. /\ k.tool \in {"context", "pre-submit", "review", "push"} =>
               T!Mcp(k) = T!Hears("report") /\ k.answer = "report"
          /\ k.tool = "submit" => T!Mcp(k) = T!Hears(k.answer) /\ k.answer \in {"accepted", "rejected"}
          /\ k.tool = "write" => \/ T!Mcp(k) = T!Hears("wrote") /\ k.answer = "hash"
                                 \/ T!Mcp(k) = T!Hears("stale") /\ k.answer = "stale"
                                 \/ T!Mcp(k) = T!Hears("locked") /\ k.answer = "locked"
      BY <1>2, <2>3 DEF T!Mcp, T!dk_context, T!dk_pre_submit_check, T!dk_review, T!dk_push,
         T!dk_submit, T!dk_file_write, Fits
    <3>2. /\ \A w \in {"report", "accepted", "rejected", "stale", "locked"} :
               k.answer = w => Tells(k, w, {}, bridged)
          /\ k.answer = "hash" => Tells(k, "wrote", {}, bridged)
      BY DEF Tells, T!Errors
    <3> QED BY <2>3, <3>1, <3>2, HearsFacts
  <2>4. CASE k.tool \in {"read", "list", "status", "approve", "resolve"}
    <3>1. /\ k.tool = "read" => T!Mcp(k) = T!Sees("content", k.shown) /\ k.answer = "content"
          /\ k.tool \in {"list", "status"} =>
               T!Mcp(k) = T!Sees("listing", k.shown) /\ k.answer = "listing"
          /\ k.tool = "approve" => T!Mcp(k) = T!Hears("approved") /\ k.answer = "approved"
          /\ k.tool = "resolve" => T!Mcp(k) = T!Hears("resolved") /\ k.answer = "resolved"
      BY <1>2, <2>4 DEF T!Mcp, T!dk_file_read, T!dk_file_list, T!dk_status, T!dk_approve,
         T!dk_resolve, Fits
    <3>2. /\ \A w \in {"content", "listing"} : k.answer = w => Tells(k, w, k.shown, bridged)
          /\ \A w \in {"approved", "resolved"} : k.answer = w => Tells(k, w, {}, bridged)
      BY DEF Tells, T!Errors
    <3> QED BY <2>4, <3>1, <3>2, HearsFacts
  <2>5. CASE k.tool = "verify"
    <3>1. k.answer = "ran" /\ T!Mcp(k) = T!dk_verify(k)
      BY <1>2, <2>5 DEF T!Mcp, Fits
    <3>2. \/ T!Mcp(k) \in {T!Hears("no results"), T!Hears("failed steps")}
          \/ /\ k.steps # {} /\ k.steps \cap {"fail", "optional fail"} = {}
             /\ T!Mcp(k) = T!Hears("passed")
      BY <3>1 DEF T!dk_verify
    <3>3. /\ \A w \in {"no results", "failed steps"} : Tells(k, w, {}, bridged)
          /\ k.steps # {} /\ k.steps \cap {"fail", "optional fail"} = {} =>
               Tells(k, "passed", {}, bridged)
      BY <3>1 DEF Tells, T!Errors
    <3> QED BY <3>2, <3>3, HearsFacts
  <2> QED BY <2>1, <2>2, <2>3, <2>4, <2>5 DEF ToolNames, T!Common
<1> QED BY <1>1, <1>2 DEF Replied, RepliedTo

\* Answers that are handed over as they are, and the words that promise nothing.
LEMMA TellsFacts ==
    ASSUME client # "mcp", NEW k, k.answer \in Answers \ T!Errors
    PROVE  /\ \A ps, w : w \in {"steps", "no hash", "failed steps"} => Tells(k, w, ps, bridged)
           /\ k.answer = "hash" \/ client = "cli" => Tells(k, "wrote", {}, bridged)
           /\ Tells(k, k.answer, k.shown, bridged)
           /\ k.answer \notin {"content", "listing"} => Tells(k, k.answer, {}, bridged)
  BY DEF Tells, Answers, T!Errors

\* The answer of a call that did not fail is one of the engine's.
LEMMA RepliedFacts ==
    ASSUME client \in DOMAIN T!Tools, NEW k, Replied(k), k.answer \notin T!Errors
    PROVE  /\ k.tool \in T!Tools[client] /\ k.tool \in ToolNames
           /\ k.answer \in Answers /\ Fits(client, k.tool, k.answer)
<1>1. k.tool \in T!Tools[client] /\ Fits(client, k.tool, k.answer)
  BY DEF Replied, RepliedTo
<1>2. k.tool \in ToolNames
  BY <1>1, ToolFacts
<1>3. k.answer \in Answers
  <2>1. CASE k.tool \in {"connect", "context", "pre-submit", "review", "push", "read", "list", "status"}
    BY <1>1, <2>1 DEF Fits, Answers
  <2>2. CASE k.tool \in {"write", "submit", "verify", "merge"}
    BY <1>1, <2>2 DEF Fits, Answers
  <2>3. CASE k.tool \in {"approve", "resolve", "close", "abandon", "finalize"}
    BY <1>1, <2>3 DEF Fits, Answers
  <2> QED BY <1>2, <2>1, <2>2, <2>3 DEF ToolNames, T!Common
<1> QED BY <1>1, <1>2, <1>3

\* A failure is heard as one.
LEMMA FailedSays ==
    ASSUME client # "mcp", NEW k, k.answer \in T!Errors
    PROVE  Says(k, T!Hears("failed"))
<1>1. Tells(k, "failed", {}, bridged)
  BY DEF Tells, T!Errors
<1> QED BY <1>1, HearsFacts

\* The command line: "Written." promises nothing, a run's steps no verdict.
LEMMA CliSays ==
    ASSUME client = "cli", NEW k, Replied(k) PROVE Says(k, T!Cli(k))
<1>0. client # "mcp" /\ client \in DOMAIN T!Tools
  BY DEF T!Tools
<1>1. CASE k.answer \in T!Errors
  <2>1. T!Cli(k) = T!Hears("failed")
    BY <1>1 DEF T!Cli, Replied, RepliedTo
  <2> QED BY <1>0, <1>1, <2>1, FailedSays
<1>2. CASE k.answer \notin T!Errors
  <2>1. /\ k.answer \in Answers \ T!Errors /\ Fits(client, k.tool, k.answer)
        /\ k.tool \in T!Common \cup {"pre-submit", "review", "approve"}
    BY <1>0, <1>2, RepliedFacts, ToolFacts
  <2>2. CASE k.tool \in {"connect", "context", "pre-submit", "review", "submit", "merge", "approve"}
    <3>1. T!Cli(k) = T!Hears(k.answer) /\ k.answer \notin {"content", "listing"}
      BY <1>2, <2>1, <2>2 DEF T!Cli, T!context_cmd, T!pre_submit_cmd, T!review_cmd, T!submit_cmd,
         T!merge_cmd, T!approve_cmd, Fits
    <3> QED BY <1>0, <2>1, <3>1, TellsFacts, HearsFacts
  <2>3. CASE k.tool \in {"read", "list", "status"}
    <3>1. T!Cli(k) = T!Sees(k.answer, k.shown)
      BY <1>2, <2>1, <2>3 DEF T!Cli, T!file_read_cmd, T!file_list_cmd, T!status_cmd, Fits
    <3> QED BY <1>0, <2>1, <3>1, TellsFacts, HearsFacts
  <2>4. CASE k.tool \in {"write", "verify"}
    <3>1. T!Cli(k) \in {T!Hears("wrote"), T!Hears("steps")}
      BY <1>2, <2>1, <2>4 DEF T!Cli, T!file_write_cmd, T!verify_cmd
    <3> QED BY <1>0, <2>1, <3>1, TellsFacts, HearsFacts
  <2> QED BY <2>1, <2>2, <2>3, <2>4 DEF T!Common
<1> QED BY <1>1, <1>2

\* The SDK's Session, which its programmatic tool calls go through, too.
LEMMA SdkFacts ==
    ASSUME client \in {"sdk", "programmatic"}, NEW k, Replied(k) PROVE Says(k, T!Sdk(k))
<1>0. client # "mcp" /\ client \in DOMAIN T!Tools
  BY DEF T!Tools
<1>1. CASE k.answer \in T!Errors
  <2>1. T!Sdk(k) = T!Hears("failed")
    BY <1>1 DEF T!Sdk
  <2> QED BY <1>0, <1>1, <2>1, FailedSays
<1>2. CASE k.answer \notin T!Errors
  <2>1. /\ k.answer \in Answers \ T!Errors /\ Fits(client, k.tool, k.answer)
        /\ k.tool \in T!Common \cup {"pre-submit", "review", "push", "approve", "resolve", "close"}
    BY <1>0, <1>2, RepliedFacts, ToolFacts
  <2>2. CASE k.tool \in {"connect", "context", "submit", "push", "approve", "resolve", "close",
                         "review", "merge", "pre-submit"}
    <3>1. T!Sdk(k) = T!Hears(k.answer) /\ k.answer \notin {"content", "listing"}
      BY <1>2, <2>1, <2>2 DEF T!Sdk, T!SessionDecisions, T!SessionFiles, Fits
    <3> QED BY <1>0, <2>1, <3>1, TellsFacts, HearsFacts
  <2>3. CASE k.tool \in {"read", "list", "status"}
    <3>1. T!Sdk(k) = T!SessionFiles(k)
      BY <1>2, <2>3 DEF T!Sdk
    <3>2. T!SessionFiles(k) = T!Sees(k.answer, k.shown)
      BY <2>3 DEF T!SessionFiles
    <3>3. Tells(k, k.answer, k.shown, bridged)
      BY <1>0, <2>1, TellsFacts
    <3>4. T!Sdk(k) = T!Sees(k.answer, k.shown)
      BY <3>1, <3>2
    <3> QED BY <3>3, <3>4, HearsFacts
  <2>4. CASE k.tool = "verify"
    <3>1. T!Sdk(k) = T!Hears("steps")
      BY <1>2, <2>1, <2>4 DEF T!Sdk, T!SessionFiles
    <3> QED BY <1>0, <2>1, <3>1, TellsFacts, HearsFacts
  <2>5. CASE k.tool = "write"
    <3>1. /\ T!Sdk(k) = T!Hears(IF k.answer = "hash" THEN "wrote" ELSE k.answer)
          /\ k.answer \notin {"content", "listing"}
      BY <1>2, <2>1, <2>5 DEF T!Sdk, T!SessionFiles, Fits
    <3> QED BY <1>0, <2>1, <3>1, TellsFacts, HearsFacts
  <2> QED BY <2>1, <2>2, <2>3, <2>4, <2>5 DEF T!Common
<1> QED BY <1>1, <1>2

\* The programmatic tool calls, which call a run passed by its steps.
LEMMA ProgrammaticSays ==
    ASSUME client = "programmatic", NEW k, Replied(k) PROVE Says(k, T!Programmatic(k))
<1>0. client # "mcp" /\ client \in DOMAIN T!Tools
  BY DEF T!Tools
<1>1. CASE k.answer \in T!Errors
  <2>1. T!Programmatic(k) = T!Hears("failed")
    BY <1>1 DEF T!Programmatic
  <2> QED BY <1>0, <1>1, <2>1, FailedSays
<1>2. CASE k.answer \notin T!Errors /\ k.tool = "verify"
  <2>1. k.answer = "ran"
    BY <1>0, <1>2, RepliedFacts DEF Fits
  <2>2. \/ T!Programmatic(k) = T!Hears("failed steps")
        \/ T!Programmatic(k) = T!Hears("passed") /\ k.steps \subseteq {"optional fail"}
    BY <1>2 DEF T!Programmatic, T!DispatchedVerify
  <2>3. /\ Tells(k, "failed steps", {}, bridged)
        /\ k.steps \subseteq {"optional fail"} => Tells(k, "passed", {}, bridged)
    BY <2>1 DEF Tells, T!Errors
  <2> QED BY <2>2, <2>3, HearsFacts
<1>3. CASE k.answer \notin T!Errors /\ k.tool # "verify"
  <2>1. T!Programmatic(k) \in {T!Hears("no hash"), T!Sdk(k)}
    BY <1>3 DEF T!Programmatic, T!DispatchedFiles
  <2>2. Says(k, T!Hears("no hash"))
    BY <1>0, <1>3, RepliedFacts, TellsFacts, HearsFacts
  <2> QED BY <2>1, <2>2, SdkFacts
<1> QED BY <1>1, <1>2, <1>3

\* The Python SDK.
LEMMA PythonSays ==
    ASSUME client = "python", NEW k, Replied(k) PROVE Says(k, T!Python(k))
<1>0. client # "mcp" /\ client \in DOMAIN T!Tools
  BY DEF T!Tools
<1>1. CASE k.answer \in T!Errors
  BY <1>0, <1>1, FailedSays DEF T!Python
<1>2. CASE k.answer \notin T!Errors
  <2>1. \/ T!Python(k) = T!Hears("wrote") /\ k.answer = "hash"
        \/ T!Python(k) = T!Hears("no hash")
        \/ T!Python(k) = T!Sees(k.answer, k.shown)
    BY <1>2 DEF T!Python, T!python_session
  <2> QED BY <1>0, <1>2, <2>1, RepliedFacts, TellsFacts, HearsFacts
<1> QED BY <1>1, <1>2

\* A caller of the tool operations.
LEMMA OpsSays ==
    ASSUME client = "ops", NEW k, Replied(k) PROVE Says(k, T!Ops(k))
<1>0. client # "mcp" /\ client \in DOMAIN T!Tools
  BY DEF T!Tools
<1>1. CASE k.answer \in T!Errors
  <2>1. T!Ops(k) = T!Hears("failed")
    BY <1>1 DEF T!Ops, T!Errors
  <2> QED BY <1>0, <1>1, <2>1, FailedSays
<1>2. CASE k.answer \notin T!Errors
  <2>1. \/ T!Ops(k) = T!Hears("wrote") /\ k.answer = "hash"
        \/ T!Ops(k) = T!Sees(k.answer, k.shown)
    BY <1>2 DEF T!Ops
  <2> QED BY <1>0, <1>2, <2>1, RepliedFacts, TellsFacts, HearsFacts
<1> QED BY <1>1, <1>2

\* Whatever client it calls through, what an agent hears says no more than
\* the engine's answer.
LEMMA HeardSays ==
    ASSUME client \in DOMAIN T!Tools, NEW k, Replied(k) PROVE Says(k, T!Heard(k))
<1>1. client \in {"mcp", "cli", "sdk", "programmatic", "python", "ops"}
  BY DEF T!Tools
<1>2. CASE client = "mcp"
  BY <1>2, McpSays DEF T!Heard
<1>3. CASE client = "cli"
  BY <1>3, CliSays DEF T!Heard
<1>4. CASE client = "sdk"
  BY <1>4, SdkFacts DEF T!Heard
<1>5. CASE client = "programmatic"
  BY <1>5, ProgrammaticSays DEF T!Heard
<1>6. CASE client = "python"
  BY <1>6, PythonSays DEF T!Heard
<1>7. CASE client = "ops"
  BY <1>7, OpsSays DEF T!Heard
<1> QED BY <1>1, <1>2, <1>3, <1>4, <1>5, <1>6, <1>7

\* What the answer to a call tells of the session and of main, still.
Told(whose, k, e, l) ==
    /\ k.answer = "connected" => e.life # "none"
    /\ k.answer \in {"hash", "resolved"} => T!Named(k) \subseteq e.overlay
    /\ k.answer = "hash" /\ whose = "ops" => T!Named(k) \subseteq e.rows
    /\ k.answer = "accepted" => k.after = "submitted" /\ k.knew \subseteq e.rows
    /\ k.answer = "approved" => k.after = "approved"
    /\ k.answer = "merged" => /\ k.after = "merged" /\ "commit" \in k.did
                              /\ k.knew \subseteq l /\ l # {}
    /\ k.answer = "closed" => e.life = "closed"
    /\ k.answer = "abandoned" => e.life \in Over
    /\ k.answer = "ran" => k.after = T!Verdict(k.steps) \/ (k.after = "rejected" /\ k.steps = {})
    /\ k.answer = "content" => k.knew \cap T!Named(k) \subseteq k.shown
    /\ k.answer = "listing" => k.knew \subseteq k.shown

\* What a call did, by its answer: nothing if it was refused; and it put work
\* on main or ended the session only if it says so or failed.
Did(k) ==
    /\ k.answer \in {"refused", "locked", "stale", "conflicts"} => k.did = {}
    /\ k.answer = "rejected" => k.did \subseteq {"overlay", "rows"}
    /\ k.did \cap T!Vital # {} => k.answer \in {"error", "merged", "closed", "abandoned"}

CallSound(whose, k, e, l) ==
    /\ k.at = "idle" => k = T!Idle
    /\ k.at = "sent" => k.tool \in T!Tools[whose] /\ k.answer = "none" /\ k.did = {}
    /\ k.at = "answered" => RepliedTo(whose, k)
    /\ Told(whose, k, e, l) /\ Did(k)
    /\ k.knew \subseteq e.overlay /\ (whose = "ops" => k.knew \subseteq e.rows)

\* What an agent knows to be written is.
Knowing == known \subseteq ses.overlay /\ (client = "ops" => known \subseteq ses.rows)

\* An agent connects once, and before it has nothing is done for it.
Joining ==
    /\ joined => ses.life # "none"
    /\ bridged => joined /\ client = "mcp"
    /\ ~joined => /\ landed = {} /\ ses.life \notin {"closed", "abandoned"}
                  /\ \A c \in Call : tool_call[c].tool \in {"connect", "none"}
    /\ \A c \in Call : tool_call[c].tool = "connect" =>
         /\ ~joined
         /\ tool_call[c].at = "sent" => ses.life = "none"
         /\ \A d \in Call : tool_call[d].tool = "connect" => d = c

CallsSound == \A c \in Call : CallSound(client, tool_call[c], ses, landed)

ClientInv ==
    /\ ClientTypes /\ CallsSound /\ Knowing /\ Joining
    /\ T!ForgottenIsOver /\ T!RememberedIsLive

\* What a call changed, by its answer.
LEMMA DifferenceFacts ==
    ASSUME ClientTypes, NEW tool, NEW ps, NEW o, Outcome(tool, ps, o)
    PROVE  /\ T!Difference(o) \subseteq T!Effects
           /\ o.answer \in {"refused", "locked", "stale", "conflicts"} => T!Difference(o) = {}
           /\ o.answer = "rejected" => T!Difference(o) \subseteq {"overlay", "rows"}
           /\ "commit" \in T!Difference(o) <=> o.lands # {}
           /\ "end" \in T!Difference(o) <=> o.ses.life # ses.life /\ o.ses.life # "live"
           /\ T!Difference(o) \cap T!Vital # {} =>
                o.answer \in {"error", "merged", "closed", "abandoned"}
<1>1. /\ T!Difference(o) \subseteq T!Effects
      /\ "commit" \in T!Difference(o) <=> o.lands # {}
      /\ "end" \in T!Difference(o) <=> o.ses.life # ses.life /\ o.ses.life # "live"
      /\ "status" \in T!Difference(o) => o.ses.status # ses.status
      /\ o.ses = ses /\ o.lands = {} => T!Difference(o) = {}
  BY DEF T!Difference, T!Effects
<1>2. /\ o.answer \in {"refused", "locked", "stale", "conflicts"} => o.ses = ses /\ o.lands = {}
      /\ o.answer = "rejected" => o.ses.status = ses.status
      /\ o.lands # {} => o.answer \in {"error", "merged"}
      /\ \/ o.ses.life = ses.life \/ o.ses.life = "live"
         \/ o.answer = "closed" \/ o.answer = "abandoned"
  BY DEF Outcome, Does
<1>3. T!Difference(o) \cap T!Vital # {} => "commit" \in T!Difference(o) \/ "end" \in T!Difference(o)
  BY DEF T!Vital
<1>4. o.answer = "rejected" => T!Difference(o) \subseteq {"overlay", "rows"}
  BY <1>1, <1>2 DEF T!Effects
<1> QED BY <1>1, <1>2, <1>3, <1>4

\* What is kept, as r, of a call that returned.
Keeps(k, o, r) ==
    /\ r.at = "answered" /\ r.answer = o.answer
    /\ o.answer \in T!Errors => r.tool = "none" /\ r.knew = {} /\ r.did = T!Difference(o)
    /\ o.answer \notin T!Errors =>
         /\ r.tool = k.tool /\ r.knew = k.knew /\ r.arg = k.arg
         /\ r.shown = o.shown /\ r.steps = o.steps
         /\ o.answer \in {"accepted", "approved", "merged", "ran"} => r.after = o.ses.status
         /\ o.answer \in T!Refusals => r.did = T!Difference(o)
         /\ o.answer \notin T!Refusals => r.did = T!Difference(o) \cap T!Vital

\* Of a call that failed only the answer and what it did are kept.
LEMMA ReturnedFacts ==
    ASSUME ClientTypes, NEW k \in Calling, NEW ps, NEW o, Outcome(k.tool, ps, o)
    PROVE  T!Returned(k, o) \in Calling /\ Keeps(k, o, T!Returned(k, o))
<1>1. /\ o.shown \subseteq Path /\ o.steps \subseteq T!Step /\ o.answer \in Answers
      /\ o.ses.status \in T!Status /\ T!Difference(o) \subseteq T!Effects
  <2>1. /\ o.shown \subseteq Path /\ o.steps \subseteq T!Step /\ o.ses \in EngineSession
        /\ o.answer \in T!Errors \/ o.answer \in Answers
    BY DEF Outcome, Does
  <2> QED BY <2>1, DifferenceFacts DEF EngineSession, T!Errors, Answers
<1>2. CASE o.answer \in T!Errors
  <2> DEFINE r == [T!Idle EXCEPT !.at = "answered", !.answer = o.answer, !.did = T!Difference(o)]
  <2>1. T!Returned(k, o) = r
    BY <1>2 DEF T!Returned
  <2>2. /\ r.at = "answered" /\ r.answer = o.answer /\ r.tool = "none" /\ r.knew = {}
        /\ r.did = T!Difference(o)
    BY DEF T!Idle
  <2>3. r \in Calling
    BY <1>1 DEF T!Idle, Calling, T!Nothing, T!Change, T!Status
  <2> HIDE DEF r
  <2> QED BY <1>2, <2>1, <2>2, <2>3 DEF Keeps
<1>3. CASE o.answer \notin T!Errors
  <2> DEFINE did == IF o.answer \in T!Refusals THEN T!Difference(o) ELSE T!Difference(o) \cap T!Vital
             after == IF o.answer \in {"accepted", "approved", "merged", "ran"}
                      THEN o.ses.status ELSE "none"
             r == [k EXCEPT !.at = "answered", !.answer = o.answer, !.shown = o.shown,
                            !.steps = o.steps, !.did = did, !.after = after]
  <2>1. T!Returned(k, o) = r
    BY <1>3 DEF T!Returned
  <2>2. did \subseteq T!Effects /\ after \in T!Status
    BY <1>1 DEF T!Status
  <2> HIDE DEF did, after
  <2>3. /\ r.at = "answered" /\ r.answer = o.answer /\ r.tool = k.tool /\ r.knew = k.knew
        /\ r.arg = k.arg /\ r.shown = o.shown /\ r.steps = o.steps /\ r.did = did /\ r.after = after
    BY DEF Calling
  <2>4. r \in Calling
    BY <1>1, <2>2 DEF Calling
  <2> HIDE DEF r
  <2> QED BY <1>3, <2>1, <2>3, <2>4 DEF did, after, Keeps
<1> QED BY <1>2, <1>3

\* A session only grows, and stays over once it is.
Grows(e, f) ==
    /\ e.overlay \subseteq f.overlay /\ e.rows \subseteq f.rows
    /\ e.life # "none" => f.life # "none"
    /\ e.life = "closed" => f.life = "closed"
    /\ e.life \in Over => f.life \in Over

\* So what a call's answer tells stays true.
LEMMA StaysSound ==
    ASSUME NEW whose, NEW k, NEW e, NEW l, NEW f, NEW m, CallSound(whose, k, e, l),
           Grows(e, f), l \subseteq m
    PROVE  CallSound(whose, k, f, m)
<1>1. Told(whose, k, f, m)
  BY DEF CallSound, Told, Grows
<1> QED BY <1>1 DEF CallSound, Grows

\* A call that returns is sound in the session it leaves.
LEMMA ReturnSound ==
    ASSUME ClientTypes, NEW k \in Calling, k.tool \in T!Tools[client],
           CallSound(client, k, ses, landed), NEW o, Outcome(k.tool, T!Named(k), o)
    PROVE  CallSound(client, T!Returned(k, o), o.ses, landed \cup o.lands)
<1> DEFINE r == T!Returned(k, o)
           D == T!Difference(o)
<1> HIDE DEF r, D
<1>1. /\ r.at = "answered" /\ r.answer = o.answer
      /\ o.answer \in T!Errors => r.tool = "none" /\ r.knew = {} /\ r.did = D
      /\ o.answer \notin T!Errors =>
           /\ r.tool = k.tool /\ r.knew = k.knew /\ r.arg = k.arg
           /\ r.shown = o.shown /\ r.steps = o.steps
           /\ o.answer \in {"accepted", "approved", "merged", "ran"} => r.after = o.ses.status
           /\ o.answer \in T!Refusals => r.did = D
           /\ o.answer \notin T!Refusals => r.did = D \cap T!Vital
  <2>1. Keeps(k, o, r)
    BY ReturnedFacts DEF r
  <2> QED BY <2>1 DEF Keeps, D
<1>2. /\ o.answer \in {"refused", "locked", "stale", "conflicts"} => D = {}
      /\ o.answer = "rejected" => D \subseteq {"overlay", "rows"}
      /\ "commit" \in D <=> o.lands # {}
      /\ D \cap T!Vital # {} => o.answer \in {"error", "merged", "closed", "abandoned"}
  BY DifferenceFacts DEF D
<1>3. T!Named(r) = T!Named(k) \/ o.answer \in T!Errors
  BY <1>1 DEF T!Named
<1>4. k.knew \subseteq ses.overlay /\ (client = "ops" => k.knew \subseteq ses.rows)
  BY DEF CallSound
<1>5. Does(k.tool, T!Named(k), o.ses, o.lands, o.answer, o.shown, o.steps)
  BY DEF Outcome
<1>6. Did(r)
  BY <1>1, <1>2 DEF Did, T!Refusals, T!Errors
<1>7. r.knew \subseteq o.ses.overlay /\ (client = "ops" => r.knew \subseteq o.ses.rows)
  <2>1. ses.overlay \subseteq o.ses.overlay /\ ses.rows \subseteq o.ses.rows
    BY <1>5 DEF Does
  <2> QED BY <1>1, <1>4, <2>1
<1>8. Replied(r)
  <2>1. o.answer \in T!Errors \/ Fits(client, k.tool, o.answer)
    BY <1>5 DEF Does
  <2> QED BY <1>1, <2>1 DEF Replied, RepliedTo
<1>9. Told(client, r, o.ses, landed \cup o.lands)
  <2>1. CASE o.answer \in T!Errors
    BY <1>1, <2>1 DEF Told, T!Errors
  <2>2. CASE o.answer \notin T!Errors
    <3>1. /\ o.answer = "connected" => o.ses.life # "none"
          /\ o.answer \in {"hash", "resolved"} => T!Named(r) \subseteq o.ses.overlay
          /\ o.answer = "hash" /\ client = "ops" => T!Named(r) \subseteq o.ses.rows
          /\ o.answer = "closed" => o.ses.life = "closed"
          /\ o.answer = "abandoned" => o.ses.life \in Over
      BY <1>3, <1>5, <2>2 DEF Does
    <3>2. /\ o.answer = "accepted" => r.after = "submitted"
          /\ o.answer = "approved" => r.after = "approved"
          /\ o.answer = "merged" => r.after = "merged" /\ o.lands # {} /\ o.lands = ses.overlay
          /\ o.answer = "ran" =>
               r.after = T!Verdict(r.steps) \/ (r.after = "rejected" /\ r.steps = {})
      BY <1>1, <1>5, <2>2 DEF Does
    <3>3. o.answer = "accepted" => r.knew \subseteq o.ses.rows
      <4>1. /\ ses.rows \subseteq o.ses.rows
            /\ o.answer = "accepted" /\ client # "ops" => ses.overlay \subseteq o.ses.rows
        BY <1>5 DEF Does
      <4> QED BY <1>1, <1>4, <2>2, <4>1
    <3>4. o.answer = "merged" => "commit" \in r.did /\ r.knew \subseteq o.lands
      BY <1>1, <1>2, <1>4, <2>2, <3>2 DEF T!Vital, T!Refusals
    <3>5. /\ o.answer = "content" => r.knew \cap T!Named(r) \subseteq r.shown
          /\ o.answer = "listing" => r.knew \subseteq r.shown
      <4>1. /\ o.answer = "content" => T!Named(k) \cap ses.overlay \subseteq o.shown
            /\ o.answer = "listing" => ses.overlay \subseteq o.shown
        BY <1>5 DEF Does
      <4> QED BY <1>1, <1>3, <1>4, <2>2, <4>1
    <3> QED BY <1>1, <3>1, <3>2, <3>3, <3>4, <3>5 DEF Told
  <2> QED BY <2>1, <2>2
<1> QED BY <1>1, <1>6, <1>7, <1>8, <1>9 DEF CallSound, Replied, r

\* Which answers belong to which tools, and what tools the operations have.
LEMMA FitsFacts ==
    ASSUME client \in DOMAIN T!Tools, NEW k, Replied(k)
    PROVE  /\ k.answer = "connected" => k.tool = "connect"
           /\ client = "ops" => k.answer # "resolved"
<1>1. CASE k.answer \in T!Errors
  BY <1>1 DEF T!Errors
<1>2. CASE k.answer \notin T!Errors
  <2>1. /\ k.tool \in ToolNames /\ Fits(client, k.tool, k.answer)
        /\ client = "ops" => k.tool \in T!Common \cup {"finalize"}
    BY <1>2, RepliedFacts, ToolFacts
  <2>2. k.answer = "connected" => k.tool = "connect"
    BY <2>1 DEF Fits, ToolNames, T!Common
  <2>3. k.answer = "resolved" => k.tool = "resolve"
    BY <2>1 DEF Fits, ToolNames, T!Common
  <2> QED BY <2>1, <2>2, <2>3 DEF T!Common
<1> QED BY <1>1, <1>2

\* At the start nothing has been said.
LEMMA ClientsBegin == T!Init => ClientInv
<1> SUFFICES ASSUME T!Init PROVE ClientInv
  OBVIOUS
<1>1. T!Idle \in Calling
  BY DEF T!Idle, Calling, T!Nothing, T!Change, T!Status
<1>2. T!Idle.at = "idle" /\ T!Idle.tool = "none" /\ T!Idle.answer = "none" /\ T!Idle.did = {}
      /\ T!Idle.knew = {}
  BY DEF T!Idle
<1>3. /\ ses \in EngineSession /\ ses.life = "none" /\ ses.overlay = {} /\ ses.rows = {}
  BY DEF T!Init, EngineSession, T!Life, T!Status
<1>4. ClientTypes
  BY <1>1, <1>2, <1>3 DEF T!Init, ClientTypes
<1>5. CallsSound
  BY <1>2 DEF T!Init, CallsSound, CallSound, Told, Did
<1>6. Knowing /\ Joining
  BY <1>2, <1>3 DEF T!Init, Knowing, Joining
<1>7. T!ForgottenIsOver /\ T!RememberedIsLive
  BY DEF T!Init, T!ForgottenIsOver, T!RememberedIsLive
<1> QED BY <1>4, <1>5, <1>6, <1>7 DEF ClientInv

\* A step that replaces one call, and lets the session grow.
LEMMA CallReplaced ==
    ASSUME ClientInv, client' = client, NEW c \in Call, NEW n \in Calling,
           n.tool \in T!Tools[client] \cup {"none"}, tool_call' = [tool_call EXCEPT ![c] = n],
           CallSound(client, n, ses', landed'), Grows(ses, ses'), landed \subseteq landed'
    PROVE  /\ tool_call' \in [Call -> Calling]
           /\ \A d \in Call : tool_call'[d].tool \in T!Tools[client] \cup {"none"}
           /\ \A d \in Call : tool_call'[d] = IF d = c THEN n ELSE tool_call[d]
           /\ CallsSound'
<1>1. /\ tool_call \in [Call -> Calling] /\ CallsSound
      /\ \A d \in Call : tool_call[d].tool \in T!Tools[client] \cup {"none"}
  BY DEF ClientInv, ClientTypes
<1>2. \A d \in Call : tool_call'[d] = IF d = c THEN n ELSE tool_call[d]
  BY <1>1
<1>3. \A d \in Call : CallSound(client, tool_call[d], ses', landed')
  BY <1>1, StaysSound DEF CallsSound
<1> QED BY <1>1, <1>2, <1>3 DEF CallsSound

\* A session that does not change grows.
LEMMA NothingGrows == \A e : Grows(e, e)
  BY DEF Grows

\* Tools are not "none", and arguments name paths with changes.
LEMMA ArgumentFacts ==
    ASSUME NEW tool
    PROVE  T!Arguments(tool) \subseteq [Path -> T!Change]
<1>1. T!Nothing \in [Path -> T!Change] /\ T!OnePath \subseteq [Path -> T!Change]
  BY DEF T!Nothing, T!OnePath, T!Change
<1>2. T!Additions \subseteq [Path -> T!Change]
  BY DEF T!Additions, T!Change
<1>3. T!Arguments(tool) \in {T!OnePath, T!OnePath \cup {T!Nothing}, T!Additions, T!Changes, {T!Nothing}}
  BY DEF T!Arguments
<1> QED BY <1>1, <1>2, <1>3 DEF T!Changes

\* A call being made.
LEMMA AskStep ==
    ASSUME ClientInv, NEW c \in Call, T!Ask(c) PROVE ClientInv'
<1>1. tool_call[c].at = "idle" /\ UNCHANGED <<client, ses, landed, joined, bridged, known, unheard>>
  BY DEF T!Ask
<1>2. PICK tool, arg :
        /\ tool \in T!Tools[client] /\ arg \in T!Arguments(tool) /\ T!MayCall(tool)
        /\ tool_call' = [tool_call EXCEPT ![c] = [T!Idle EXCEPT !.at = "sent", !.tool = tool,
                                                                !.arg = arg, !.knew = known]]
  BY DEF T!Ask
<1> DEFINE m == [T!Idle EXCEPT !.at = "sent", !.tool = tool, !.arg = arg, !.knew = known]
<1>3. client \in DOMAIN T!Tools /\ known \subseteq Path /\ Knowing /\ Joining
  BY DEF ClientInv, ClientTypes
<1>4. /\ m.at = "sent" /\ m.tool = tool /\ m.knew = known /\ m.answer = "none" /\ m.did = {}
      /\ tool \in ToolNames
  BY <1>2, <1>3, ToolFacts DEF T!Idle
<1>5. m \in Calling
  BY <1>2, <1>3, <1>4, ArgumentFacts DEF T!Idle, Calling, T!Nothing, T!Change, T!Status
<1> HIDE DEF m
<1>6. CallSound(client, m, ses', landed')
  BY <1>1, <1>2, <1>3, <1>4 DEF CallSound, Told, Did, Knowing
<1>7. /\ tool_call' \in [Call -> Calling]
      /\ \A d \in Call : tool_call'[d].tool \in T!Tools[client] \cup {"none"}
      /\ \A d \in Call : tool_call'[d] = IF d = c THEN m ELSE tool_call[d]
      /\ CallsSound'
  BY <1>1, <1>2, <1>4, <1>5, <1>6, CallReplaced, NothingGrows DEF m
<1>8. ClientTypes' /\ Knowing'
  BY <1>1, <1>3, <1>7 DEF ClientInv, ClientTypes, Knowing
<1>9. Joining'
  <2>1. /\ tool = "connect" => ses.life = "none" /\ \A d \in Call : tool_call[d].tool # "connect"
        /\ tool # "connect" => joined
    BY <1>2, <1>3 DEF T!MayCall, Joining
  <2>2. tool = "connect" => ~joined
    BY <1>3, <2>1 DEF Joining
  <2> QED BY <1>1, <1>3, <1>4, <1>7, <2>1, <2>2 DEF Joining
<1>10. T!ForgottenIsOver' /\ T!RememberedIsLive'
  <2>1. \A d \in Call : tool_call[d].at = "answered" => tool_call'[d] = tool_call[d]
    BY <1>1, <1>7
  <2> QED BY <1>1, <2>1 DEF ClientInv, T!ForgottenIsOver, T!RememberedIsLive
<1> QED BY <1>7, <1>8, <1>9, <1>10 DEF ClientInv

\* The engine answering a call.
LEMMA ServeStep ==
    ASSUME ClientInv, NEW c \in Call, T!Serve(c) PROVE ClientInv'
<1>1. /\ tool_call[c].at = "sent"
      /\ UNCHANGED <<client, joined, bridged, known, unheard>>
  BY DEF T!Serve
<1>2. PICK o \in Outcomes(tool_call[c]) :
        /\ ses' = o.ses /\ landed' = landed \cup o.lands
        /\ tool_call' = [tool_call EXCEPT ![c] = T!Returned(tool_call[c], o)]
  BY DEF T!Serve, Outcomes
<1> DEFINE k == tool_call[c]
           r == T!Returned(k, o)
<1>3. /\ ClientTypes /\ CallsSound /\ Knowing /\ Joining /\ client \in DOMAIN T!Tools
      /\ k \in Calling /\ CallSound(client, k, ses, landed)
  BY DEF ClientInv, ClientTypes, CallsSound
<1>4. k.tool \in T!Tools[client] /\ k.tool # "none" /\ k.arg \in [Path -> T!Change]
  <2>1. k.tool \in T!Tools[client] /\ k.arg \in [Path -> T!Change]
    BY <1>1, <1>3 DEF CallSound, Calling
  <2>2. k.tool \in ToolNames
    BY <1>3, <2>1, ToolFacts
  <2> QED BY <2>1, <2>2 DEF ToolNames, T!Common
<1>5. Outcome(k.tool, T!Named(k), o)
  BY <1>2, <1>3, <1>4, ServedOutcomes
<1>6. r \in Calling /\ Keeps(k, o, r) /\ CallSound(client, r, o.ses, landed \cup o.lands)
  BY <1>3, <1>4, <1>5, ReturnedFacts, ReturnSound
<1>7. Does(k.tool, T!Named(k), o.ses, o.lands, o.answer, o.shown, o.steps)
  BY <1>5 DEF Outcome
<1>8. /\ "commit" \in T!Difference(o) <=> o.lands # {}
      /\ "end" \in T!Difference(o) <=> o.ses.life # ses.life /\ o.ses.life # "live"
  BY <1>3, <1>5, DifferenceFacts
<1> HIDE DEF k, r
<1>9. k.tool = "connect" => ses.life = "none" /\ ~joined
  BY <1>1, <1>3 DEF Joining, k
<1>10. /\ r.tool \in {k.tool, "none"} /\ r.at = "answered"
       /\ T!Difference(o) \cap T!Vital \subseteq r.did \/ o.answer \in T!Refusals
  BY <1>6 DEF Keeps
<1>11. Grows(ses, o.ses)
  <2>1. ses.overlay \subseteq o.ses.overlay /\ ses.rows \subseteq o.ses.rows
    BY <1>7 DEF Does
  <2>2. \/ o.ses.life = ses.life
        \/ ses.life = "none" /\ o.ses.life = "live"
        \/ o.ses.life = "closed"
        \/ o.ses.life = "abandoned" /\ ses.life = "stranded"
    BY <1>7, <1>9 DEF Does
  <2> QED BY <2>1, <2>2 DEF Grows, Over
<1>12. /\ tool_call' \in [Call -> Calling]
       /\ \A d \in Call : tool_call'[d].tool \in T!Tools[client] \cup {"none"}
       /\ \A d \in Call : tool_call'[d] = IF d = c THEN r ELSE tool_call[d]
       /\ CallsSound'
  BY <1>1, <1>2, <1>4, <1>6, <1>10, <1>11, CallReplaced DEF k, r
<1>13. ClientTypes'
  <2>1. o.ses \in EngineSession /\ o.lands \subseteq Path
    BY <1>7 DEF Does
  <2> QED BY <1>1, <1>2, <1>3, <1>12, <2>1 DEF ClientTypes
<1>14. Knowing'
  BY <1>1, <1>2, <1>3, <1>11 DEF Knowing, Grows
<1>15. Joining'
  <2>1. joined' => ses'.life # "none"
    BY <1>1, <1>2, <1>3, <1>11 DEF Joining, Grows
  <2>2. ASSUME ~joined
        PROVE  /\ landed' = {} /\ ses'.life \notin {"closed", "abandoned"}
               /\ \A d \in Call : tool_call'[d].tool \in {"connect", "none"}
    <3>1. k.tool = "connect" /\ landed = {} /\ ses.life \notin {"closed", "abandoned"}
      BY <1>3, <1>4, <2>2 DEF Joining, k
    <3>2. o.lands = {}
      BY <1>7, <3>1 DEF Does
    <3>3. o.answer \notin {"closed", "abandoned"}
      BY <1>7, <3>1 DEF Does, Fits, T!Errors
    <3>4. o.ses.life \notin {"closed", "abandoned"}
      BY <1>7, <3>1, <3>3 DEF Does
    <3> QED BY <1>2, <1>3, <1>10, <1>12, <2>2, <3>1, <3>2, <3>4 DEF Joining
  <2>3. ASSUME NEW d \in Call, tool_call'[d].tool = "connect"
        PROVE  /\ ~joined /\ (tool_call'[d].at = "sent" => ses'.life = "none")
               /\ \A x \in Call : tool_call'[x].tool = "connect" => x = d
    <3>1. \A x \in Call : tool_call'[x].tool = "connect" => tool_call[x].tool = "connect"
      BY <1>4, <1>10, <1>12 DEF k
    <3>2. ~joined /\ \A x \in Call : tool_call'[x].tool = "connect" => x = d
      BY <1>3, <2>3, <3>1 DEF Joining
    <3>3. d = c
      <4>1. k.tool = "connect"
        BY <1>3, <1>4, <3>2 DEF Joining, k
      <4> QED BY <1>3, <2>3, <3>1, <4>1 DEF Joining, k
    <3> QED BY <1>10, <1>12, <3>2, <3>3
  <2>4. bridged' => joined' /\ client' = "mcp"
    BY <1>1, <1>3 DEF Joining
  <2>5. ~joined' => /\ landed' = {} /\ ses'.life \notin {"closed", "abandoned"}
                    /\ \A d \in Call : tool_call'[d].tool \in {"connect", "none"}
    BY <1>1, <2>2
  <2>6. \A d \in Call : tool_call'[d].tool = "connect" =>
          /\ ~joined' /\ (tool_call'[d].at = "sent" => ses'.life = "none")
          /\ \A x \in Call : tool_call'[x].tool = "connect" => x = d
    BY <1>1, <2>3
  <2> QED BY <2>1, <2>4, <2>5, <2>6 DEF Joining
<1>16. T!ForgottenIsOver'
  <2>1. ClientInv => T!ForgottenIsOver
    BY DEF ClientInv
  <2> QED BY <1>1, <1>2, <1>11, <2>1 DEF T!ForgottenIsOver, Grows, Over
<1>17. T!RememberedIsLive'
  <2>1. SUFFICES ASSUME bridged, landed' # {} \/ ses'.life \in {"closed", "abandoned"}, ~unheard
                 PROVE  \E d \in Call : /\ tool_call'[d].at = "answered"
                                        /\ tool_call'[d].did \cap T!Vital # {}
    BY <1>1 DEF T!RememberedIsLive
  <2>2. CASE landed # {} \/ ses.life \in {"closed", "abandoned"}
    <3>1. PICK d \in Call : tool_call[d].at = "answered" /\ tool_call[d].did \cap T!Vital # {}
      BY <2>1, <2>2 DEF ClientInv, T!RememberedIsLive
    <3>2. tool_call'[d] = tool_call[d]
      BY <1>1, <1>12, <3>1
    <3> QED BY <3>1, <3>2
  <2>3. CASE landed = {} /\ ses.life \notin {"closed", "abandoned"}
    <3>1. T!Difference(o) \cap T!Vital # {}
      BY <1>2, <1>8, <2>1, <2>3 DEF T!Vital
    <3>2. o.answer \notin T!Refusals
      <4>1. o.answer \in {"error", "merged", "closed", "abandoned"}
        BY <1>3, <1>5, <3>1, DifferenceFacts
      <4> QED BY <4>1 DEF T!Refusals
    <3>3. tool_call'[c] = r
      BY <1>12
    <3> QED BY <1>10, <3>1, <3>2, <3>3
  <2> QED BY <2>2, <2>3
<1> QED BY <1>12, <1>13, <1>14, <1>15, <1>16, <1>17 DEF ClientInv

\* No call in its place is sound too.
LEMMA IdleIsSound ==
    /\ T!Idle \in Calling
    /\ T!Idle.at = "idle" /\ T!Idle.tool = "none"
    /\ \A whose, e, l : CallSound(whose, T!Idle, e, l)
<1>1. T!Idle \in Calling
  BY DEF T!Idle, Calling, T!Nothing, T!Change, T!Status
<1>2. /\ T!Idle.at = "idle" /\ T!Idle.tool = "none" /\ T!Idle.answer = "none"
      /\ T!Idle.did = {} /\ T!Idle.knew = {}
  BY DEF T!Idle
<1>3. \A whose, e, l : CallSound(whose, T!Idle, e, l)
  BY <1>2 DEF CallSound, Told, Did
<1> QED BY <1>1, <1>2, <1>3

\* A request or an answer being lost.
LEMMA LoseStep ==
    ASSUME ClientInv, NEW c \in Call, T!Lose(c) PROVE ClientInv'
<1>1. /\ tool_call' = [tool_call EXCEPT ![c] = T!Idle]
      /\ unheard' = (unheard \/ (bridged /\ tool_call[c].did \cap T!Vital # {}))
      /\ UNCHANGED <<client, ses, landed, joined, bridged, known>>
  BY DEF T!Lose
<1>2. /\ tool_call' \in [Call -> Calling]
      /\ \A d \in Call : tool_call'[d].tool \in T!Tools[client] \cup {"none"}
      /\ \A d \in Call : tool_call'[d] = IF d = c THEN T!Idle ELSE tool_call[d]
      /\ CallsSound'
  BY <1>1, IdleIsSound, CallReplaced, NothingGrows
<1>3. ClientTypes' /\ Knowing'
  BY <1>1, <1>2 DEF ClientInv, ClientTypes, Knowing
<1>4. Joining'
  BY <1>1, <1>2, IdleIsSound DEF ClientInv, Joining
<1>5. T!ForgottenIsOver'
  BY <1>1 DEF ClientInv, T!ForgottenIsOver
<1>6. T!RememberedIsLive'
  <2>1. SUFFICES ASSUME bridged, landed # {} \/ ses.life \in {"closed", "abandoned"}, ~unheard'
                 PROVE  \E d \in Call : /\ tool_call'[d].at = "answered"
                                        /\ tool_call'[d].did \cap T!Vital # {}
    BY <1>1 DEF T!RememberedIsLive
  <2>2. PICK d \in Call : tool_call[d].at = "answered" /\ tool_call[d].did \cap T!Vital # {}
    BY <1>1, <2>1 DEF ClientInv, T!RememberedIsLive
  <2>3. tool_call'[d] = tool_call[d]
    BY <1>1, <1>2, <2>1, <2>2
  <2> QED BY <2>2, <2>3
<1> QED BY <1>2, <1>3, <1>4, <1>5, <1>6 DEF ClientInv

\* The agent hearing of its call.
LEMMA HearStep ==
    ASSUME ClientInv, NEW c \in Call, T!Hear(c) PROVE ClientInv'
<1> DEFINE k == tool_call[c]
           heard == T!Heard(k)
<1>1. /\ k.at = "answered" /\ tool_call' = [tool_call EXCEPT ![c] = T!Idle]
      /\ UNCHANGED <<client, ses, landed>>
      /\ joined' = (joined \/ heard.word = "connected")
      /\ bridged' = (client = "mcp" /\ heard.lists)
      /\ known' = known \cup IF \/ heard.word = "wrote" /\ client # "cli"
                                \/ heard.word = "resolved"
                             THEN T!Named(k) ELSE {}
      /\ unheard' = (unheard \/ (bridged /\ heard.word = "failed" /\ k.did \cap T!Vital # {}))
  BY DEF T!Hear
<1>2. /\ ClientTypes /\ CallsSound /\ Knowing /\ Joining /\ client \in DOMAIN T!Tools
      /\ T!ForgottenIsOver /\ T!RememberedIsLive /\ k \in Calling
  BY DEF ClientInv, ClientTypes
<1>3. RepliedTo(client, k) /\ Told(client, k, ses, landed) /\ Did(k)
  BY <1>1, <1>2 DEF CallsSound, CallSound
<1>4. Tells(k, heard.word, heard.sees, heard.lists)
  BY <1>2, <1>3, HeardSays DEF Replied, Says
<1>5. /\ k.answer = "connected" => k.tool = "connect"
      /\ client = "ops" => k.answer # "resolved"
  BY <1>2, <1>3, FitsFacts DEF Replied
<1> HIDE DEF k, heard
<1>6. /\ heard.word = "connected" => k.answer = "connected"
      /\ heard.word = "wrote" /\ client # "cli" => k.answer = "hash"
      /\ heard.word = "resolved" => k.answer = "resolved"
      /\ k.answer \in T!Errors => heard.word = "failed"
  BY <1>4 DEF Tells
<1>7. client = "mcp" => /\ k.answer = "connected" => heard.lists = TRUE
                        /\ k.answer \in {"merged", "closed", "abandoned"} => heard.lists = FALSE
                        /\ k.answer \notin {"connected", "merged", "closed", "abandoned"} =>
                             heard.lists = bridged
  BY <1>4 DEF Tells
<1>8. /\ tool_call' \in [Call -> Calling]
      /\ \A d \in Call : tool_call'[d].tool \in T!Tools[client] \cup {"none"}
      /\ \A d \in Call : tool_call'[d] = IF d = c THEN T!Idle ELSE tool_call[d]
      /\ CallsSound'
  BY <1>1, IdleIsSound, CallReplaced, NothingGrows
<1>9. k.answer = "connected" => ~joined /\ ses.life # "none"
  BY <1>2, <1>3, <1>5 DEF Joining, Told, k
<1>10. bridged' \in BOOLEAN /\ joined' \in BOOLEAN /\ unheard' \in BOOLEAN
  <2>1. client = "mcp" => heard.lists \in BOOLEAN
    BY <1>2, <1>7 DEF ClientTypes
  <2> QED BY <1>1, <1>2, <2>1 DEF ClientTypes
<1>11. ClientTypes' /\ Knowing'
  <2>1. T!Named(k) \subseteq Path
    BY DEF T!Named
  <2>2. /\ k.answer \in {"hash", "resolved"} => T!Named(k) \subseteq ses.overlay
        /\ k.answer = "hash" /\ client = "ops" => T!Named(k) \subseteq ses.rows
    BY <1>3 DEF Told
  <2>3. known' = known \/ (known' = known \cup T!Named(k) /\ k.answer \in {"hash", "resolved"})
    BY <1>1, <1>6
  <2>4. Knowing'
    BY <1>1, <1>2, <1>5, <2>2, <2>3 DEF Knowing
  <2>5. known' \subseteq Path
    BY <1>2, <2>1, <2>3 DEF ClientTypes
  <2> QED BY <1>1, <1>2, <1>8, <1>10, <2>4, <2>5 DEF ClientTypes
<1>12. bridged' =>
         /\ client = "mcp" /\ k.answer \notin {"merged", "closed", "abandoned"}
         /\ k.answer = "connected" => joined'
         /\ k.answer # "connected" => bridged
  <2>1. k.answer = "connected" /\ client = "mcp" => heard.word = "connected"
    <3>1. k.answer = "connected" => k.tool = "connect" /\ k.answer \notin T!Errors
      BY <1>5 DEF T!Errors
    <3>2. k.answer = "connected" /\ client = "mcp" => T!Heard(k) = T!dk_connect(k)
      BY <3>1 DEF T!Heard, T!Mcp
    <3> QED BY <3>2 DEF heard, T!dk_connect, T!Hears
  <2> QED BY <1>1, <1>7, <2>1
<1>13. Joining'
  <2>1. ASSUME NEW d \in Call, tool_call'[d].tool = "connect"
        PROVE  /\ ~joined' /\ (tool_call'[d].at = "sent" => ses'.life = "none")
               /\ \A x \in Call : tool_call'[x].tool = "connect" => x = d
    <3>1. \A x \in Call : tool_call'[x].tool = "connect" =>
             x # c /\ tool_call'[x] = tool_call[x]
      BY <1>8, IdleIsSound
    <3>2. /\ ~joined /\ (tool_call[d].at = "sent" => ses.life = "none")
          /\ \A x \in Call : tool_call[x].tool = "connect" => x = d
      BY <1>2, <2>1, <3>1 DEF Joining
    <3>3. k.answer # "connected"
      BY <1>5, <2>1, <3>1, <3>2 DEF k
    <3> QED BY <1>1, <1>6, <2>1, <3>1, <3>2, <3>3
  <2>2. joined' => ses'.life # "none"
    BY <1>1, <1>2, <1>6, <1>9 DEF Joining
  <2>3. bridged' => joined' /\ client' = "mcp"
    BY <1>1, <1>2, <1>12 DEF Joining
  <2>4. ~joined' => /\ landed' = {} /\ ses'.life \notin {"closed", "abandoned"}
                    /\ \A d \in Call : tool_call'[d].tool \in {"connect", "none"}
    BY <1>1, <1>2, <1>8, IdleIsSound DEF Joining
  <2> QED BY <2>1, <2>2, <2>3, <2>4 DEF Joining
<1>14. T!ForgottenIsOver'
  <2>1. SUFFICES ASSUME client = "mcp", joined', ~bridged'
                 PROVE  landed # {} \/ ses.life \in Over
    BY <1>1 DEF T!ForgottenIsOver, Over
  <2>2. k.answer # "connected"
    BY <1>1, <1>7, <2>1
  <2>3. joined
    BY <1>1, <1>6, <2>1, <2>2
  <2>4. CASE k.answer \in {"merged", "closed", "abandoned"}
    BY <1>3, <2>4 DEF Told, Over
  <2>5. CASE k.answer \notin {"merged", "closed", "abandoned"}
    <3>1. ~bridged
      BY <1>1, <1>7, <2>1, <2>2, <2>5
    <3> QED BY <1>2, <2>1, <2>3, <3>1 DEF T!ForgottenIsOver, Over
  <2> QED BY <2>4, <2>5
<1>15. T!RememberedIsLive'
  <2>1. SUFFICES ASSUME bridged', landed # {} \/ ses.life \in {"closed", "abandoned"}, ~unheard'
                 PROVE  \E d \in Call : /\ tool_call'[d].at = "answered"
                                        /\ tool_call'[d].did \cap T!Vital # {}
    BY <1>1 DEF T!RememberedIsLive
  <2>2. bridged
    BY <1>2, <1>9, <1>12, <2>1 DEF Joining
  <2>3. PICK d \in Call : tool_call[d].at = "answered" /\ tool_call[d].did \cap T!Vital # {}
    BY <1>1, <1>2, <2>1, <2>2 DEF T!RememberedIsLive
  <2>4. d # c
    <3>1. SUFFICES ASSUME d = c PROVE FALSE
      OBVIOUS
    <3>2. k.answer = "error"
      BY <1>3, <1>12, <2>1, <2>3, <3>1 DEF Did, k
    <3>3. heard.word = "failed"
      BY <1>6, <3>2 DEF T!Errors
    <3> QED BY <1>1, <2>1, <2>2, <2>3, <3>1, <3>3 DEF k
  <2> QED BY <1>8, <2>3, <2>4
<1> QED BY <1>8, <1>11, <1>13, <1>14, <1>15 DEF ClientInv

\* The engine stranding, sweeping or expiring the session by itself.
LEMMA TendStep ==
    ASSUME ClientInv, T!Tend PROVE ClientInv'
<1>1. UNCHANGED <<client, landed, joined, bridged, known, tool_call, unheard>>
  BY DEF T!Tend
<1>2. ClientTypes /\ CallsSound /\ Knowing /\ Joining /\ ses \in EngineSession
  BY DEF ClientInv, ClientTypes
<1>3. /\ ses' \in EngineSession /\ ses'.overlay = ses.overlay /\ ses'.rows = ses.rows
      /\ ses.life \in {"live", "stranded"} /\ ses'.life \in {"stranded", "swept", "expired"}
      /\ ses'.life = "swept" \/ ses.life \notin Over
  <2>1. CASE T!Strand \/ T!Expire
    <3>1. /\ ses' \in {[ses EXCEPT !.life = "stranded"], [ses EXCEPT !.life = "expired"]}
          /\ ses.life \in {"live", "stranded"}
      BY <2>1 DEF T!Strand, T!Expire
    <3> QED BY <1>2, <3>1 DEF EngineSession, T!Life, Over
  <2>2. CASE T!Sweep
    <3>1. PICK s \in T!Status : ses' = [ses EXCEPT !.life = "swept", !.status = s]
      BY <2>2 DEF T!Sweep, T!Status
    <3> QED BY <1>2, <2>2, <3>1 DEF T!Sweep, EngineSession, T!Life, Over
  <2> QED BY <2>1, <2>2 DEF T!Tend
<1>4. Grows(ses, ses')
  BY <1>3 DEF Grows, Over
<1>5. CallsSound'
  <2>1. \A c \in Call : CallSound(client, tool_call[c], ses', landed)
    BY <1>2, <1>4, StaysSound DEF CallsSound
  <2> QED BY <1>1, <2>1 DEF CallsSound
<1>6. ClientTypes' /\ Knowing'
  BY <1>1, <1>2, <1>3 DEF ClientTypes, Knowing
<1>7. Joining'
  <2>1. \A c \in Call : tool_call[c].tool = "connect" => tool_call[c].at # "sent"
    BY <1>2, <1>3 DEF Joining
  <2> QED BY <1>1, <1>2, <1>3, <2>1 DEF Joining
<1>8. T!ForgottenIsOver' /\ T!RememberedIsLive'
  BY <1>1, <1>3 DEF ClientInv, T!ForgottenIsOver, T!RememberedIsLive
<1> QED BY <1>5, <1>6, <1>7, <1>8 DEF ClientInv

\* Every step keeps the invariant.
LEMMA ClientsStay == ClientInv /\ [T!Next]_(T!vars) => ClientInv'
<1> SUFFICES ASSUME ClientInv, [T!Next]_(T!vars) PROVE ClientInv'
  OBVIOUS
<1>1. ASSUME NEW c \in Call, T!Ask(c) \/ T!Serve(c) \/ T!Lose(c) \/ T!Hear(c) PROVE ClientInv'
  BY <1>1, AskStep, ServeStep, LoseStep, HearStep
<1>2. CASE T!Tend
  BY <1>2, TendStep
<1>3. CASE UNCHANGED T!vars
  BY <1>3 DEF T!vars, ClientInv, ClientTypes, CallsSound, Knowing, Joining,
     T!ForgottenIsOver, T!RememberedIsLive
<1> QED BY <1>1, <1>2, <1>3 DEF T!Next

\* So it always holds.
LEMMA ClientsHold == T!Spec => []ClientInv
  BY ClientsBegin, ClientsStay, PTL DEF T!Spec

\* dk-mcp forgets a session it connected only when its work was merged or it
\* is over, and still lists one that is over only while the call that ended it
\* is unanswered, failed or was lost (server.rs).
THEOREM TableStaysSound == T!Spec => []TableIsSound
<1>1. ClientInv => TableIsSound
  <2> SUFFICES ASSUME ClientInv PROVE TableIsSound
    OBVIOUS
  <2>1. T!TypeOK
    <3>1. /\ ses \in EngineSession /\ tool_call \in [Call -> Calling]
          /\ \A c \in Call : tool_call[c].tool \in T!Tools[client] \cup {"none"}
          /\ client \in DOMAIN T!Tools /\ landed \subseteq Path /\ known \subseteq Path
          /\ joined \in BOOLEAN /\ bridged \in BOOLEAN /\ unheard \in BOOLEAN
      BY DEF ClientInv, ClientTypes
    <3>2. /\ ses.life \in T!Life /\ ses.status \in T!Status
          /\ {ses.overlay, ses.rows, landed, known} \subseteq SUBSET Path
          /\ {joined, bridged, unheard} \subseteq BOOLEAN
      BY <3>1 DEF EngineSession
    <3>3. ASSUME NEW c \in Call
          PROVE  /\ tool_call[c].at \in {"idle", "sent", "answered"}
                 /\ tool_call[c].arg \in [Path -> T!Change]
                 /\ tool_call[c].knew \cup tool_call[c].shown \subseteq Path
                 /\ tool_call[c].did \subseteq T!Effects /\ tool_call[c].steps \subseteq T!Step
                 /\ tool_call[c].after \in T!Status
      BY <3>1, <3>3 DEF Calling
    <3> QED BY <3>1, <3>2, <3>3 DEF T!TypeOK
  <2> QED BY <2>1 DEF ClientInv, TableIsSound
<1> QED BY <1>1, ClientsHold, PTL

\* Whichever client it calls through, what an agent is told was done was done
\* and still is when it hears of it, and what was refused changed nothing.
THEOREM WordsStayTrue == T!Spec => []WordsAreTrue
<1>1. ClientInv => WordsAreTrue
  <2> SUFFICES ASSUME ClientInv PROVE WordsAreTrue
    OBVIOUS
  <2>1. client \in DOMAIN T!Tools /\ CallsSound
    BY DEF ClientInv, ClientTypes
  <2>2. T!RefusalChangesNothing
    BY <2>1 DEF CallsSound, CallSound, Did, T!RefusalChangesNothing
  <2>3. ASSUME NEW c \in Call, tool_call[c].at = "answered" PROVE T!Kept(tool_call[c])
    <3> DEFINE k == tool_call[c]
               told == T!Heard(k).word
    <3>1. RepliedTo(client, k) /\ Told(client, k, ses, landed)
      BY <2>1, <2>3 DEF CallsSound, CallSound
    <3>2. Tells(k, told, T!Heard(k).sees, T!Heard(k).lists)
      BY <2>1, <3>1, HeardSays DEF Replied, Says
    <3>3. T!Kept(k) <=>
            /\ told = "wrote" /\ client # "cli" => T!Named(k) \subseteq ses.overlay
            /\ told = "resolved" => T!Named(k) \subseteq ses.overlay
            /\ told = "accepted" => k.after = "submitted"
            /\ told = "approved" => k.after = "approved"
            /\ told = "merged" => k.after = "merged" /\ "commit" \in k.did
            /\ told = "closed" => ses.life = "closed"
            /\ told = "abandoned" => ses.life \in {"abandoned", "swept", "closed"}
            /\ told = "passed" => \/ k.after = "approved" \/ "timeout" \in k.steps
                                  \/ client = "programmatic" /\ k.steps = {}
      BY DEF T!Kept
    <3> HIDE DEF k, told
    <3>4. told = "passed" => \/ k.after = "approved" \/ "timeout" \in k.steps
                             \/ client = "programmatic" /\ k.steps = {}
      BY <3>1, <3>2 DEF Tells, Told, T!Verdict
    <3>5. T!Kept(k)
      BY <3>1, <3>2, <3>3, <3>4 DEF Tells, Told, Over
    <3> QED BY <3>5 DEF k
  <2> QED BY <2>2, <2>3 DEF WordsAreTrue, T!SuccessIsDone
<1> QED BY <1>1, ClientsHold, PTL

\* A path an agent knew to be written when it called is tagged in what it
\* reads and lists, and is part of what is accepted or merged.
THEOREM WorkStaysCarried == T!Spec => []WorkIsCarried
<1>1. ClientInv => WorkIsCarried
  <2> SUFFICES ASSUME ClientInv, NEW c \in Call, tool_call[c].at = "answered"
               PROVE  T!Carried(tool_call[c])
    BY DEF WorkIsCarried, T!WorkIsCarried
  <2> DEFINE k == tool_call[c]
             heard == T!Heard(k)
  <2>1. client \in DOMAIN T!Tools /\ RepliedTo(client, k) /\ Told(client, k, ses, landed)
    BY DEF ClientInv, ClientTypes, CallsSound, CallSound
  <2>2. Tells(k, heard.word, heard.sees, heard.lists)
    BY <2>1, HeardSays DEF Replied, Says
  <2>3. T!Carried(k) <=> /\ heard.word = "content" => k.knew \cap T!Named(k) \subseteq heard.sees
                         /\ heard.word = "listing" => k.knew \subseteq heard.sees
                         /\ heard.word = "accepted" => k.knew \subseteq ses.rows
                         /\ heard.word = "merged" => k.knew \subseteq landed
    BY DEF T!Carried
  <2> HIDE DEF k, heard
  <2>4. T!Carried(k)
    BY <2>1, <2>2, <2>3 DEF Tells, Told
  <2> QED BY <2>4 DEF k
<1> QED BY <1>1, ClientsHold, PTL

=============================================================================
