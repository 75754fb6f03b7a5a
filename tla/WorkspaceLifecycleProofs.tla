----------------------- MODULE WorkspaceLifecycleProofs -----------------------
(***************************************************************************)
(* Theorems about WorkspaceLifecycle, for any number of rows, ids,         *)
(* requests and crashes.  Those about ids and redirects hold with the pin  *)
(* rule on or off, the others while it is on; none needs the database to   *)
(* answer.                                                                 *)
(***************************************************************************)
EXTENDS WorkspaceLifecycle, TLAPS

(***************************************************************************)
(* Ids and redirects.                                                      *)
(***************************************************************************)

\* An id of a row, an id with a redirect and the target of a redirect were
\* handed out, so a fresh id is none of them.
IdsAreUsed ==
    /\ \A w \in Workspace : sid[w] # NoSid => sid[w] \in used
    /\ \A s \in Sid : redirect[s] # NoSid => s \in used /\ redirect[s] \in used

\* A resume was given an id, and rehydrates a row.
ResumeHasArgs ==
    \A r \in Request :
        /\ task[r].at = "tx" => task[r].sid \in used
        /\ task[r].at \in {"restore", "acquire"} => task[r].sid \in used
        /\ task[r].at = "restore" => task[r].ws \in Workspace

IdInv ==
    /\ TypeOK
    /\ IdsAreUsed /\ ResumeHasArgs
    /\ DeadStaysDead /\ RedirectLeadsHome

(***************************************************************************)
(* What is in memory, while the pin rule is on.                            *)
(***************************************************************************)

\* Before startup_reconcile is done, nothing is in memory and nothing runs.
BootIsQuiet ==
    phase = "boot" =>
        /\ live = [s \in Sid |-> NoWs]
        /\ registered = {}
        /\ \A t \in Task : task[t].at = "idle"

\* The garbage collector collects, decides, sweeps and abandons; the requests
\* do the rest.
GcSteps == {"idle", "evict", "decide", "sweep",
            "abandonTx", "abandonFree", "abandonForget"}

Stations ==
    /\ task[Gc].at \in GcSteps
    /\ \A r \in Request : /\ task[r].at \notin {"evict", "decide", "sweep"}
                          /\ task[r].back = "idle"

\* A row without an id is untouched.
FreshRows == \A w \in stranded \cup abandoned : sid[w] # NoSid

Rehydrating(r) == task[r].at \in {"restore", "acquire", "unwind", "mark"}
Departing(r) == task[r].at \in {"free", "forget"}

\* A resume under way has its row to itself: the row is in use nowhere, and
\* neither stranded nor abandoned.
RehydrationIsAlone ==
    /\ \A r \in Request : Rehydrating(r) =>
          /\ task[r].ws \in Workspace /\ sid[task[r].ws] = task[r].sid
          /\ task[r].ws \notin stranded \cup abandoned
    /\ \A r \in Request : Rehydrating(r) \/ Departing(r) =>
          task[r].sid \in used /\ live[task[r].sid] = NoWs
    /\ \A q, r \in Request :
          /\ q # r
          /\ Rehydrating(q) \/ Departing(q)
          /\ Rehydrating(r) \/ Departing(r)
          => task[q].sid # task[r].sid

Removing(t) == task[t].at \in {"abandonTx", "abandonFree", "abandonForget"}

\* The row that has the id of an abandonment is stranded, and it is the row
\* that was read: a resume in between took the id away.
RemovalIsOfStranded ==
    \A t \in Task : Removing(t) =>
        /\ task[t].sid \in used
        /\ RowOf(task[t].sid) \subseteq stranded
        /\ task[t].at = "abandonTx" =>
              task[t].ws \in Workspace /\ RowOf(task[t].sid) \subseteq {task[t].ws}

RowInv ==
    /\ IdInv
    /\ BootIsQuiet /\ Stations /\ FreshRows
    /\ RehydrationIsAlone /\ RemovalIsOfStranded
    /\ LiveIsCurrent /\ AbandonedIsDead

(***************************************************************************)
(* The locks of resumed workspaces, while the pin rule is on.              *)
(***************************************************************************)

\* A resumed id is not in the session table: CONNECT answers with it, and
\* makes no session for it.
ResumedIsUnregistered ==
    /\ registered \subseteq used
    /\ \A s \in Sid : Resumed(s) => s \notin registered

\* Whoever holds a lock of the workspace manager's was resumed.
HolderIsResumed == \A x \in Symbol : \A s \in mgrLocks[x] : Resumed(s)

\* A resume that acquires counts what it has.
AcquiredIsHeld ==
    \A r \in Request :
        /\ task[r].at \in {"tx", "restore"} => ~task[r].flag /\ task[r].got = {}
        /\ task[r].at \in {"restore", "acquire", "unwind"} =>
              /\ Resumed(task[r].sid)
              /\ \A x \in task[r].got : mgrLocks[x] = {task[r].sid}
        /\ task[r].at = "acquire" /\ ~task[r].flag =>
              task[r].syms = task[r].todo \cup task[r].got

RowIsFinal(s) == \E w \in RowOf(s) : cs[w] \in Terminal

\* Why an id holds a lock of the manager's.
LockIsJustified ==
    \A x \in Symbol : \A s \in mgrLocks[x] :
        \/ live[s] # NoWs
        \/ \E r \in Request : /\ task[r].at \in {"acquire", "unwind"}
                              /\ task[r].sid = s /\ x \in task[r].got
        \/ RowIsFinal(s)

\* The collector works on ids that were handed out and are not those of a
\* resume under way; a resumed workspace it found final is final when it
\* evicts it.
EvictionIsFinal ==
    /\ task[Gc].batch \subseteq used
    /\ \A r \in Request : Rehydrating(r) => task[r].sid \notin task[Gc].batch
    /\ task[Gc].at = "decide" =>
          /\ task[Gc].sid \in used
          /\ \A r \in Request : Rehydrating(r) => task[r].sid # task[Gc].sid
          /\ Resumed(task[Gc].sid) /\ live[task[Gc].sid] # NoWs /\ ~task[Gc].flag =>
                RowIsFinal(task[Gc].sid)

LockParts ==
    /\ ResumedIsUnregistered /\ HolderIsResumed /\ AcquiredIsHeld
    /\ LockIsJustified /\ EvictionIsFinal /\ ResumedOwnsItsChanges

LockInv == RowInv /\ LockParts

-----------------------------------------------------------------------------
(***************************************************************************)
(* Types                                                                   *)
(***************************************************************************)

\* An idle handler has locals, of the right types.
LEMMA IdleType == Idle \in Local
BY DEF Local, Idle, At

\* acquire_lock, release_lock and release_locks return a table.
LEMMA TrackerTypes ==
    ASSUME NEW c \in Claims, NEW x \in Symbol, NEW s
    PROVE  /\ NoClaims \in Claims
           /\ s \in Sid => AcquireLock(c, x, s) \in Claims
           /\ ReleaseLock(c, x, s) \in Claims
           /\ ReleaseLocks(c, s) \in Claims
BY DEF Claims, NoClaims, AcquireLock, RecordClaim, ReleaseLock, ReleaseLocks

(* The types hold at the start. *)
LEMMA TypeInit == Init => TypeOK
<1> SUFFICES ASSUME Init PROVE TypeOK
  OBVIOUS
<1>1. locks \in Claims /\ mgrLocks \in Claims
  BY DEF Init, Claims, NoClaims
<1>2. task \in [Task -> Local]
  BY DEF Init, Local, Idle, At
<1> QED BY <1>1, <1>2, MaxCrashesAssumption DEF Init, TypeOK, State

\* The subroutines' ends.
LEMMA HelperTypes ==
    ASSUME TypeOK, NEW t \in Task, NEW s
    PROVE  /\ Back(t) => task' \in [Task -> Local]
           /\ Forget(s) => /\ live' \in [Sid -> Workspace \cup {NoWs}]
                           /\ overlay' \in [Sid -> SUBSET Symbol]
<1>1. ASSUME Back(t) PROVE task' \in [Task -> Local]
  <2>1. task[t].back \in At /\ task[t].batch \in SUBSET Sid
    BY DEF TypeOK, Local, At
  <2>2. [Idle EXCEPT !.at = task[t].back, !.batch = task[t].batch] \in Local
    BY <2>1, IdleType DEF Local
  <2> QED BY <1>1, <2>2, IdleType DEF Back, TypeOK
<1>2. ASSUME Forget(s)
      PROVE  live' \in [Sid -> Workspace \cup {NoWs}] /\ overlay' \in [Sid -> SUBSET Symbol]
  BY <1>2 DEF Forget, TypeOK
<1> QED BY <1>1, <1>2

(* Agents that connect, call and disconnect keep the types. *)
LEMMA TypeAgents ==
    ASSUME TypeOK, Agents
    PROVE  TypeOK'
<1>1. ASSUME NEW w \in Workspace, NEW s \in Sid, Connect(w, s)
      PROVE  TypeOK'
  BY <1>1 DEF Connect, Mint, TypeOK
<1>2. ASSUME NEW s \in Sid, NEW x \in Symbol, Write(s, x)
      PROVE  TypeOK'
  <2>1. locks' \in Claims
    BY <1>2, TrackerTypes DEF Write, TypeOK
  <2>2. overlay' \in [Sid -> SUBSET Symbol] /\ disk' \in [Workspace -> SUBSET Symbol]
    BY <1>2 DEF Write, Usable, TypeOK
  <2> QED BY <1>2, <2>1, <2>2 DEF Write, TypeOK
<1>3. ASSUME NEW s \in Sid, NEW v \in {"submitted", "rejected"}, Verify(s, v)
      PROVE  TypeOK'
  BY <1>3 DEF Verify, Usable, SetState, State, TypeOK, memory
<1>4. ASSUME NEW s \in Sid, Submit(s) \/ Merge(s)
      PROVE  TypeOK'
  <2>1. locks' \in Claims
    BY <1>4, TrackerTypes DEF Submit, Merge, TypeOK, Claims, ReleaseLocks
  <2> QED BY <1>4, <2>1 DEF Submit, Merge, Usable, SetState, State, TypeOK
<1>5. ASSUME NEW s \in Sid, Close(s) \/ Expire(s)
      PROVE  TypeOK'
  BY <1>5 DEF Close, Expire, Forget, TypeOK, db
<1>6. ASSUME NEW r \in Request, NEW s \in Sid, BeginAbandon(r, s) \/ ResumeBegin(r, s)
      PROVE  TypeOK'
  <2>1. task' \in [Task -> Local]
    <3>1. /\ [Idle EXCEPT !.at = "abandon", !.sid = s] \in Local
          /\ [Idle EXCEPT !.at = "tx", !.sid = s] \in Local
      BY IdleType DEF Local, At
    <3> QED BY <1>6, <3>1 DEF BeginAbandon, ResumeBegin, TypeOK, Task
  <2> QED BY <1>6, <2>1 DEF BeginAbandon, ResumeBegin, TypeOK, db, memory
<1> QED BY <1>1, <1>2, <1>3, <1>4, <1>5, <1>6 DEF Agents

(* The garbage collector keeps the types. *)
LEMMA TypeGc ==
    ASSUME TypeOK, GcStep
    PROVE  TypeOK'
<1> USE DEF Task
<1>0. Gc \in Task /\ task[Gc] \in Local /\ task[Gc].batch \in SUBSET Sid /\ Idle \in Local
  BY DEF TypeOK, Local, Idle, At
<1>1. ASSUME NEW X \in SUBSET Sid, GcCollect(X) \/ GcSweep(X)
      PROVE  TypeOK'
  <2>1. task' \in [Task -> Local]
    <3>1. /\ [Idle EXCEPT !.at = "evict", !.batch = X] \in Local
          /\ [Idle EXCEPT !.at = "sweep", !.batch = X] \in Local
      BY IdleType DEF Local, At
    <3> QED BY <1>0, <1>1, <3>1 DEF GcCollect, GcSweep, TypeOK
  <2> QED BY <1>1, <2>1 DEF GcCollect, GcSweep, TypeOK, db, memory
<1>2. ASSUME NEW s \in Sid, GcLook(s)
      PROVE  TypeOK'
  <2> PICK failed \in {FALSE, DbMayFail} :
        task' = [task EXCEPT ![Gc] =
                    [@ EXCEPT !.at = "decide", !.back = "evict", !.sid = s,
                              !.batch = task[Gc].batch \ {s},
                              !.flag = failed \/ \E w \in RowOf(s) :
                                                     cs[w] \notin Terminal]]
    BY <1>2 DEF GcLook
  <2> DEFINE f == failed \/ \E w \in RowOf(s) : cs[w] \notin Terminal
             l == [task[Gc] EXCEPT !.at = "decide", !.back = "evict", !.sid = s,
                                   !.batch = @ \ {s}, !.flag = f]
  <2>1. f \in BOOLEAN
    BY LifecycleFlagAssumption
  <2>2. task' = [task EXCEPT ![Gc] = l]
    BY Zenon
  <2>3. l \in Local
    <3> HIDE DEF f
    <3> QED BY <1>0, <2>1 DEF Local, At
  <2>4. task' \in [Task -> Local]
    <3> HIDE DEF l
    <3> QED BY <1>0, <2>2, <2>3 DEF TypeOK
  <2> QED BY <1>2, <2>4 DEF GcLook, TypeOK, db, memory
<1>3. CASE GcDecide
  <2>1. task' \in [Task -> Local]
    <3>1. [task[Gc] EXCEPT !.at = "mark"] \in Local
      BY <1>0 DEF Local, At
    <3> QED BY <1>0, <1>3, <3>1, HelperTypes DEF GcDecide, TypeOK
  <2>2. live' \in [Sid -> Workspace \cup {NoWs}] /\ overlay' \in [Sid -> SUBSET Symbol]
    BY <1>0, <1>3, HelperTypes DEF GcDecide, TypeOK
  <2> QED BY <1>3, <2>1, <2>2 DEF GcDecide, TypeOK, db
<1>4. CASE GcRest
  BY <1>0, <1>4 DEF GcRest, TypeOK, db, memory
<1> QED BY <1>1, <1>2, <1>3, <1>4 DEF GcStep

(* Stranding keeps the types. *)
LEMMA TypeStrand ==
    ASSUME TypeOK, NEW t \in Task, StrandStep(t)
    PROVE  TypeOK'
<1>0. task[t] \in Local
  BY DEF TypeOK
<1>1. CASE StrandMark(t)
  <2>1. task' \in [Task -> Local]
    BY <1>0, <1>1 DEF StrandMark, TypeOK, Local, At
  <2> QED BY <1>1, <2>1 DEF StrandMark, RowOf, TypeOK, memory
<1>2. CASE StrandFree(t)
  <2>1. task' \in [Task -> Local]
    BY <1>0, <1>2 DEF StrandFree, TypeOK, Local, At
  <2>2. mgrLocks' \in Claims
    BY <1>2 DEF StrandFree, TypeOK, Claims, ReleaseLocks
  <2> QED BY <1>2, <2>1, <2>2 DEF StrandFree, TypeOK, db
<1>3. CASE StrandForget(t)
  BY <1>3, HelperTypes DEF StrandForget, TypeOK, db
<1>4. CASE StrandFails(t)
  <2>1. /\ live' \in [Sid -> Workspace \cup {NoWs}]
        /\ overlay' \in [Sid -> SUBSET Symbol]
    BY <1>4, HelperTypes DEF StrandFails, TypeOK
  <2> QED BY <1>4, <2>1, HelperTypes DEF StrandFails, TypeOK, db
<1> QED BY <1>1, <1>2, <1>3, <1>4 DEF StrandStep

(* Abandoning keeps the types. *)
LEMMA TypeAbandon ==
    ASSUME TypeOK, NEW t \in Task, AbandonStep(t)
    PROVE  TypeOK'
<1>0. task[t] \in Local /\ task[t].batch \in SUBSET Sid
  BY DEF TypeOK, Local
<1>1. ASSUME NEW s \in Sid, AbandonNot(t, s)
      PROVE  TypeOK'
  <2>1. [task[t] EXCEPT !.batch = task[t].batch \ {s}] \in Local
    BY <1>0 DEF Local
  <2>2. task' \in [Task -> Local]
    BY <1>1, <2>1, IdleType DEF AbandonNot, TypeOK
  <2> QED BY <1>1, <2>2 DEF AbandonNot, TypeOK, db, memory
<1>2. ASSUME NEW s \in Sid, NEW w \in Workspace, AbandonLook(t, s, w)
      PROVE  TypeOK'
  <2>1. \A b \in {"idle", "sweep"} :
          [task[t] EXCEPT !.at = "abandonTx", !.sid = s, !.ws = w,
                          !.batch = task[t].batch \ {s}, !.back = b] \in Local
    BY <1>0 DEF Local, At
  <2>2. task' \in [Task -> Local]
    BY <1>2, <2>1 DEF AbandonLook, TypeOK
  <2> QED BY <1>2, <2>2 DEF AbandonLook, TypeOK, db, memory
<1>3. CASE AbandonTx(t)
  <2>1. task' \in [Task -> Local]
    BY <1>0, <1>3 DEF AbandonTx, TypeOK, Local, At
  <2>2. cs' \in [Workspace -> State] /\ disk' \in [Workspace -> SUBSET Symbol]
    BY <1>3 DEF AbandonTx, TypeOK, State
  <2> QED BY <1>3, <2>1, <2>2 DEF AbandonTx, RowOf, TypeOK, memory
<1>4. CASE AbandonFails(t)
  BY <1>4, IdleType DEF AbandonFails, TypeOK, db, memory
<1>5. CASE AbandonFree(t)
  <2>1. task' \in [Task -> Local]
    BY <1>0, <1>5 DEF AbandonFree, TypeOK, Local, At
  <2>2. mgrLocks' \in Claims
    BY <1>5 DEF AbandonFree, TypeOK, Claims, ReleaseLocks
  <2> QED BY <1>5, <2>1, <2>2 DEF AbandonFree, TypeOK, db
<1>6. CASE AbandonForget(t)
  BY <1>6, HelperTypes DEF AbandonForget, TypeOK, db
<1> QED BY <1>1, <1>2, <1>3, <1>4, <1>5, <1>6 DEF AbandonStep

(* Resuming keeps the types. *)
LEMMA TypeResume ==
    ASSUME TypeOK, ResumeHasArgs, NEW r \in Request, ResumeStep(r)
    PROVE  TypeOK'
<1> USE DEF Task
<1>0. task[r] \in Local
  BY DEF TypeOK
<1>1. CASE ResumeRefused(r)
  BY <1>1, IdleType DEF ResumeRefused, TypeOK, db, memory
<1>2. ASSUME NEW w \in Workspace, NEW n \in Sid, ResumeRotate(r, w, n)
      PROVE  TypeOK'
  <2>1. task' \in [Task -> Local]
    BY <1>0, <1>2 DEF ResumeRotate, TypeOK, Local, At
  <2>2. /\ sid' \in [Workspace -> Sid \cup {NoSid}]
        /\ redirect' \in [Sid -> Sid \cup {NoSid}]
    BY <1>2 DEF ResumeRotate, TypeOK
  <2> QED BY <1>2, <2>1, <2>2 DEF ResumeRotate, Mint, TypeOK, memory
<1>3. CASE ResumeRestore(r)
  <2>2. disk[task[r].ws] \in SUBSET Symbol
    BY <1>3 DEF ResumeRestore, TypeOK, ResumeHasArgs
  <2>3. task' \in [Task -> Local]
    BY <1>0, <1>3, <2>2 DEF ResumeRestore, TypeOK, Local, At
  <2> QED BY <1>3, <2>3 DEF ResumeRestore, TypeOK, db, memory
<1>4. CASE ResumeRestoreFails(r)
  BY <1>4, IdleType DEF ResumeRestoreFails, RowOf, TypeOK, memory
<1>5. ASSUME NEW x \in Symbol, ResumeAcquire(r, x)
      PROVE  TypeOK'
  <2> DEFINE s == task[r].sid
             l == [task[r] EXCEPT
                     !.todo = @ \ {x},
                     !.got = IF CanAcquire(mgrLocks, x, s) THEN @ \cup {x} ELSE @,
                     !.flag = @ \/ ~CanAcquire(mgrLocks, x, s)]
  <2>1. l \in Local
    <3>1. CASE CanAcquire(mgrLocks, x, s)
      BY <1>0, <3>1 DEF Local
    <3>2. CASE ~CanAcquire(mgrLocks, x, s)
      BY <1>0, <3>2 DEF Local
    <3> QED BY <3>1, <3>2
  <2>2. task' = [task EXCEPT ![r] = l]
    BY <1>5 DEF ResumeAcquire
  <2>3. task' \in [Task -> Local]
    <3> HIDE DEF l
    <3> QED BY <2>1, <2>2 DEF TypeOK
  <2>4. s \in Sid
    BY <1>5 DEF ResumeAcquire, ResumeHasArgs, TypeOK
  <2>5. mgrLocks' \in Claims
    <3> HIDE DEF s
    <3> QED BY <1>5, <2>4, TrackerTypes DEF ResumeAcquire, TypeOK, s
  <2> QED BY <1>5, <2>3, <2>5 DEF ResumeAcquire, TypeOK, db
<1>6. CASE ResumeContended(r)
  <2>1. task' \in [Task -> Local]
    BY <1>0, <1>6 DEF ResumeContended, TypeOK, Local, At
  <2> QED BY <1>6, <2>1 DEF ResumeContended, TypeOK, db, memory
<1>7. ASSUME NEW x \in Symbol, ResumeUnwind(r, x)
      PROVE  TypeOK'
  <2>1. task' \in [Task -> Local]
    BY <1>0, <1>7 DEF ResumeUnwind, TypeOK, Local, At
  <2>2. mgrLocks' \in Claims
    BY <1>7 DEF ResumeUnwind, TypeOK, Claims, ReleaseLock
  <2> QED BY <1>7, <2>1, <2>2 DEF ResumeUnwind, TypeOK, db
<1>8. CASE ResumeInsert(r)
  <2>1. task[r].ws \in Workspace \cup {NoWs} /\ task[r].syms \in SUBSET Symbol
    BY <1>0 DEF Local
  <2> QED BY <1>8, <2>1, IdleType DEF ResumeInsert, TypeOK, db
<1> QED BY <1>1, <1>2, <1>3, <1>4, <1>5, <1>6, <1>7, <1>8 DEF ResumeStep

(* A crash, the reconciliation at the start and the sweep keep the types. *)
LEMMA TypeRestart ==
    ASSUME TypeOK, Crash \/ Boot
    PROVE  TypeOK'
<1>1. CASE Crash
  BY <1>1, IdleType, TrackerTypes DEF Crash, TypeOK, db, Claims, NoClaims
<1>2. CASE Boot
  BY <1>2 DEF Boot, Serve, Reconcile, TypeOK, db, memory
<1> QED BY <1>1, <1>2

(* Every step keeps the types. *)
LEMMA TypeStep == TypeOK /\ ResumeHasArgs /\ [Next]_vars => TypeOK'
<1> SUFFICES ASSUME TypeOK, ResumeHasArgs, [Next]_vars PROVE TypeOK'
  OBVIOUS
<1>1. CASE UNCHANGED vars
  BY <1>1 DEF TypeOK, vars, db, memory
<1>2. CASE Next
  BY <1>2, TypeAgents, TypeGc, TypeStrand, TypeAbandon, TypeResume, TypeRestart
  DEF Next
<1> QED BY <1>1, <1>2

-----------------------------------------------------------------------------
(***************************************************************************)
(* Ids and redirects                                                       *)
(***************************************************************************)

\* The task that moves, and the others.
LEMMA Moved ==
    ASSUME TypeOK, NEW t \in Task, NEW l, task' = [task EXCEPT ![t] = l]
    PROVE  task'[t] = l /\ \A u \in Task : u # t => task'[u] = task[u]
BY DEF TypeOK

\* A subroutine goes back to the collector's loop or ends the handler.
LEMMA BackEffect ==
    ASSUME TypeOK, NEW t \in Task, Back(t)
    PROVE  /\ task'[t].at \in {"idle", "evict", "sweep"}
           /\ task[t].back = "idle" => task'[t] = Idle
           /\ task'[t].batch = {} \/ task'[t].batch = task[t].batch
           /\ \A u \in Task : u # t => task'[u] = task[u]
<1>1. task[t].back \in {"idle", "evict", "sweep"}
  BY DEF TypeOK, Local
<1>2. CASE task[t].back = "idle"
  BY <1>2 DEF Back, TypeOK, Idle
<1>3. CASE task[t].back # "idle"
  BY <1>1, <1>3 DEF Back, TypeOK, Idle
<1> QED BY <1>2, <1>3

\* What garbage collection finds out about a changeset.
LEMMA LookEffect ==
    ASSUME TypeOK, NEW s \in Sid, GcLook(s)
    PROVE  /\ task'[Gc].at = "decide" /\ task'[Gc].sid = s
           /\ task'[Gc].batch = task[Gc].batch \ {s}
           /\ task'[Gc].flag \/ \A w \in RowOf(s) : cs[w] \in Terminal
           /\ \A u \in Task : u # Gc => task'[u] = task[u]
<1> PICK failed \in {FALSE, DbMayFail} :
      task' = [task EXCEPT ![Gc] =
                  [@ EXCEPT !.at = "decide", !.back = "evict", !.sid = s,
                            !.batch = task[Gc].batch \ {s},
                            !.flag = failed \/ \E w \in RowOf(s) :
                                                   cs[w] \notin Terminal]]
  BY DEF GcLook
<1> DEFINE f == failed \/ \E w \in RowOf(s) : cs[w] \notin Terminal
           l == [task[Gc] EXCEPT !.at = "decide", !.back = "evict", !.sid = s,
                                 !.batch = @ \ {s}, !.flag = f]
<1>1. task' = [task EXCEPT ![Gc] = l]
  BY Zenon
<1>2. /\ l.at = "decide" /\ l.sid = s /\ l.batch = task[Gc].batch \ {s} /\ l.flag = f
  <2> HIDE DEF f
  <2> QED BY DEF TypeOK, Local, Task
<1>3. task'[Gc] = l /\ \A u \in Task : u # Gc => task'[u] = task[u]
  <2> HIDE DEF l
  <2> QED BY <1>1 DEF TypeOK, Task
<1>4. f \/ \A w \in RowOf(s) : cs[w] \in Terminal
  OBVIOUS
<1> HIDE DEF f, l
<1>5. l.flag \/ \A w \in RowOf(s) : cs[w] \in Terminal
  BY <1>2, <1>4
<1> QED BY <1>2, <1>3, <1>5

\* One acquisition of a resume.
LEMMA AcquireEffect ==
    ASSUME TypeOK, NEW r \in Request, NEW x \in Symbol, ResumeAcquire(r, x)
    PROVE  /\ task[r].at = "acquire" /\ x \in task[r].todo
           /\ UNCHANGED <<db, used, live, overlay, registered, locks, phase, crashes>>
           /\ \A u \in Task : u # r => task'[u] = task[u]
           /\ task'[r].at = "acquire" /\ task'[r].back = task[r].back
           /\ task'[r].sid = task[r].sid /\ task'[r].ws = task[r].ws
           /\ task'[r].syms = task[r].syms /\ task'[r].todo = task[r].todo \ {x}
           /\ CanAcquire(mgrLocks, x, task[r].sid) =>
                 task'[r].got = task[r].got \cup {x} /\ task'[r].flag = task[r].flag
           /\ ~CanAcquire(mgrLocks, x, task[r].sid) =>
                 task'[r].got = task[r].got /\ task'[r].flag
<1> DEFINE s == task[r].sid
           l == [task[r] EXCEPT
                   !.todo = @ \ {x},
                   !.got = IF CanAcquire(mgrLocks, x, s) THEN @ \cup {x} ELSE @,
                   !.flag = @ \/ ~CanAcquire(mgrLocks, x, s)]
<1>1. task' = [task EXCEPT ![r] = l]
  BY DEF ResumeAcquire
<1>2. task[r] \in Local /\ task[r].at = "acquire"
  BY DEF TypeOK, Task, ResumeAcquire
<1>3. /\ l.at = "acquire" /\ l.back = task[r].back /\ l.sid = s /\ l.ws = task[r].ws
      /\ l.syms = task[r].syms /\ l.todo = task[r].todo \ {x}
      /\ l.got = (IF CanAcquire(mgrLocks, x, s) THEN task[r].got \cup {x}
                                               ELSE task[r].got)
  BY <1>2 DEF Local
<1>4. l.flag = (task[r].flag \/ ~CanAcquire(mgrLocks, x, s))
  BY <1>2 DEF Local
<1>5. task'[r] = l /\ \A u \in Task : u # r => task'[u] = task[u]
  <2> HIDE DEF l
  <2> QED BY <1>1 DEF TypeOK, Task
<1>6. task[r].flag \in BOOLEAN
  BY <1>2 DEF Local
<1> HIDE DEF l
<1> QED BY <1>3, <1>4, <1>5, <1>6 DEF ResumeAcquire

\* The other steps of a resume, up to the rehydration.
LEMMA RotateEffect ==
    ASSUME TypeOK, NEW r \in Request, NEW w \in Workspace, NEW n \in Sid, ResumeRotate(r, w, n)
    PROVE  /\ task[r].at = "tx" /\ w \in RowOf(task[r].sid) /\ Resumable(w)
           /\ n \notin used /\ used' = used \cup {n}
           /\ \A u \in Task : u # r => task'[u] = task[u]
           /\ task'[r].at = "restore" /\ task'[r].back = task[r].back
           /\ task'[r].sid = n /\ task'[r].ws = w
           /\ task'[r].syms = task[r].syms /\ task'[r].todo = task[r].todo
           /\ task'[r].got = task[r].got /\ task'[r].flag = task[r].flag
<1>1. r \in Task /\ task[r] \in Local
  BY DEF Task, TypeOK
<1> QED BY <1>1 DEF ResumeRotate, Mint, TypeOK, Local

\* The overlay is read.
LEMMA RestoreEffect ==
    ASSUME TypeOK, NEW r \in Request, ResumeRestore(r)
    PROVE  /\ task[r].at = "restore"
           /\ UNCHANGED <<db, used, memory, phase, crashes>>
           /\ \A u \in Task : u # r => task'[u] = task[u]
           /\ task'[r].at = "acquire" /\ task'[r].back = task[r].back
           /\ task'[r].sid = task[r].sid /\ task'[r].ws = task[r].ws
           /\ task'[r].syms = disk[task[r].ws]
           /\ task'[r].todo = disk[task[r].ws]
           /\ task'[r].got = task[r].got /\ task'[r].flag = task[r].flag
<1>1. r \in Task /\ task[r] \in Local
  BY DEF Task, TypeOK
<1> QED BY <1>1 DEF ResumeRestore, TypeOK, Local

\* A contended resume turns back.
LEMMA ContendedEffect ==
    ASSUME TypeOK, NEW r \in Request, ResumeContended(r)
    PROVE  /\ task[r].at = "acquire" /\ task[r].todo = {} /\ task[r].flag
           /\ UNCHANGED <<db, used, memory, phase, crashes>>
           /\ \A u \in Task : u # r => task'[u] = task[u]
           /\ task'[r].at = (IF task[r].got = {} THEN "mark" ELSE "unwind")
           /\ task'[r].back = task[r].back /\ task'[r].sid = task[r].sid
           /\ task'[r].ws = task[r].ws /\ task'[r].syms = task[r].syms
           /\ task'[r].todo = task[r].todo /\ task'[r].got = task[r].got
           /\ task'[r].flag = task[r].flag
<1>1. r \in Task /\ task[r] \in Local
  BY DEF Task, TypeOK
<1> QED BY <1>1 DEF ResumeContended, TypeOK, Local

\* One lock goes back.
LEMMA UnwindEffect ==
    ASSUME TypeOK, NEW r \in Request, NEW x \in Symbol, ResumeUnwind(r, x)
    PROVE  /\ task[r].at = "unwind" /\ x \in task[r].got
           /\ UNCHANGED <<db, used, live, overlay, registered, locks, phase, crashes>>
           /\ \A u \in Task : u # r => task'[u] = task[u]
           /\ task'[r].at = (IF task[r].got = {x} THEN "mark" ELSE "unwind")
           /\ task'[r].back = task[r].back /\ task'[r].sid = task[r].sid
           /\ task'[r].ws = task[r].ws /\ task'[r].syms = task[r].syms
           /\ task'[r].todo = task[r].todo
           /\ task'[r].got = task[r].got \ {x}
           /\ task'[r].flag = task[r].flag
<1>1. r \in Task /\ task[r] \in Local
  BY DEF Task, TypeOK
<1> QED BY <1>1 DEF ResumeUnwind, TypeOK, Local

(* Every step leaves a resume with an id that was handed out. *)
LEMMA ArgsStep ==
    ASSUME TypeOK, IdsAreUsed, ResumeHasArgs, [Next]_vars
    PROVE  ResumeHasArgs'
<1> USE GcAssumption DEF Task
<1>1. CASE UNCHANGED vars
  BY <1>1 DEF vars, ResumeHasArgs
<1>2. CASE Agents
  <2>1. ASSUME NEW r \in Request, NEW s \in Sid, BeginAbandon(r, s) \/ ResumeBegin(r, s)
        PROVE  ResumeHasArgs'
    <3>1. CASE BeginAbandon(r, s)
      BY <3>1 DEF BeginAbandon, TypeOK, ResumeHasArgs, Idle, db, memory
    <3>2. CASE ResumeBegin(r, s)
      BY <3>2 DEF ResumeBegin, TypeOK, ResumeHasArgs, Idle, db, memory
    <3> QED BY <2>1, <3>1, <3>2
  <2>2. ASSUME NEW w \in Workspace, NEW s \in Sid, Connect(w, s)
        PROVE  ResumeHasArgs'
    BY <2>2 DEF Connect, Mint, ResumeHasArgs
  <2> QED BY <1>2, <2>1, <2>2
      DEF Agents, Write, Verify, Submit, Merge, Close, Expire, ResumeHasArgs
<1>3. CASE GcStep
  <2>1. UNCHANGED used
    BY <1>3 DEF GcStep, GcCollect, GcSweep, GcLook, GcDecide, GcRest
  <2>2. ASSUME NEW s \in Sid, GcLook(s)
        PROVE  \A r \in Request : task'[r] = task[r]
    BY <2>2, LookEffect
  <2>3. ASSUME GcDecide
        PROVE  \A r \in Request : task'[r] = task[r]
    BY <2>3, BackEffect DEF GcDecide, TypeOK
  <2>4. \A r \in Request : task'[r] = task[r]
    BY <1>3, <2>2, <2>3 DEF GcStep, GcCollect, GcSweep, GcRest, TypeOK
  <2> QED BY <2>1, <2>4 DEF ResumeHasArgs
<1>4. ASSUME NEW t \in Task, StrandStep(t)
      PROVE  ResumeHasArgs'
  <2> DEFINE Leaves == /\ UNCHANGED used
                       /\ \A u \in Task : u # t => task'[u] = task[u]
                       /\ task'[t].at \notin {"tx", "restore", "acquire"}
  <2>1. Leaves
    <3>1. ASSUME StrandMark(t) \/ StrandFree(t)
          PROVE  Leaves
      BY <3>1 DEF StrandMark, StrandFree, TypeOK, Local
    <3>2. ASSUME StrandForget(t) \/ StrandFails(t)
          PROVE  Leaves
      BY <3>2, BackEffect DEF StrandForget, StrandFails
    <3> QED BY <1>4, <3>1, <3>2 DEF StrandStep
  <2> QED BY <2>1 DEF ResumeHasArgs
<1>5. ASSUME NEW t \in Task, AbandonStep(t)
      PROVE  ResumeHasArgs'
  <2> DEFINE Leaves == /\ UNCHANGED used
                       /\ \A u \in Task : u # t => task'[u] = task[u]
                       /\ task'[t].at \notin {"tx", "restore", "acquire"}
  <2>1. Leaves
    <3>1. ASSUME NEW s \in Sid, AbandonNot(t, s)
          PROVE  Leaves
      BY <3>1 DEF AbandonNot, Abandoning, TypeOK, Local, Idle
    <3>2. ASSUME NEW s \in Sid, NEW w \in Workspace, AbandonLook(t, s, w)
          PROVE  Leaves
      BY <3>2 DEF AbandonLook, TypeOK, Local
    <3>3. CASE AbandonTx(t) \/ AbandonFails(t) \/ AbandonFree(t)
      BY <3>3 DEF AbandonTx, AbandonFails, AbandonFree, TypeOK, Local, Idle
    <3>4. CASE AbandonForget(t)
      BY <3>4, BackEffect DEF AbandonForget
    <3> QED BY <1>5, <3>1, <3>2, <3>3, <3>4 DEF AbandonStep
  <2> QED BY <2>1 DEF ResumeHasArgs
<1>6. ASSUME NEW r \in Request, ResumeStep(r)
      PROVE  ResumeHasArgs'
  <2>1. ASSUME NEW w \in Workspace, NEW n \in Sid, ResumeRotate(r, w, n)
        PROVE  ResumeHasArgs'
    BY <2>1, RotateEffect DEF ResumeHasArgs
  <2>2. CASE ResumeRestore(r)
    BY <2>2, RestoreEffect DEF ResumeHasArgs
  <2>3. ASSUME NEW x \in Symbol, ResumeAcquire(r, x) \/ ResumeUnwind(r, x)
        PROVE  ResumeHasArgs'
    <3>1. CASE ResumeAcquire(r, x)
      BY <3>1, AcquireEffect DEF ResumeHasArgs
    <3>2. CASE ResumeUnwind(r, x)
      BY <3>2, UnwindEffect DEF ResumeHasArgs
    <3> QED BY <2>3, <3>1, <3>2
  <2>4. CASE ResumeRefused(r) \/ ResumeRestoreFails(r) \/ ResumeInsert(r)
    BY <2>4 DEF ResumeRefused, ResumeRestoreFails, ResumeInsert, TypeOK,
                ResumeHasArgs, Idle
  <2>5. CASE ResumeContended(r)
    BY <2>5, ContendedEffect DEF ResumeHasArgs
  <2> QED BY <1>6, <2>1, <2>2, <2>3, <2>4, <2>5 DEF ResumeStep
<1>7. CASE Crash \/ Boot
  BY <1>7 DEF Crash, Boot, Serve, Reconcile, ResumeHasArgs, Idle
<1> QED BY <1>1, <1>2, <1>3, <1>4, <1>5, <1>6, <1>7 DEF Next

\* Only CONNECT and the transaction of a resume hand out ids, give a row
\* another one or write a redirect.
LEMMA WhoChangesIds ==
    ASSUME [Next]_vars
    PROVE  \/ \E w \in Workspace, s \in Sid : Connect(w, s)
           \/ \E r \in Request, w \in Workspace, n \in Sid : ResumeRotate(r, w, n)
           \/ UNCHANGED <<sid, redirect, used>>
<1>1. Agents => \/ \E w \in Workspace, s \in Sid : Connect(w, s)
                \/ UNCHANGED <<sid, redirect, used>>
  BY DEF Agents, Write, Verify, Submit, Merge, Close, Expire, BeginAbandon,
         ResumeBegin, db
<1>2. GcStep => UNCHANGED <<sid, redirect, used>>
  BY DEF GcStep, GcCollect, GcSweep, GcLook, GcDecide, GcRest, db
<1>3. \A t \in Task : StrandStep(t) => UNCHANGED <<sid, redirect, used>>
  BY DEF StrandStep, StrandMark, StrandFree, StrandForget, StrandFails, db
<1>4. \A t \in Task : AbandonStep(t) => UNCHANGED <<sid, redirect, used>>
  BY DEF AbandonStep, AbandonNot, AbandonLook, AbandonTx, AbandonFails,
         AbandonFree, AbandonForget, db
<1>5. \A r \in Request : ResumeStep(r) =>
        \/ \E w \in Workspace, n \in Sid : ResumeRotate(r, w, n)
        \/ UNCHANGED <<sid, redirect, used>>
  BY DEF ResumeStep, ResumeRefused, ResumeRestore, ResumeRestoreFails,
         ResumeAcquire, ResumeUnwind, ResumeContended, ResumeInsert, db
<1>6. Crash \/ Boot => UNCHANGED <<sid, redirect, used>>
  BY DEF Crash, Boot, Serve, Reconcile, db
<1>7. UNCHANGED vars => UNCHANGED <<sid, redirect, used>>
  BY DEF vars, db
<1> QED BY <1>1, <1>2, <1>3, <1>4, <1>5, <1>6, <1>7 DEF Next

(* At the start no id was handed out. *)
LEMMA IdInit == Init => IdInv
BY TypeInit DEF Init, IdInv, IdsAreUsed, ResumeHasArgs, DeadStaysDead,
                RedirectLeadsHome, Idle, Task

\* CONNECT gives a fresh id to a row that never had one.
LEMMA IdConnect ==
    ASSUME IdInv, NEW w \in Workspace, NEW s \in Sid, Connect(w, s)
    PROVE  IdsAreUsed' /\ DeadStaysDead' /\ RedirectLeadsHome'
<1> USE NoSidAssumption DEF IdInv
<1>1. /\ sid[w] = NoSid /\ sid'[w] = s /\ redirect' = redirect
      /\ s \notin used /\ used' = used \cup {s}
      /\ \A v \in Workspace : v # w => sid'[v] = sid[v]
  BY DEF Connect, Mint, TypeOK
<1>2. IdsAreUsed'
  BY <1>1 DEF IdsAreUsed
<1>3. DeadStaysDead'
  BY <1>1 DEF DeadStaysDead, IdsAreUsed
<1>4. RedirectLeadsHome'
  <2> SUFFICES ASSUME NEW d \in Sid, redirect[d] # NoSid,
                      redirect[redirect[d]] = NoSid
               PROVE  \E v \in Workspace : sid'[v] = redirect[d]
    BY <1>1 DEF RedirectLeadsHome, RowOf
  <2>1. PICK v \in Workspace : sid[v] = redirect[d]
    BY DEF RedirectLeadsHome, RowOf
  <2> QED BY <1>1, <2>1
<1> QED BY <1>2, <1>3, <1>4

\* A resume leaves a redirect from the id the row had to the fresh one.
LEMMA IdRotate ==
    ASSUME IdInv, NEW r \in Request, NEW w \in Workspace, NEW n \in Sid,
           ResumeRotate(r, w, n)
    PROVE  IdsAreUsed' /\ DeadStaysDead' /\ RedirectLeadsHome'
<1> DEFINE d == task[r].sid
<1> USE NoSidAssumption DEF IdInv
<1>0. d \in used /\ d \in Sid /\ sid[w] = d
  BY DEF ResumeRotate, RowOf, TypeOK, ResumeHasArgs
<1>1. /\ d \in used /\ d \in Sid /\ sid[w] = d /\ sid'[w] = n
      /\ n \notin used /\ used' = used \cup {n}
      /\ \A v \in Workspace : v # w => sid'[v] = sid[v]
      /\ redirect'[d] = n
      /\ \A s \in Sid : s # d => redirect'[s] = redirect[s]
  <2>1. redirect' = [redirect EXCEPT ![d] = n] /\ sid' = [sid EXCEPT ![w] = n]
    BY DEF ResumeRotate
  <2>2. n \notin used /\ used' = used \cup {n}
    BY DEF ResumeRotate, Mint
  <2> HIDE DEF d
  <2>3. redirect \in [Sid -> Sid \cup {NoSid}] /\ sid \in [Workspace -> Sid \cup {NoSid}]
    BY DEF TypeOK
  <2>4. redirect'[d] = n /\ \A s \in Sid : s # d => redirect'[s] = redirect[s]
    BY <1>0, <2>1, <2>3
  <2>5. sid'[w] = n /\ \A v \in Workspace : v # w => sid'[v] = sid[v]
    BY <1>0, <2>1, <2>3
  <2> QED BY <1>0, <2>2, <2>4, <2>5
<1> HIDE DEF d
<1>2. \A v \in Workspace : v # w => sid[v] # d
  BY <1>1 DEF DeadStaysDead
<1>3. redirect[n] = NoSid /\ redirect[d] = NoSid
  BY <1>1 DEF IdsAreUsed, DeadStaysDead
<1>4. IdsAreUsed'
  BY <1>1 DEF IdsAreUsed
<1>5. DeadStaysDead'
  <2>1. \A v \in Workspace : sid[v] \in Sid \cup {NoSid}
    BY DEF TypeOK
  <2>2. \A v \in Workspace : sid[v] = n => FALSE
    BY <1>1 DEF IdsAreUsed
  <2> QED BY <1>1, <1>2, <1>3, <2>1, <2>2 DEF DeadStaysDead
<1>6. RedirectLeadsHome'
  <2> SUFFICES ASSUME NEW e \in Sid, redirect'[e] # NoSid,
                      redirect'[redirect'[e]] = NoSid
               PROVE  \E v \in Workspace : sid'[v] = redirect'[e]
    BY DEF RedirectLeadsHome, RowOf
  <2>1. CASE e = d
    BY <1>1, <2>1
  <2>2. CASE e # d
    <3>1. redirect[e] \in Sid /\ redirect[e] = redirect'[e] /\ redirect[e] # d
      BY <1>1, <2>2 DEF TypeOK
    <3>2. redirect[redirect[e]] = NoSid
      BY <1>1, <3>1
    <3>3. PICK v \in Workspace : sid[v] = redirect[e]
      BY <3>1, <3>2 DEF RedirectLeadsHome, RowOf
    <3> QED BY <1>1, <3>1, <3>3
  <2> QED BY <2>1, <2>2
<1> QED BY <1>4, <1>5, <1>6

(* Every step keeps the invariant of ids and redirects. *)
LEMMA IdStep == IdInv /\ [Next]_vars => IdInv'
<1> SUFFICES ASSUME IdInv, [Next]_vars PROVE IdInv'
  OBVIOUS
<1>1. TypeOK' /\ ResumeHasArgs'
  BY TypeStep, ArgsStep DEF IdInv
<1>2. IdsAreUsed' /\ DeadStaysDead' /\ RedirectLeadsHome'
  <2>1. CASE UNCHANGED <<sid, redirect, used>>
    BY <2>1 DEF IdInv, IdsAreUsed, DeadStaysDead, RedirectLeadsHome, RowOf
  <2> QED BY <2>1, WhoChangesIds, IdConnect, IdRotate
<1> QED BY <1>1, <1>2 DEF IdInv

(* No two rows share an id, an id that was redirected is no row's, and a
   redirect leads on or home, in every behaviour, with the pin rule on or off. *)
THEOREM IdsHold == Spec => []IdInv
BY IdInit, IdStep, PTL DEF Spec

\* No redirect is ever left dangling, whatever crashes, fails or is contended,
\* with the pin rule on or off (resume's early redirect check follows it).
THEOREM RedirectsLeadHome == Spec => []RedirectLeadsHome
<1>1. IdInv => RedirectLeadsHome
  BY DEF IdInv
<1> QED BY IdsHold, <1>1, PTL

-----------------------------------------------------------------------------
(***************************************************************************)
(* Rows and what is in memory                                              *)
(***************************************************************************)

\* A task goes on where it is, or leaves.
Keeps(t) ==
    /\ task'[t].at \in {"restore", "acquire", "unwind", "mark"} =>
          Rehydrating(t) /\ task'[t].sid = task[t].sid /\ task'[t].ws = task[t].ws
    /\ task'[t].at \in {"free", "forget"} =>
          (Rehydrating(t) \/ Departing(t)) /\ task'[t].sid = task[t].sid
    /\ task'[t].at \in {"abandonTx", "abandonFree", "abandonForget"} =>
          /\ Removing(t) /\ task'[t].sid = task[t].sid
          /\ task'[t].at = "abandonTx" =>
                task[t].at = "abandonTx" /\ task'[t].ws = task[t].ws

\* Nothing comes to memory.
Empties == \A s \in Sid : live'[s] = live[s] \/ live'[s] = NoWs

rows == <<sid, stranded, abandoned, cs, disk, used>>

Calm == UNCHANGED rows /\ Empties /\ \A t \in Task : Keeps(t)

RowParts ==
    FreshRows /\ RehydrationIsAlone /\ RemovalIsOfStranded /\ LiveIsCurrent
      /\ AbandonedIsDead

\* A task that does not move keeps its place.
LEMMA KeepsSame ==
    ASSUME NEW t, task'[t] = task[t]
    PROVE  Keeps(t)
BY DEF Keeps, Rehydrating, Departing, Removing

(* After a calm step a resume still has its row to itself, and an abandonment a
   stranded row. *)
LEMMA TasksCalm ==
    ASSUME RowParts, sid' = sid, used' = used, Empties, \A t \in Task : Keeps(t),
           stranded' \cup abandoned' = stranded \cup abandoned,
           stranded \subseteq stranded', IdInv
    PROVE  RehydrationIsAlone' /\ RemovalIsOfStranded'
<1> USE DEF Task
<1>1. \A s \in used : live[s] = NoWs => live'[s] = NoWs
  BY DEF Empties, IdInv, TypeOK
<1>2. RehydrationIsAlone'
  BY <1>1 DEF RowParts, RehydrationIsAlone, Keeps, Rehydrating, Departing
<1>3. RemovalIsOfStranded'
  BY DEF RowParts, RemovalIsOfStranded, Keeps, Removing, RowOf
<1> QED BY <1>2, <1>3

(* A calm step keeps what is known of the rows. *)
LEMMA CalmStep ==
    ASSUME IdInv, RowParts, Calm
    PROVE  RowParts'
<1>1. RehydrationIsAlone' /\ RemovalIsOfStranded'
  BY TasksCalm DEF Calm, rows
<1>2. FreshRows' /\ AbandonedIsDead'
  BY DEF Calm, rows, RowParts, FreshRows, AbandonedIsDead
<1>3. LiveIsCurrent'
  BY DEF Calm, rows, Empties, RowParts, LiveIsCurrent
<1> QED BY <1>1, <1>2, <1>3 DEF RowParts

\* What Forget does to the memory.
LEMMA ForgetEmpties ==
    ASSUME TypeOK, NEW s, Forget(s)
    PROVE  Empties
BY DEF Forget, TypeOK, Empties

\* The subroutines' ends leave every place.
LEMMA BackKeeps ==
    ASSUME TypeOK, NEW t \in Task, Back(t)
    PROVE  \A u \in Task : Keeps(u)
BY BackEffect DEF Keeps, Rehydrating, Departing, Removing

(* The garbage collector is calm while the pin rule is on. *)
LEMMA CalmGc ==
    ASSUME PinFlag, TypeOK, GcStep
    PROVE  Calm
<1> Gc \in Task
  BY DEF Task
<1>1. UNCHANGED rows
  BY DEF GcStep, GcCollect, GcSweep, GcLook, GcDecide, GcRest, db, rows
<1>2. Empties
  <2>1. ASSUME GcDecide PROVE Empties
    BY <2>1, ForgetEmpties DEF GcDecide, Empties
  <2> QED BY <2>1 DEF GcStep, GcCollect, GcSweep, GcLook, GcRest, memory, Empties
<1>3. \A t \in Task : Keeps(t)
  <2>1. ASSUME NEW s \in Sid, GcLook(s)
        PROVE  \A t \in Task : Keeps(t)
    BY <2>1, LookEffect DEF Keeps, Rehydrating, Departing, Removing
  <2>2. ASSUME GcDecide
        PROVE  \A t \in Task : Keeps(t)
    BY <2>2, BackKeeps DEF GcDecide
  <2>3. ASSUME NEW X \in SUBSET Sid, GcCollect(X) \/ GcSweep(X)
        PROVE  \A t \in Task : Keeps(t)
    <3>1. task'[Gc].at \in {"evict", "sweep"} /\ \A u \in Task : u # Gc => task'[u] = task[u]
      BY <2>3 DEF GcCollect, GcSweep, TypeOK, Idle
    <3> QED BY <3>1 DEF Keeps, Rehydrating, Departing, Removing
  <2>4. ASSUME GcRest
        PROVE  \A t \in Task : Keeps(t)
    <3>1. task'[Gc].at = "idle" /\ \A u \in Task : u # Gc => task'[u] = task[u]
      BY <2>4 DEF GcRest, TypeOK, Idle
    <3> QED BY <3>1 DEF Keeps, Rehydrating, Departing, Removing
  <2> QED BY <2>1, <2>2, <2>3, <2>4 DEF GcStep
<1> QED BY <1>1, <1>2, <1>3 DEF Calm

\* The steps of strand but the mark.
LEMMA CalmStrand ==
    ASSUME TypeOK, NEW t \in Task, StrandFree(t) \/ StrandForget(t) \/ StrandFails(t)
    PROVE  Calm
<1>1. UNCHANGED rows
  BY DEF StrandFree, StrandForget, StrandFails, db, rows
<1>2. Empties
  BY ForgetEmpties DEF StrandFree, StrandForget, StrandFails, Empties
<1>3. \A u \in Task : Keeps(u)
  <2>1. ASSUME StrandFree(t)
        PROVE  \A u \in Task : Keeps(u)
    <3>1. /\ task[t].at = "free" /\ task'[t].at = "forget" /\ task'[t].sid = task[t].sid
          /\ \A u \in Task : u # t => task'[u] = task[u]
      BY <2>1 DEF StrandFree, TypeOK, Local
    <3> QED BY <3>1 DEF Keeps, Rehydrating, Departing, Removing
  <2> QED BY <2>1, BackKeeps DEF StrandForget, StrandFails
<1> QED BY <1>1, <1>2, <1>3 DEF Calm

\* The steps of abandon_stranded but the look-up and the transaction.
LEMMA CalmAbandon ==
    ASSUME TypeOK, NEW t \in Task,
           \/ \E s \in Sid : AbandonNot(t, s)
           \/ AbandonFails(t) \/ AbandonFree(t) \/ AbandonForget(t)
    PROVE  Calm
<1>1. UNCHANGED rows
  BY DEF AbandonNot, AbandonFails, AbandonFree, AbandonForget, db, rows
<1>2. Empties
  BY ForgetEmpties DEF AbandonNot, AbandonFails, AbandonFree, AbandonForget,
                       memory, Empties
<1>3. \A u \in Task : Keeps(u)
  <2>1. ASSUME NEW s \in Sid, AbandonNot(t, s)
        PROVE  \A u \in Task : Keeps(u)
    <3>1. /\ task'[t].at \in {"sweep", "abandon", "idle"}
          /\ \A u \in Task : u # t => task'[u] = task[u]
      BY <2>1 DEF AbandonNot, Abandoning, TypeOK, Local, Idle
    <3> QED BY <3>1 DEF Keeps, Rehydrating, Departing, Removing
  <2>2. ASSUME AbandonFails(t) \/ AbandonFree(t)
        PROVE  \A u \in Task : Keeps(u)
    <3>1. /\ \/ task'[t].at = "idle"
             \/ /\ task[t].at = "abandonFree" /\ task'[t].at = "abandonForget"
                /\ task'[t].sid = task[t].sid
          /\ \A u \in Task : u # t => task'[u] = task[u]
      BY <2>2 DEF AbandonFails, AbandonFree, TypeOK, Local, Idle
    <3> QED BY <3>1 DEF Keeps, Rehydrating, Departing, Removing
  <2> QED BY <2>1, <2>2, BackKeeps DEF AbandonForget
<1> QED BY <1>1, <1>2, <1>3 DEF Calm

\* The steps of a resume between its transaction and its end.
LEMMA CalmResume ==
    ASSUME TypeOK, NEW r \in Request,
           \/ ResumeRefused(r) \/ ResumeRestore(r) \/ ResumeContended(r)
           \/ \E x \in Symbol : ResumeAcquire(r, x) \/ ResumeUnwind(r, x)
    PROVE  Calm
<1> r \in Task
  BY DEF Task
<1> USE DEF Calm, rows, Empties, Keeps, Rehydrating, Departing, Removing
<1>1. CASE ResumeRefused(r)
  <2>1. task'[r].at = "idle" /\ \A u \in Task : u # r => task'[u] = task[u]
    BY <1>1 DEF ResumeRefused, TypeOK, Idle
  <2> QED BY <1>1, <2>1 DEF ResumeRefused, db, memory
<1>2. CASE ResumeRestore(r)
  BY <1>2, RestoreEffect DEF db, memory
<1>3. CASE ResumeContended(r)
  BY <1>3, ContendedEffect DEF db, memory
<1>4. ASSUME NEW x \in Symbol, ResumeAcquire(r, x)
      PROVE  Calm
  BY <1>4, AcquireEffect DEF db
<1>5. ASSUME NEW x \in Symbol, ResumeUnwind(r, x)
      PROVE  Calm
  BY <1>5, UnwindEffect DEF db
<1> QED BY <1>1, <1>2, <1>3, <1>4, <1>5

\* The end of a session.
LEMMA CalmSessions ==
    ASSUME TypeOK, NEW s \in Sid, Close(s) \/ Expire(s)
    PROVE  Calm
BY KeepsSame, ForgetEmpties DEF Close, Expire, Calm, rows, db, Empties

\* The beginnings of ABANDON and of a resume.
LEMMA CalmAgents ==
    ASSUME TypeOK, NEW r \in Request, NEW s \in Sid,
           BeginAbandon(r, s) \/ ResumeBegin(r, s)
    PROVE  Calm
<1> r \in Task
  BY DEF Task
<1>1. /\ task'[r].at \in {"abandon", "tx"}
      /\ \A u \in Task : u # r => task'[u] = task[u]
  BY DEF BeginAbandon, ResumeBegin, TypeOK, Idle
<1>2. \A u \in Task : Keeps(u)
  BY <1>1 DEF Keeps, Rehydrating, Departing, Removing
<1> QED BY <1>2 DEF BeginAbandon, ResumeBegin, Calm, rows, db, memory, Empties

\* A crash, and the start of the server.
LEMMA CalmRestart ==
    ASSUME TypeOK, Crash \/ Serve \/ UNCHANGED vars
    PROVE  Calm
<1>1. CASE Crash
  BY <1>1 DEF Crash, Calm, rows, db, Empties, Keeps, Idle
<1>2. CASE Serve \/ UNCHANGED vars
  BY <1>2, KeepsSame DEF Serve, vars, Calm, rows, db, memory, Empties
<1> QED BY <1>1, <1>2

\* The garbage collector and the requests stay with their steps.
LEMMA StationsStep ==
    ASSUME PinFlag, TypeOK, Stations, [Next]_vars
    PROVE  Stations'
<1> USE GcAssumption DEF Task
<1> DEFINE Others(t) == \A u \in Task : u # t => task'[u] = task[u]
<1>1. CASE UNCHANGED vars \/ Boot
  BY <1>1 DEF vars, Boot, Serve, Reconcile, Stations
<1>2. CASE Crash
  BY <1>2 DEF Crash, Stations, GcSteps, Idle
<1>3. CASE Agents
  <2>1. ASSUME NEW r \in Request, NEW s \in Sid, BeginAbandon(r, s) \/ ResumeBegin(r, s)
        PROVE  Stations'
    <3>1. task'[r].at \in {"abandon", "tx"} /\ task'[r].back = "idle" /\ Others(r)
      <4>1. CASE BeginAbandon(r, s)
        BY <4>1 DEF BeginAbandon, TypeOK, Idle
      <4>2. CASE ResumeBegin(r, s)
        BY <4>2 DEF ResumeBegin, TypeOK, Idle
      <4> QED BY <2>1, <4>1, <4>2
    <3> QED BY <3>1 DEF Stations
  <2> QED BY <1>3, <2>1
      DEF Agents, Connect, Write, Verify, Submit, Merge, Close, Expire, Stations
<1>4. CASE GcStep
  <2>1. task'[Gc].at \in GcSteps
    <3>1. ASSUME NEW X \in SUBSET Sid, GcCollect(X) \/ GcSweep(X)
          PROVE  task'[Gc].at \in GcSteps
      BY <3>1 DEF GcCollect, GcSweep, TypeOK, Idle, GcSteps
    <3>2. ASSUME NEW s \in Sid, GcLook(s)
          PROVE  task'[Gc].at \in GcSteps
      BY <3>2, LookEffect DEF GcSteps
    <3>3. ASSUME GcDecide
          PROVE  task'[Gc].at \in GcSteps
      BY <3>3, BackEffect DEF GcDecide, GcSteps
    <3>4. ASSUME GcRest
          PROVE  task'[Gc].at \in GcSteps
      BY <3>4 DEF GcRest, TypeOK, Idle, GcSteps
    <3> QED BY <1>4, <3>1, <3>2, <3>3, <3>4 DEF GcStep
  <2>2. Others(Gc)
    <3>1. ASSUME NEW s \in Sid, GcLook(s) PROVE Others(Gc)
      BY <3>1, LookEffect
    <3>2. ASSUME GcDecide PROVE Others(Gc)
      BY <3>2, BackEffect DEF GcDecide
    <3> QED BY <1>4, <3>1, <3>2 DEF GcStep, GcCollect, GcSweep, GcRest, TypeOK
  <2> QED BY <2>1, <2>2 DEF Stations
<1>5. ASSUME NEW t \in Task, StrandStep(t)
      PROVE  Stations'
  <2>1. t \in Request
    BY <1>5 DEF StrandStep, StrandMark, StrandFree, StrandForget, StrandFails,
                Stations, GcSteps
  <2>2. CASE StrandMark(t) \/ StrandFree(t)
    <3>1. /\ task'[t].at \in {"free", "forget"} /\ task'[t].back = task[t].back
          /\ Others(t)
      BY <2>2 DEF StrandMark, StrandFree, TypeOK, Local
    <3> QED BY <2>1, <3>1 DEF Stations
  <2>3. CASE StrandForget(t) \/ StrandFails(t)
    <3>1. task'[t] = Idle /\ Others(t)
      BY <2>1, <2>3, BackEffect DEF StrandForget, StrandFails, Stations
    <3> QED BY <2>1, <3>1 DEF Stations, Idle
  <2> QED BY <1>5, <2>2, <2>3 DEF StrandStep
<1>6. ASSUME NEW t \in Task, AbandonStep(t)
      PROVE  Stations'
  <2>1. ASSUME NEW s \in Sid, AbandonNot(t, s)
        PROVE  Stations'
    <3>1. /\ task'[t].at \in {task[t].at, "idle"} /\ task'[t].back \in {task[t].back, "idle"}
          /\ Others(t)
      BY <2>1 DEF AbandonNot, TypeOK, Local, Idle
    <3> QED BY <3>1 DEF Stations, GcSteps
  <2>2. ASSUME NEW s \in Sid, NEW w \in Workspace, AbandonLook(t, s, w)
        PROVE  Stations'
    <3>1. /\ task'[t].at = "abandonTx" /\ (t # Gc => task'[t].back = "idle")
          /\ Others(t)
      BY <2>2 DEF AbandonLook, TypeOK, Local
    <3> QED BY <3>1 DEF Stations, GcSteps
  <2>3. CASE AbandonTx(t) \/ AbandonFree(t) \/ AbandonFails(t)
    <3>1. /\ task'[t].at \in {"abandonFree", "abandonForget", "idle"}
          /\ task'[t].back \in {task[t].back, "idle"} /\ Others(t)
      BY <2>3 DEF AbandonTx, AbandonFree, AbandonFails, TypeOK, Local, Idle
    <3> QED BY <3>1 DEF Stations, GcSteps
  <2>4. CASE AbandonForget(t)
    <3>1. /\ task'[t].at \in {"idle", "evict", "sweep"} /\ Others(t)
          /\ task[t].back = "idle" => task'[t] = Idle
      BY <2>4, BackEffect DEF AbandonForget
    <3> QED BY <3>1 DEF Stations, GcSteps, Idle
  <2> QED BY <1>6, <2>1, <2>2, <2>3, <2>4 DEF AbandonStep
<1>7. ASSUME NEW r \in Request, ResumeStep(r)
      PROVE  Stations'
  <2>1. ASSUME NEW w \in Workspace, NEW n \in Sid, ResumeRotate(r, w, n)
        PROVE  Stations'
    BY <2>1, RotateEffect DEF Stations
  <2>2. CASE ResumeRestore(r) \/ ResumeContended(r)
    BY <2>2, RestoreEffect, ContendedEffect DEF Stations
  <2>3. ASSUME NEW x \in Symbol, ResumeAcquire(r, x) \/ ResumeUnwind(r, x)
        PROVE  Stations'
    BY <2>3, AcquireEffect, UnwindEffect DEF Stations
  <2>4. CASE ResumeRefused(r) \/ ResumeRestoreFails(r) \/ ResumeInsert(r)
    <3>1. task'[r] = Idle /\ Others(r)
      BY <2>4 DEF ResumeRefused, ResumeRestoreFails, ResumeInsert, TypeOK
    <3> QED BY <3>1 DEF Stations, Idle
  <2> QED BY <1>7, <2>1, <2>2, <2>3, <2>4 DEF ResumeStep
<1> QED BY <1>1, <1>2, <1>3, <1>4, <1>5, <1>6, <1>7 DEF Next

\* Nothing runs before startup_reconcile is done.
LEMMA BootStep ==
    ASSUME TypeOK, BootIsQuiet, [Next]_vars
    PROVE  BootIsQuiet'
<1>1. CASE phase = "serving"
  <2>1. CASE Crash
    BY <2>1 DEF Crash, BootIsQuiet, Idle
  <2>2. CASE ~Crash
    <3>1. phase' = phase
      <4>1. Agents => phase' = phase
        BY DEF Agents, Connect, Write, Verify, Submit, Merge, Close, Expire,
               BeginAbandon, ResumeBegin
      <4>2. GcStep => phase' = phase
        BY DEF GcStep, GcCollect, GcSweep, GcLook, GcDecide, GcRest
      <4>3. \A t \in Task : StrandStep(t) \/ AbandonStep(t) => phase' = phase
        BY DEF StrandStep, StrandMark, StrandFree, StrandForget, StrandFails,
               AbandonStep, AbandonNot, AbandonLook, AbandonTx, AbandonFails,
               AbandonFree, AbandonForget
      <4>4. ASSUME NEW r \in Request, ResumeStep(r)
            PROVE  phase' = phase
        <5>1. ASSUME NEW w \in Workspace, NEW n \in Sid, ResumeRotate(r, w, n)
              PROVE  phase' = phase
          BY <5>1 DEF ResumeRotate
        <5>2. ASSUME NEW x \in Symbol, ResumeAcquire(r, x) \/ ResumeUnwind(r, x)
              PROVE  phase' = phase
          BY <5>2 DEF ResumeAcquire, ResumeUnwind
        <5> QED BY <4>4, <5>1, <5>2
            DEF ResumeStep, ResumeRefused, ResumeRestore, ResumeRestoreFails,
                ResumeContended, ResumeInsert
      <4>5. ~Boot
        BY <1>1 DEF Boot, Serve, Reconcile
      <4> QED BY <2>2, <4>1, <4>2, <4>3, <4>4, <4>5 DEF Next, vars
    <3> QED BY <1>1, <3>1 DEF BootIsQuiet
  <2> QED BY <2>1, <2>2
<1>2. CASE phase = "boot"
  <2> USE DEF Task
  <2>1. /\ live = [s \in Sid |-> NoWs] /\ registered = {}
        /\ \A t \in Task : task[t].at = "idle"
    BY <1>2 DEF BootIsQuiet
  <2>2. ~Agents
    BY <1>2, <2>1 DEF Agents, Connect, Write, Verify, Submit, Merge, Close,
                      Expire, BeginAbandon, ResumeBegin, Usable
  <2>3. ~GcStep
    BY <1>2, <2>1 DEF GcStep, GcCollect, GcSweep, GcLook, GcDecide, GcRest
  <2>4. ASSUME NEW t \in Task PROVE ~StrandStep(t) /\ ~AbandonStep(t)
    BY <2>1 DEF StrandStep, StrandMark, StrandFree, StrandForget, StrandFails,
                AbandonStep, AbandonNot, AbandonLook, Abandoning, AbandonTx,
                AbandonFails, AbandonFree, AbandonForget
  <2>5. ASSUME NEW r \in Request PROVE ~ResumeStep(r)
    BY <2>1 DEF ResumeStep, ResumeRefused, ResumeRotate, ResumeRestore,
                ResumeRestoreFails, ResumeAcquire, ResumeUnwind,
                ResumeContended, ResumeInsert
  <2>6. CASE Crash
    BY <2>6 DEF Crash, BootIsQuiet, Idle
  <2>7. CASE Boot \/ UNCHANGED vars
    BY <2>1, <2>7 DEF Boot, Serve, Reconcile, vars, memory, BootIsQuiet
  <2> QED BY <2>2, <2>3, <2>4, <2>5, <2>6, <2>7 DEF Next
<1> QED BY <1>1, <1>2 DEF TypeOK

\* CONNECT takes a row nobody has used, and an id no task works on.
LEMMA RowConnect ==
    ASSUME RowInv, NEW w \in Workspace, NEW s \in Sid, Connect(w, s)
    PROVE  RowParts'
<1> USE NoSidAssumption DEF Task
<1>1. /\ sid[w] = NoSid /\ sid'[w] = s /\ s \notin used /\ used' = used \cup {s}
      /\ \A v \in Workspace : v # w => sid'[v] = sid[v]
      /\ live'[s] = w /\ \A d \in Sid : d # s => live'[d] = live[d]
      /\ used \subseteq Sid /\ live \in [Sid -> Workspace \cup {NoWs}]
      /\ UNCHANGED <<stranded, abandoned, cs, disk, task>>
  BY DEF Connect, Mint, RowInv, IdInv, TypeOK
<1>2. \A v \in stranded \cup abandoned : v # w /\ v \in Workspace
  BY <1>1 DEF RowInv, FreshRows, IdInv, TypeOK
<1>3. \A d \in used : d # s /\ {v \in Workspace : sid'[v] = d} = RowOf(d)
  BY <1>1 DEF RowOf
<1>4. FreshRows'
  BY <1>1, <1>2 DEF RowInv, FreshRows
<1>5. RehydrationIsAlone'
  <2>1. \A r \in Request : Rehydrating(r) => task[r].ws # w
    BY <1>1 DEF RowInv, RehydrationIsAlone
  <2> QED BY <1>1, <2>1 DEF RowInv, RehydrationIsAlone, Rehydrating, Departing
<1>6. RemovalIsOfStranded'
  BY <1>1, <1>3 DEF RowInv, RemovalIsOfStranded, Removing, RowOf
<1>7. LiveIsCurrent'
  BY <1>1, <1>2 DEF RowInv, LiveIsCurrent
<1>8. AbandonedIsDead'
  BY <1>1 DEF RowInv, AbandonedIsDead
<1> QED BY <1>4, <1>5, <1>6, <1>7, <1>8 DEF RowParts

\* The RPCs of a session touch a row that is neither stranded nor abandoned.
LEMMA RowRpc ==
    ASSUME RowInv, NEW s \in Sid,
           \/ \E x \in Symbol : Write(s, x)
           \/ \E verdict \in {"submitted", "rejected"} : Verify(s, verdict)
           \/ Submit(s) \/ Merge(s)
    PROVE  RowParts'
<1> DEFINE w == live[s]
<1>1. w \in Workspace /\ w \notin abandoned
  BY NoWsAssumption DEF Write, Verify, Submit, Merge, Usable, RowInv, IdInv, TypeOK,
                        LiveIsCurrent
<1>2. UNCHANGED <<sid, stranded, abandoned, used, live, task>>
  BY DEF Write, Verify, Submit, Merge, memory
<1>3. \A v \in Workspace : v # w => cs'[v] = cs[v] /\ disk'[v] = disk[v]
  BY DEF Write, Verify, Submit, Merge, SetState, RowInv, IdInv, TypeOK
<1>4. AbandonedIsDead'
  BY <1>1, <1>2, <1>3 DEF RowInv, IdInv, TypeOK, AbandonedIsDead
<1> QED BY <1>2, <1>4
    DEF RowInv, RowParts, FreshRows, RehydrationIsAlone, RemovalIsOfStranded,
        LiveIsCurrent, RowOf, Rehydrating, Departing, Removing

\* Rows that no workspace in memory and no resume uses may be stranded.
LEMMA RowStrands ==
    ASSUME RowInv, NEW W \in SUBSET Workspace,
           stranded' = stranded \cup W,
           UNCHANGED <<sid, abandoned, cs, disk, used, live>>,
           \A t \in Task : Keeps(t),
           \A v \in W : sid[v] # NoSid,
           \A s \in Sid : live[s] \notin W,
           \A r \in Request :
              task'[r].at \in {"restore", "acquire", "unwind", "mark"} =>
                  task[r].ws \notin W
    PROVE  RowParts'
<1> USE DEF Task
<1>1. FreshRows'
  BY DEF RowInv, FreshRows
<1>2. RehydrationIsAlone'
  BY DEF RowInv, RehydrationIsAlone, Keeps, Rehydrating, Departing
<1>3. RemovalIsOfStranded'
  BY DEF RowInv, RemovalIsOfStranded, Keeps, Removing, RowOf
<1>4. LiveIsCurrent'
  BY DEF RowInv, LiveIsCurrent
<1>5. AbandonedIsDead'
  BY DEF RowInv, AbandonedIsDead
<1> QED BY <1>1, <1>2, <1>3, <1>4, <1>5 DEF RowParts

\* A resume that turns back strands its own row, which nobody else uses.
LEMMA RowTurnsBack ==
    ASSUME RowInv, NEW r \in Request, StrandMark(r) \/ ResumeRestoreFails(r)
    PROVE  RowParts'
<1> DEFINE s == task[r].sid
<1> USE DEF Task
<1>1. s \in used /\ s \in Sid /\ s # NoSid /\ live[s] = NoWs /\ Rehydrating(r)
  BY NoSidAssumption DEF StrandMark, ResumeRestoreFails, Rehydrating, RowInv,
                         RehydrationIsAlone, IdInv, TypeOK
<1>2. PICK W \in SUBSET Workspace : W \subseteq RowOf(s) /\ stranded' = stranded \cup W
  <2>1. CASE stranded' = stranded \cup RowOf(s)
    BY <2>1 DEF RowOf
  <2>2. CASE stranded' = stranded
    <3>1. {} \in SUBSET Workspace /\ {} \subseteq RowOf(s) /\ stranded' = stranded \cup {}
      BY <2>2
    <3> QED BY <3>1
  <2> QED BY <2>1, <2>2 DEF StrandMark, ResumeRestoreFails
<1>3. UNCHANGED <<sid, abandoned, cs, disk, used, live>>
  BY DEF StrandMark, ResumeRestoreFails, memory
<1>4. /\ task'[r].at \in {"free", "idle"} /\ (task'[r].at = "free" => task'[r].sid = s)
      /\ \A u \in Task : u # r => task'[u] = task[u]
  BY DEF StrandMark, ResumeRestoreFails, RowInv, IdInv, TypeOK, Local, Idle
<1>5. \A u \in Task : Keeps(u)
  BY <1>1, <1>4 DEF Keeps, Rehydrating, Departing, Removing
<1>6. \A v \in W : sid[v] = s
  BY <1>2 DEF RowOf
<1>7. \A d \in Sid : live[d] \notin W
  BY <1>1, <1>6, NoWsAssumption DEF RowInv, LiveIsCurrent
<1>8. \A q \in Request :
        task'[q].at \in {"restore", "acquire", "unwind", "mark"} => task[q].ws \notin W
  <2> SUFFICES ASSUME NEW q \in Request,
                      task'[q].at \in {"restore", "acquire", "unwind", "mark"}
               PROVE  task[q].ws \notin W
    OBVIOUS
  <2>1. q # r /\ Rehydrating(q)
    BY <1>4 DEF Rehydrating
  <2>2. task[q].sid # s /\ sid[task[q].ws] = task[q].sid
    BY <1>1, <2>1 DEF RowInv, RehydrationIsAlone
  <2> QED BY <1>6, <2>2
<1> HIDE DEF s
<1> QED BY <1>1, <1>2, <1>3, <1>5, <1>6, <1>7, <1>8, RowStrands

\* startup_reconcile strands rows while nothing is in memory.
LEMMA RowReconcile ==
    ASSUME RowInv, NEW w \in Workspace, Reconcile(w)
    PROVE  RowParts'
<1> USE DEF Task
<1>1. /\ live = [s \in Sid |-> NoWs] /\ \A t \in Task : task[t].at = "idle"
      /\ task' = task /\ sid[w] # NoSid
  BY DEF Reconcile, RowInv, BootIsQuiet, Orphan
<1>2. \A t \in Task : Keeps(t)
  BY <1>1, KeepsSame
<1>3. stranded' = stranded \cup {w} /\ UNCHANGED <<sid, abandoned, cs, disk, used, live>>
  BY DEF Reconcile, memory
<1>4. /\ \A s \in Sid : live[s] \notin {w}
      /\ \A r \in Request :
           task'[r].at \in {"restore", "acquire", "unwind", "mark"} => task[r].ws \notin {w}
  BY <1>1, NoWsAssumption
<1>5. \A v \in {w} : sid[v] # NoSid
  BY <1>1
<1> QED BY <1>2, <1>3, <1>4, <1>5, RowStrands

\* abandon_stranded reads a row that is stranded and has the id.
LEMMA RowLook ==
    ASSUME RowInv, NEW t \in Task, NEW s \in Sid, NEW w \in Workspace,
           AbandonLook(t, s, w)
    PROVE  RowParts'
<1> USE DEF Task
<1>1. /\ task'[t].at = "abandonTx" /\ task'[t].sid = s /\ task'[t].ws = w
      /\ \A u \in Task : u # t => task'[u] = task[u]
  BY DEF AbandonLook, RowInv, IdInv, TypeOK, Local
<1>2. UNCHANGED rows /\ live' = live
  BY DEF AbandonLook, rows, db, memory
<1>3. sid[w] = s /\ w \in stranded /\ s \in used
  BY NoSidAssumption DEF AbandonLook, RowOf, Sweepable, RowInv, IdInv, IdsAreUsed
<1>4. RowOf(s) \subseteq {w}
  BY <1>3, NoSidAssumption DEF RowOf, RowInv, IdInv, DeadStaysDead
<1>5. RemovalIsOfStranded'
  BY <1>1, <1>2, <1>3, <1>4 DEF RowInv, RemovalIsOfStranded, Removing, RowOf, rows
<1>6. RehydrationIsAlone'
  BY <1>1, <1>2 DEF RowInv, RehydrationIsAlone, Rehydrating, Departing, rows
<1> QED BY <1>2, <1>5, <1>6
    DEF RowInv, RowParts, FreshRows, LiveIsCurrent, AbandonedIsDead, rows

\* The transaction tombstones a stranded row, the one whose changeset it
\* rejects and whose overlay it empties, or none.
LEMMA RowAbandonTx ==
    ASSUME RowInv, NEW t \in Task, AbandonTx(t)
    PROVE  RowParts'
<1> DEFINE s == task[t].sid
           w == task[t].ws
<1> USE DEF Task
<1>1. /\ s \in used /\ s # NoSid /\ RowOf(s) \subseteq stranded
      /\ w \in Workspace /\ RowOf(s) \subseteq {w}
  BY NoSidAssumption DEF AbandonTx, RowInv, RemovalIsOfStranded, Removing, IdInv, TypeOK
<1>2. /\ task'[t].at = "abandonFree" /\ task'[t].sid = s
      /\ \A u \in Task : u # t => task'[u] = task[u]
  BY DEF AbandonTx, RowInv, IdInv, TypeOK, Local
<1>3. /\ UNCHANGED <<sid, stranded, used, live>>
      /\ abandoned' = abandoned \cup RowOf(s)
  BY DEF AbandonTx, memory
<1>4. /\ cs'[w] \in {"rejected", "merged"} /\ disk'[w] = {}
      /\ \A v \in Workspace : v # w => cs'[v] = cs[v] /\ disk'[v] = disk[v]
  BY <1>1 DEF AbandonTx, RowInv, IdInv, TypeOK
<1>5. \A u \in Task : Keeps(u)
  BY <1>2 DEF Keeps, Rehydrating, Departing, Removing, AbandonTx
<1> HIDE DEF s, w
<1>6. FreshRows'
  BY <1>1, <1>3 DEF RowInv, FreshRows, RowOf
<1>7. RehydrationIsAlone' /\ RemovalIsOfStranded'
  <2>1. stranded' \cup abandoned' = stranded \cup abandoned
    BY <1>1, <1>3
  <2>2. RowParts /\ IdInv /\ Empties
    BY <1>3 DEF RowInv, RowParts, Empties
  <2> QED BY <1>3, <1>5, <2>1, <2>2, TasksCalm
<1>8. LiveIsCurrent'
  BY <1>1, <1>3 DEF RowInv, LiveIsCurrent
<1>9. AbandonedIsDead'
  <2>1. abandoned \subseteq Workspace
    BY DEF RowInv, IdInv, TypeOK
  <2> QED BY <1>1, <1>3, <1>4, <2>1 DEF RowInv, AbandonedIsDead
<1> QED BY <1>6, <1>7, <1>8, <1>9 DEF RowParts

\* The transaction of a resume takes a stranded row, and gives it an id no
\* task works on.
LEMMA RowRotate ==
    ASSUME RowInv, NEW r \in Request, NEW w \in Workspace, NEW n \in Sid,
           ResumeRotate(r, w, n)
    PROVE  RowParts'
<1> USE NoSidAssumption DEF Task
<1>1. /\ w \in stranded /\ w \notin abandoned
      /\ n \notin used /\ used' = used \cup {n}
      /\ \A u \in Task : u # r => task'[u] = task[u]
      /\ task'[r].at = "restore" /\ task'[r].sid = n /\ task'[r].ws = w
  BY RotateEffect DEF RowInv, IdInv, Resumable, Sweepable
<1>2. /\ sid'[w] = n /\ \A v \in Workspace : v # w => sid'[v] = sid[v]
      /\ stranded' = stranded \ {w}
      /\ UNCHANGED <<abandoned, cs, disk, live>>
  BY DEF ResumeRotate, RowInv, IdInv, TypeOK, memory
<1>3. stranded \subseteq Workspace /\ abandoned \subseteq Workspace /\ used \subseteq Sid
  BY DEF RowInv, IdInv, TypeOK
<1>4. live[n] = NoWs
  <2>1. live[n] # NoWs => sid[live[n]] = n /\ live[n] \in Workspace
    BY DEF RowInv, LiveIsCurrent, IdInv, TypeOK
  <2> QED BY <1>1, <2>1 DEF RowInv, IdInv, IdsAreUsed
<1>5. FreshRows'
  BY <1>1, <1>2, <1>3 DEF RowInv, FreshRows
<1>6. RehydrationIsAlone'
  BY <1>1, <1>2, <1>4 DEF RowInv, RehydrationIsAlone, Rehydrating, Departing
<1>7. RemovalIsOfStranded'
  BY <1>1, <1>2 DEF RowInv, RemovalIsOfStranded, Removing, RowOf
<1>8. LiveIsCurrent'
  <2>1. \A s \in Sid : live[s] # NoWs => live[s] # w /\ live[s] \in Workspace
    BY <1>1 DEF RowInv, LiveIsCurrent, IdInv, TypeOK
  <2> QED BY <1>2, <2>1 DEF RowInv, LiveIsCurrent
<1>9. AbandonedIsDead'
  BY <1>2 DEF RowInv, AbandonedIsDead
<1> QED BY <1>5, <1>6, <1>7, <1>8, <1>9 DEF RowParts

\* A resume that succeeds brings its own row to memory.
LEMMA RowInsert ==
    ASSUME RowInv, NEW r \in Request, ResumeInsert(r)
    PROVE  RowParts'
<1> DEFINE s == task[r].sid
           w == task[r].ws
<1> USE DEF Task
<1>1. /\ Rehydrating(r) /\ s \in used /\ s \in Sid
      /\ sid[w] = s /\ w \notin stranded \cup abandoned
  BY DEF ResumeInsert, Rehydrating, RowInv, RehydrationIsAlone, IdInv, TypeOK
<1>2. /\ live'[s] = w /\ \A d \in Sid : d # s => live'[d] = live[d]
      /\ UNCHANGED rows
  BY <1>1 DEF ResumeInsert, db, rows, RowInv, IdInv, TypeOK
<1>3. task'[r].at = "idle" /\ \A u \in Task : u # r => task'[u] = task[u]
  BY DEF ResumeInsert, RowInv, IdInv, TypeOK, Idle
<1> HIDE DEF s, w
<1>4. LiveIsCurrent'
  BY <1>1, <1>2 DEF RowInv, LiveIsCurrent, rows
<1>5. RehydrationIsAlone'
  <2>1. \A q \in Request : q # r /\ (Rehydrating(q) \/ Departing(q)) =>
          task[q].sid \in used /\ task[q].sid # s
    BY <1>1 DEF RowInv, RehydrationIsAlone, s
  <2>2. used \subseteq Sid
    BY DEF RowInv, IdInv, TypeOK
  <2> QED BY <1>2, <1>3, <2>1, <2>2
      DEF RowInv, RehydrationIsAlone, Rehydrating, Departing, rows
<1>6. RemovalIsOfStranded'
  BY <1>2, <1>3 DEF RowInv, RemovalIsOfStranded, Removing, RowOf, rows
<1>7. FreshRows' /\ AbandonedIsDead'
  BY <1>2 DEF RowInv, FreshRows, AbandonedIsDead, rows
<1> QED BY <1>4, <1>5, <1>6, <1>7 DEF RowParts

(* The invariant of the rows holds at the start. *)
LEMMA RowInit == Init => RowInv
<1> SUFFICES ASSUME Init PROVE RowInv
  OBVIOUS
<1>1. IdInv
  BY IdInit
<1>2. \A t \in Task : task[t].at = "idle" /\ task[t].back = "idle"
  BY DEF Init, Idle
<1>3. BootIsQuiet /\ FreshRows /\ AbandonedIsDead
  BY DEF Init, BootIsQuiet, FreshRows, AbandonedIsDead
<1>4. Stations
  BY <1>2 DEF Stations, GcSteps, Task
<1>5. RehydrationIsAlone /\ RemovalIsOfStranded
  BY <1>2 DEF RehydrationIsAlone, RemovalIsOfStranded, Rehydrating, Departing,
              Removing, Task
<1>6. LiveIsCurrent
  BY DEF Init, LiveIsCurrent
<1> QED BY <1>1, <1>3, <1>4, <1>5, <1>6 DEF RowInv

(* Every step keeps the invariant of the rows. *)
LEMMA RowStep ==
    ASSUME PinFlag
    PROVE  RowInv /\ [Next]_vars => RowInv'
<1> SUFFICES ASSUME RowInv, [Next]_vars PROVE RowInv'
  OBVIOUS
<1>1. IdInv' /\ Stations' /\ BootIsQuiet'
  BY IdStep, StationsStep, BootStep DEF RowInv, IdInv
<1>2. RowParts'
  <2>0. TypeOK /\ IdInv /\ RowParts
    BY DEF RowInv, RowParts, IdInv
  <2>1. Calm => RowParts'
    BY <2>0, CalmStep
  <2>2. CASE UNCHANGED vars \/ Crash
    BY <2>0, <2>1, <2>2, CalmRestart
  <2>3. CASE Agents
    <3>1. ASSUME NEW r \in Request, NEW s \in Sid, BeginAbandon(r, s) \/ ResumeBegin(r, s)
          PROVE  RowParts'
      BY <2>0, <2>1, <3>1, CalmAgents
    <3>2. ASSUME NEW s \in Sid, Close(s) \/ Expire(s)
          PROVE  RowParts'
      BY <2>0, <2>1, <3>2, CalmSessions
    <3> QED BY <2>3, <3>1, <3>2, RowConnect, RowRpc DEF Agents
  <2>4. CASE GcStep
    BY <2>0, <2>1, <2>4, CalmGc
  <2>5. ASSUME NEW t \in Task, StrandStep(t)
        PROVE  RowParts'
    <3>1. StrandMark(t) => t \in Request
      BY DEF StrandMark, RowInv, Stations, GcSteps, Task
    <3> QED BY <2>0, <2>1, <2>5, <3>1, CalmStrand, RowTurnsBack DEF StrandStep
  <2>6. ASSUME NEW t \in Task, AbandonStep(t)
        PROVE  RowParts'
    BY <2>0, <2>1, <2>6, CalmAbandon, RowLook, RowAbandonTx DEF AbandonStep
  <2>7. ASSUME NEW r \in Request, ResumeStep(r)
        PROVE  RowParts'
    BY <2>0, <2>1, <2>7, CalmResume, RowRotate, RowTurnsBack, RowInsert
    DEF ResumeStep
  <2>8. CASE Boot
    BY <2>0, <2>1, <2>8, CalmRestart, RowReconcile DEF Boot
  <2> QED BY <2>2, <2>3, <2>4, <2>5, <2>6, <2>7, <2>8 DEF Next
<1> QED BY <1>1, <1>2 DEF RowInv, RowParts

(* While the pin rule is on, a workspace in memory is its row's, a resume has
   its row to itself and what is abandoned stays so, in every behaviour. *)
THEOREM RowsHold ==
    ASSUME PinFlag
    PROVE  Spec => []RowInv
<1>1. RowInv /\ [Next]_vars => RowInv'
  BY RowStep
<1> QED BY RowInit, <1>1, PTL DEF Spec

\* While the pin rule is on, no two rows share an id, no redirected id is the
\* id of a row, and a workspace in memory is its row's current session and
\* neither stranded nor abandoned (resume, strand, abandon_stranded,
\* startup_reconcile).
THEOREM IdentitiesAgree ==
    ASSUME PinFlag
    PROVE  Spec => []IdsAreSound
<1>1. RowInv => IdsAreSound
  BY DEF RowInv, IdInv, IdsAreSound
<1> QED BY RowsHold, <1>1, PTL

\* While the pin rule is on, the changeset of an abandoned row stays final and
\* its persisted overlay empty (abandon_stranded).
THEOREM AbandonedStaysDead ==
    ASSUME PinFlag
    PROVE  Spec => []AbandonedIsDead
<1>1. RowInv => AbandonedIsDead
  BY DEF RowInv
<1> QED BY RowsHold, <1>1, PTL

-----------------------------------------------------------------------------
(***************************************************************************)
(* The locks of resumed workspaces                                         *)
(***************************************************************************)

\* A step that takes no lock and moves no rehydration: what it releases
\* belongs to nobody in memory, and what it drops from memory is final.
LocksCalm ==
    /\ redirect' = redirect /\ used \subseteq used'
    /\ \A s \in registered' : s \in registered \/ s \in used' \ used
    /\ \A s \in Sid : Resumed(s) /\ RowIsFinal(s) => RowIsFinal(s)'
    /\ \A s \in Sid : Resumed(s) =>
          \/ live'[s] = live[s] /\ overlay'[s] = overlay[s]
          \/ live'[s] = NoWs /\ (live[s] = NoWs \/ RowIsFinal(s))
    /\ \A x \in Symbol :
          /\ mgrLocks'[x] \subseteq mgrLocks[x]
          /\ \A s \in mgrLocks[x] \ mgrLocks'[x] :
                live[s] = NoWs /\ \A r \in Request : Rehydrating(r) => task[r].sid # s
    /\ \A r \in Request :
          \/ task'[r] = task[r]
          \/ /\ task[r].at \notin {"acquire", "unwind"}
             /\ task'[r].at \notin {"restore", "acquire", "unwind", "mark"}
             /\ task'[r].at = "tx" => ~task'[r].flag /\ task'[r].got = {}
    /\ \/ task'[Gc] = task[Gc]
       \/ /\ task'[Gc].at # "decide"
          /\ task'[Gc].batch \subseteq used
          /\ \A r \in Request : Rehydrating(r) => task[r].sid \notin task'[Gc].batch

(* The id of a resumed workspace was handed out. *)
LEMMA ResumedIsUsed ==
    ASSUME IdInv, NEW s \in Sid, Resumed(s)
    PROVE  s \in used
BY NoSidAssumption DEF IdInv, IdsAreUsed, Resumed

(* A step calm about locks keeps what is known of them. *)
LEMMA LocksCalmStep ==
    ASSUME LockInv, TypeOK', LocksCalm
    PROVE  LockParts'
<1> USE DEF LockInv
<1>0. /\ IdInv /\ mgrLocks \in [Symbol -> SUBSET Sid] /\ mgrLocks' \in [Symbol -> SUBSET Sid]
      /\ used \subseteq Sid
  BY DEF RowInv, IdInv, TypeOK, Claims
<1>1. \A s : Resumed(s)' <=> Resumed(s)
  BY DEF LocksCalm, Resumed
<1>2. ResumedIsUnregistered'
  BY <1>0, <1>1, ResumedIsUsed DEF LocksCalm, LockParts, ResumedIsUnregistered
<1>3. HolderIsResumed'
  BY <1>1 DEF LocksCalm, LockParts, HolderIsResumed
<1>4. AcquiredIsHeld'
  <2> SUFFICES ASSUME NEW r \in Request
               PROVE  /\ task'[r].at \in {"tx", "restore"} =>
                            ~task'[r].flag /\ task'[r].got = {}
                      /\ task'[r].at \in {"restore", "acquire", "unwind"} =>
                            /\ Resumed(task'[r].sid)
                            /\ \A x \in task'[r].got : mgrLocks'[x] = {task'[r].sid}
                      /\ task'[r].at = "acquire" /\ ~task'[r].flag =>
                            task'[r].syms = task'[r].todo \cup task'[r].got
    BY <1>1 DEF AcquiredIsHeld
  <2>1. CASE task'[r] # task[r]
    BY <2>1 DEF LocksCalm
  <2>2. CASE task'[r] = task[r]
    <3>1. ASSUME task[r].at \in {"restore", "acquire", "unwind"}, NEW x \in task[r].got
          PROVE  mgrLocks'[x] = {task[r].sid}
      <4>1. mgrLocks[x] = {task[r].sid} /\ Rehydrating(r) /\ x \in Symbol
        BY <3>1 DEF LockParts, AcquiredIsHeld, Rehydrating, RowInv, IdInv, TypeOK, Task,
                    Local
      <4> QED BY <4>1 DEF LocksCalm
    <3> QED BY <1>1, <2>2, <3>1 DEF LockParts, AcquiredIsHeld
  <2> QED BY <2>1, <2>2
<1>5. LockIsJustified'
  <2> SUFFICES ASSUME NEW x \in Symbol, NEW s \in mgrLocks'[x]
               PROVE  \/ live'[s] # NoWs
                      \/ \E r \in Request : /\ task'[r].at \in {"acquire", "unwind"}
                                            /\ task'[r].sid = s /\ x \in task'[r].got
                      \/ RowIsFinal(s)'
    BY DEF LockIsJustified
  <2>1. s \in mgrLocks[x] /\ s \in Sid /\ Resumed(s)
    BY <1>0 DEF LocksCalm, LockParts, HolderIsResumed
  <2>2. CASE live[s] # NoWs
    BY <2>1, <2>2 DEF LocksCalm
  <2>3. ASSUME NEW r \in Request, task[r].at \in {"acquire", "unwind"},
               task[r].sid = s, x \in task[r].got
        PROVE  \E q \in Request : /\ task'[q].at \in {"acquire", "unwind"}
                                  /\ task'[q].sid = s /\ x \in task'[q].got
    BY <2>3 DEF LocksCalm
  <2>4. CASE RowIsFinal(s)
    BY <2>1, <2>4 DEF LocksCalm
  <2> QED BY <2>1, <2>2, <2>3, <2>4 DEF LockParts, LockIsJustified
<1>6. EvictionIsFinal'
  <2>1. \A r \in Request : Rehydrating(r)' => Rehydrating(r) /\ task'[r] = task[r]
    BY DEF LocksCalm, Rehydrating
  <2>2. CASE task'[Gc] = task[Gc]
    <3>1. ASSUME NEW s \in Sid, s = task[Gc].sid, task[Gc].at = "decide", Resumed(s),
                 live'[s] # NoWs, ~task[Gc].flag
          PROVE  RowIsFinal(s)'
      <4>1. live[s] = live'[s] /\ RowIsFinal(s)
        BY <3>1 DEF LocksCalm, LockParts, EvictionIsFinal
      <4> QED BY <3>1, <4>1 DEF LocksCalm
    <3>2. used \subseteq used'
      BY DEF LocksCalm
    <3>3. task[Gc].at = "decide" => task[Gc].sid \in Sid
      BY <1>0 DEF LockParts, EvictionIsFinal
    <3> QED BY <1>1, <2>1, <2>2, <3>1, <3>2, <3>3 DEF LockParts, EvictionIsFinal
  <2>3. CASE task'[Gc] # task[Gc]
    BY <2>1, <2>3 DEF LocksCalm, EvictionIsFinal
  <2> QED BY <2>2, <2>3
<1>7. ResumedOwnsItsChanges'
  <2> SUFFICES ASSUME NEW s \in Sid, live'[s] # NoWs, Resumed(s)', NEW x \in overlay'[s]
               PROVE  mgrLocks'[x] = {s}
    BY DEF ResumedOwnsItsChanges
  <2>1. live'[s] = live[s] /\ overlay'[s] = overlay[s] /\ Resumed(s)
    BY <1>1 DEF LocksCalm
  <2>2. mgrLocks[x] = {s} /\ x \in Symbol
    BY <2>1 DEF LockParts, ResumedOwnsItsChanges, RowInv, IdInv, TypeOK
  <2> QED BY <2>1, <2>2 DEF LocksCalm
<1> QED BY <1>2, <1>3, <1>4, <1>5, <1>6, <1>7 DEF LockParts

\* What a row holds, and to whom it belongs, decides whether it is final.
LEMMA FinalSame ==
    ASSUME UNCHANGED <<sid, cs>>, NEW s
    PROVE  RowIsFinal(s)' <=> RowIsFinal(s)
BY DEF RowIsFinal, RowOf

\* A session of the table is not a resumed one, and its row is its own.
LEMMA LocksAgents ==
    ASSUME LockInv, Agents
    PROVE  LocksCalm
<1> USE DEF LockInv, Task
<1>0. /\ IdInv /\ TypeOK /\ used \subseteq Sid /\ registered \subseteq used
      /\ \A s \in Sid : Resumed(s) => s \in used /\ s \notin registered
  BY ResumedIsUsed DEF RowInv, IdInv, LockParts, ResumedIsUnregistered, TypeOK
<1>1. ASSUME NEW w \in Workspace, NEW s \in Sid, Connect(w, s)
      PROVE  LocksCalm
  <2>1. /\ sid[w] = NoSid /\ s \notin used /\ used' = used \cup {s}
        /\ \A v \in Workspace : v # w => sid'[v] = sid[v]
        /\ \A d \in Sid : d # s => live'[d] = live[d]
        /\ registered' = registered \cup {s}
        /\ UNCHANGED <<cs, redirect, overlay, mgrLocks, task>>
    BY <1>0, <1>1 DEF Connect, Mint, TypeOK
  <2>2. \A d \in Sid : RowIsFinal(d) => RowIsFinal(d)'
    BY <2>1, NoSidAssumption DEF RowIsFinal, RowOf
  <2> QED BY <1>0, <2>1, <2>2 DEF LocksCalm
<1>2. ASSUME NEW s \in Sid,
             \/ \E x \in Symbol : Write(s, x)
             \/ \E verdict \in {"submitted", "rejected"} : Verify(s, verdict)
             \/ Submit(s) \/ Merge(s)
      PROVE  LocksCalm
  <2> DEFINE Touches ==
        /\ s \in registered /\ live[s] # NoWs
        /\ \A v \in Workspace : v # live[s] => cs'[v] = cs[v]
        /\ UNCHANGED <<sid, redirect, used, live, registered, mgrLocks, task>>
        /\ \A d \in Sid : d # s => overlay'[d] = overlay[d]
  <2>1. Touches
    <3>1. ASSUME NEW x \in Symbol, Write(s, x)
          PROVE  Touches
      BY <1>0, <3>1 DEF Write, Usable, TypeOK
    <3>2. ASSUME NEW v \in {"submitted", "rejected"}, Verify(s, v)
          PROVE  Touches
      BY <1>0, <3>2 DEF Verify, Usable, SetState, TypeOK, memory
    <3>3. CASE Submit(s) \/ Merge(s)
      BY <1>0, <3>3 DEF Submit, Merge, Usable, SetState, TypeOK
    <3> QED BY <1>2, <3>1, <3>2, <3>3
  <2>2. sid[live[s]] = s
    BY <2>1 DEF RowInv, LiveIsCurrent
  <2>3. \A d \in Sid : d # s /\ RowIsFinal(d) => RowIsFinal(d)'
    BY <2>1, <2>2 DEF RowIsFinal, RowOf
  <2> QED BY <1>0, <2>1, <2>3 DEF LocksCalm
<1>3. ASSUME NEW s \in Sid, Close(s) \/ Expire(s)
      PROVE  LocksCalm
  <2>1. /\ s \in registered /\ registered' \subseteq registered
        /\ \A d \in Sid : d # s => live'[d] = live[d] /\ overlay'[d] = overlay[d]
        /\ UNCHANGED <<sid, cs, redirect, used, mgrLocks, task>>
    BY <1>0, <1>3 DEF Close, Expire, Forget, TypeOK, db
  <2> QED BY <1>0, <2>1, FinalSame DEF LocksCalm
<1>4. ASSUME NEW r \in Request, NEW s \in Sid, BeginAbandon(r, s) \/ ResumeBegin(r, s)
      PROVE  LocksCalm
  <2>1. /\ UNCHANGED <<sid, cs, redirect, used, live, overlay, registered, mgrLocks>>
        /\ task[r].at = "idle" /\ task'[r].at \in {"abandon", "tx"}
        /\ task'[r].flag = FALSE /\ task'[r].got = {}
        /\ \A u \in Task : u # r => task'[u] = task[u]
    <3>1. CASE BeginAbandon(r, s)
      BY <1>0, <3>1 DEF BeginAbandon, TypeOK, Idle, db, memory
    <3>2. CASE ResumeBegin(r, s)
      BY <1>0, <3>2 DEF ResumeBegin, TypeOK, Idle, db, memory
    <3> QED BY <1>4, <3>1, <3>2
  <2> QED BY <2>1, FinalSame, GcAssumption DEF LocksCalm
<1> QED BY <1>1, <1>2, <1>3, <1>4 DEF Agents

\* The ids a collection or a sweep starts with are those of no resume.
LEMMA LocksGc ==
    ASSUME LockInv, PinFlag, GcStep, \A s \in Sid : ~GcLook(s)
    PROVE  LocksCalm
<1> USE DEF LockInv, Task
<1>0. TypeOK /\ IdInv /\ Gc \notin Request
  BY GcAssumption DEF RowInv, IdInv
<1>1. ASSUME NEW X \in SUBSET Sid, GcCollect(X) \/ GcSweep(X)
      PROVE  LocksCalm
  <2>1. /\ UNCHANGED <<sid, cs, redirect, used, live, overlay, registered, mgrLocks>>
        /\ task'[Gc].at \in {"evict", "sweep"} /\ task'[Gc].batch = X
        /\ \A u \in Task : u # Gc => task'[u] = task[u]
    BY <1>0, <1>1 DEF GcCollect, GcSweep, TypeOK, Idle, db, memory
  <2>2. ASSUME NEW s \in X
        PROVE  s \in used /\ \A r \in Request : Rehydrating(r) => task[r].sid # s
    <3>1. CASE GcCollect(X)
      <4>1. live[s] # NoWs /\ sid[live[s]] = s /\ live[s] \in Workspace
        BY <1>0, <3>1 DEF GcCollect, RowInv, LiveIsCurrent, TypeOK
      <4> QED BY <1>0, <4>1, NoSidAssumption
          DEF IdInv, IdsAreUsed, RowInv, RehydrationIsAlone
    <3>2. CASE GcSweep(X)
      <4>1. PICK w \in Workspace : sid[w] = s /\ w \in stranded
        BY <3>2 DEF GcSweep, RowOf, Sweepable
      <4>2. \A r \in Request : Rehydrating(r) =>
              task[r].ws \in Workspace /\ sid[task[r].ws] = task[r].sid
                /\ task[r].ws \notin stranded
        BY DEF RowInv, RehydrationIsAlone
      <4> QED BY <1>0, <4>1, <4>2, NoSidAssumption DEF IdInv, IdsAreUsed, DeadStaysDead
    <3> QED BY <1>1, <3>1, <3>2
  <2> QED BY <1>0, <2>1, <2>2, FinalSame DEF LocksCalm
<1>2. ASSUME GcRest
      PROVE  LocksCalm
  <2>1. /\ UNCHANGED <<sid, cs, redirect, used, live, overlay, registered, mgrLocks>>
        /\ task'[Gc].at = "idle" /\ task'[Gc].batch = {}
        /\ \A u \in Task : u # Gc => task'[u] = task[u]
    BY <1>0, <1>2 DEF GcRest, TypeOK, Idle, db, memory
  <2> QED BY <1>0, <2>1, FinalSame DEF LocksCalm
<1>3. ASSUME GcDecide
      PROVE  LocksCalm
  <2> DEFINE s == task[Gc].sid
  <2>1. /\ task'[Gc].at \in {"idle", "evict", "sweep"}
        /\ task'[Gc].batch = {} \/ task'[Gc].batch = task[Gc].batch
        /\ \A u \in Task : u # Gc => task'[u] = task[u]
    BY <1>0, <1>3, BackEffect DEF GcDecide
  <2>2. UNCHANGED <<sid, cs, redirect, used, registered, mgrLocks>>
    BY <1>3 DEF GcDecide, db
  <2>3. \/ UNCHANGED <<live, overlay>>
        \/ /\ ~task[Gc].flag /\ live'[s] = NoWs
           /\ \A d \in Sid : d # s => live'[d] = live[d] /\ overlay'[d] = overlay[d]
    <3>1. s \in Sid
      BY <1>0, <1>3 DEF GcDecide, LockParts, EvictionIsFinal, TypeOK
    <3> QED BY <1>0, <1>3, <3>1 DEF GcDecide, Forget, TypeOK
  <2>4. ~task[Gc].flag /\ Resumed(s) => live[s] = NoWs \/ RowIsFinal(s)
    BY <1>3 DEF GcDecide, LockParts, EvictionIsFinal
  <2>5. /\ task'[Gc].batch \subseteq used
        /\ \A r \in Request : Rehydrating(r) => task[r].sid \notin task'[Gc].batch
    BY <2>1 DEF LockParts, EvictionIsFinal
  <2> HIDE DEF s
  <2> QED BY <1>0, <2>1, <2>2, <2>3, <2>4, <2>5, FinalSame DEF LocksCalm
<1> QED BY <1>1, <1>2, <1>3 DEF GcStep

\* strand and abandon_stranded release and forget an id that is in memory
\* nowhere and is that of no resume that still acquires.
LEMMA LocksRelease ==
    ASSUME LockInv, NEW t \in Task, NEW s \in Sid,
           UNCHANGED <<sid, cs, redirect, used, registered>>,
           live[s] = NoWs,
           \A d \in Sid : d # s => live'[d] = live[d] /\ overlay'[d] = overlay[d],
           live'[s] = NoWs,
           mgrLocks' = mgrLocks \/ mgrLocks' = ReleaseLocks(mgrLocks, s),
           \/ mgrLocks' = mgrLocks
           \/ \A r \in Request : Rehydrating(r) => task[r].sid # s,
           task[t].at \notin {"acquire", "unwind"},
           task'[t].at \notin {"tx", "restore", "acquire", "unwind", "mark", "decide"},
           task'[t].batch \subseteq task[t].batch,
           \A u \in Task : u # t => task'[u] = task[u]
    PROVE  LocksCalm
<1> USE DEF Task
<1>1. \A x \in Symbol : mgrLocks'[x] = mgrLocks[x] \/ mgrLocks'[x] = mgrLocks[x] \ {s}
  BY DEF ReleaseLocks
<1>2. \A x \in Symbol :
        /\ mgrLocks'[x] \subseteq mgrLocks[x]
        /\ \A d \in mgrLocks[x] \ mgrLocks'[x] :
              live[d] = NoWs /\ \A r \in Request : Rehydrating(r) => task[r].sid # d
  BY <1>1
<1>3. \/ task'[Gc] = task[Gc]
      \/ /\ task'[Gc].at # "decide"
         /\ task'[Gc].batch \subseteq used
         /\ \A r \in Request : Rehydrating(r) => task[r].sid \notin task'[Gc].batch
  BY DEF LockInv, LockParts, EvictionIsFinal
<1>4. \A r \in Request :
          \/ task'[r] = task[r]
          \/ /\ task[r].at \notin {"acquire", "unwind"}
             /\ task'[r].at \notin {"restore", "acquire", "unwind", "mark"}
             /\ task'[r].at # "tx"
  OBVIOUS
<1> QED BY <1>2, <1>3, <1>4, FinalSame DEF LocksCalm

\* A task that moves outside a resume touches no lock.
LEMMA LocksElsewhere ==
    ASSUME LockInv, NEW t \in Task,
           UNCHANGED <<sid, cs, redirect, used, live, overlay, registered, mgrLocks>>,
           task[t].at \notin {"acquire", "unwind"},
           task'[t].at \notin {"tx", "restore", "acquire", "unwind", "mark", "decide"},
           task'[t].batch \subseteq task[t].batch,
           \A u \in Task : u # t => task'[u] = task[u]
    PROVE  LocksCalm
<1>1. \/ task'[Gc] = task[Gc]
      \/ /\ task'[Gc].at # "decide"
         /\ task'[Gc].batch \subseteq used
         /\ \A r \in Request : Rehydrating(r) => task[r].sid \notin task'[Gc].batch
  BY DEF LockInv, LockParts, EvictionIsFinal, Task
<1>2. \A r \in Request :
          \/ task'[r] = task[r]
          \/ /\ task[r].at \notin {"acquire", "unwind"}
             /\ task'[r].at \notin {"restore", "acquire", "unwind", "mark"}
             /\ task'[r].at # "tx"
  BY DEF Task
<1> QED BY <1>1, <1>2, FinalSame DEF LocksCalm

(* Stranding is calm about locks. *)
LEMMA LocksStrand ==
    ASSUME LockInv, NEW t \in Request, StrandStep(t)
    PROVE  LocksCalm
<1> DEFINE s == task[t].sid
<1> USE DEF LockInv, Task
<1>0. TypeOK /\ IdInv /\ t # Gc /\ t \in Task
  BY GcAssumption DEF RowInv, IdInv
<1>1. /\ task[t].at \in {"mark", "free", "forget"}
      /\ s \in Sid /\ live[s] = NoWs
      /\ task[t].at = "free" => \A r \in Request : Rehydrating(r) => task[r].sid # s
  <2>1. task[t].at \in {"mark", "free", "forget"}
    BY DEF StrandStep, StrandMark, StrandFree, StrandForget, StrandFails
  <2>2. Rehydrating(t) \/ Departing(t)
    BY <2>1 DEF Rehydrating, Departing
  <2>3. task[t].at = "free" => ~Rehydrating(t) /\ Departing(t)
    BY DEF Rehydrating, Departing
  <2> QED BY <1>0, <2>1, <2>2, <2>3 DEF RowInv, RehydrationIsAlone, TypeOK
<1>2. UNCHANGED <<sid, cs, redirect, used, registered>>
  BY DEF StrandStep, StrandMark, StrandFree, StrandForget, StrandFails, db, memory
<1>3. /\ \A d \in Sid : d # s => live'[d] = live[d] /\ overlay'[d] = overlay[d]
      /\ live'[s] = NoWs
  <2>1. CASE StrandMark(t) \/ StrandFree(t) \/ StrandFails(t)
    BY <1>0, <1>1, <2>1 DEF StrandMark, StrandFree, StrandFails, memory
  <2>2. CASE StrandForget(t)
    BY <1>0, <1>1, <2>2 DEF StrandForget, Forget, TypeOK
  <2> QED BY <2>1, <2>2 DEF StrandStep
<1>4. \/ mgrLocks' = mgrLocks
      \/ task[t].at = "free" /\ mgrLocks' = ReleaseLocks(mgrLocks, s)
  BY DEF StrandStep, StrandMark, StrandFree, StrandForget, StrandFails, memory
<1>5. /\ task'[t].at \in {"free", "forget", "idle", "evict", "sweep"}
      /\ task'[t].batch \subseteq task[t].batch
      /\ \A u \in Task : u # t => task'[u] = task[u]
  <2>1. CASE StrandMark(t) \/ StrandFree(t)
    BY <1>0, <2>1 DEF StrandMark, StrandFree, TypeOK, Local
  <2>2. CASE StrandForget(t) \/ StrandFails(t)
    BY <1>0, <2>2, BackEffect DEF StrandForget, StrandFails
  <2> QED BY <2>1, <2>2 DEF StrandStep
<1> HIDE DEF s
<1> QED BY <1>0, <1>1, <1>2, <1>3, <1>4, <1>5, LocksRelease

\* The id of an abandonment is that of a stranded row or of none.
LEMMA LocksAbandon ==
    ASSUME LockInv, NEW t \in Task, AbandonStep(t)
    PROVE  LocksCalm
<1> DEFINE s == task[t].sid
<1> USE DEF LockInv, Task
<1>0. TypeOK /\ IdInv
  BY DEF RowInv, IdInv
<1>1. ASSUME Removing(t)
      PROVE  /\ s \in Sid /\ live[s] = NoWs
             /\ \A r \in Request : Rehydrating(r) => task[r].sid # s
  <2>1. s \in Sid /\ RowOf(s) \subseteq stranded
    BY <1>0, <1>1 DEF RowInv, RemovalIsOfStranded, TypeOK
  <2>2. live[s] = NoWs
    <3>1. live[s] # NoWs => live[s] \in RowOf(s) /\ live[s] \notin stranded
      BY <1>0, <2>1 DEF RowInv, LiveIsCurrent, RowOf, TypeOK
    <3> QED BY <2>1, <3>1
  <2>3. \A r \in Request : Rehydrating(r) => task[r].sid # s
    BY <2>1 DEF RowInv, RehydrationIsAlone, RowOf
  <2> QED BY <2>1, <2>2, <2>3
<1>2. ASSUME NEW d \in Sid, AbandonNot(t, d)
      PROVE  LocksCalm
  <2>1. UNCHANGED <<sid, cs, redirect, used, live, overlay, registered, mgrLocks>>
    BY <1>2 DEF AbandonNot, db, memory
  <2>2. /\ task[t].at \in {"sweep", "abandon"} /\ task'[t].at \in {"sweep", "abandon", "idle"}
        /\ task'[t].batch \subseteq task[t].batch
        /\ \A u \in Task : u # t => task'[u] = task[u]
    BY <1>0, <1>2 DEF AbandonNot, Abandoning, TypeOK, Local, Idle
  <2> QED BY <2>1, <2>2, LocksElsewhere
<1>3. ASSUME NEW d \in Sid, NEW w \in Workspace, AbandonLook(t, d, w)
      PROVE  LocksCalm
  <2>1. UNCHANGED <<sid, cs, redirect, used, live, overlay, registered, mgrLocks>>
    BY <1>3 DEF AbandonLook, db, memory
  <2>2. /\ task[t].at \in {"sweep", "abandon"} /\ task'[t].at = "abandonTx"
        /\ task'[t].batch \subseteq task[t].batch
        /\ \A u \in Task : u # t => task'[u] = task[u]
    BY <1>0, <1>3 DEF AbandonLook, Abandoning, TypeOK, Local
  <2> QED BY <2>1, <2>2, LocksElsewhere
<1>4. CASE AbandonTx(t)
  <2>1. UNCHANGED <<sid, redirect, used, live, overlay, registered, mgrLocks>>
    BY <1>4 DEF AbandonTx, memory
  <2>2. /\ task[t].at = "abandonTx" /\ task'[t].at = "abandonFree"
        /\ task'[t].batch = task[t].batch
        /\ \A u \in Task : u # t => task'[u] = task[u]
    BY <1>0, <1>4 DEF AbandonTx, TypeOK, Local
  <2>3. \A v \in Workspace : cs[v] \in Terminal => cs'[v] \in Terminal
    BY <1>0, <1>4 DEF AbandonTx, TypeOK, Terminal
  <2>4. \A d \in Sid : RowIsFinal(d) => RowIsFinal(d)'
    BY <2>1, <2>3 DEF RowIsFinal, RowOf
  <2> QED BY <2>1, <2>2, <2>4 DEF LocksCalm, LockParts, EvictionIsFinal
<1>5. CASE AbandonFails(t)
  <2>1. UNCHANGED <<sid, cs, redirect, used, live, overlay, registered, mgrLocks>>
    BY <1>5 DEF AbandonFails, db, memory
  <2>2. /\ task[t].at = "abandonTx" /\ task'[t].at = "idle"
        /\ task'[t].batch \subseteq task[t].batch
        /\ \A u \in Task : u # t => task'[u] = task[u]
    BY <1>0, <1>5 DEF AbandonFails, TypeOK, Idle
  <2> QED BY <2>1, <2>2, LocksElsewhere
<1>6. CASE AbandonFree(t)
  <2>1. Removing(t)
    BY <1>6 DEF AbandonFree, Removing
  <2>2. /\ UNCHANGED <<sid, cs, redirect, used, live, overlay, registered>>
        /\ mgrLocks' = ReleaseLocks(mgrLocks, s)
    BY <1>6 DEF AbandonFree, db
  <2>3. /\ task[t].at = "abandonFree" /\ task'[t].at = "abandonForget"
        /\ task'[t].batch = task[t].batch
        /\ \A u \in Task : u # t => task'[u] = task[u]
    BY <1>0, <1>6 DEF AbandonFree, TypeOK, Local
  <2> HIDE DEF s
  <2> QED BY <1>1, <2>1, <2>2, <2>3, LocksRelease
<1>7. CASE AbandonForget(t)
  <2>1. Removing(t)
    BY <1>7 DEF AbandonForget, Removing
  <2>2. /\ UNCHANGED <<sid, cs, redirect, used, registered, mgrLocks>>
        /\ \A d \in Sid : d # s => live'[d] = live[d] /\ overlay'[d] = overlay[d]
        /\ live'[s] = NoWs
    BY <1>0, <1>1, <1>7, <2>1 DEF AbandonForget, Forget, TypeOK, db
  <2>3. /\ task[t].at = "abandonForget" /\ task'[t].at \in {"idle", "evict", "sweep"}
        /\ task'[t].batch \subseteq task[t].batch
        /\ \A u \in Task : u # t => task'[u] = task[u]
    BY <1>0, <1>7, BackEffect DEF AbandonForget
  <2> HIDE DEF s
  <2> QED BY <1>1, <2>1, <2>2, <2>3, LocksRelease
<1> QED BY <1>2, <1>3, <1>4, <1>5, <1>6, <1>7 DEF AbandonStep

(* A resume that is refused, or fails to restore, is calm about locks. *)
LEMMA LocksTurnBack ==
    ASSUME LockInv, NEW r \in Request, ResumeRefused(r) \/ ResumeRestoreFails(r)
    PROVE  LocksCalm
<1>1. UNCHANGED <<sid, cs, redirect, used, live, overlay, registered, mgrLocks>>
  BY DEF ResumeRefused, ResumeRestoreFails, db, memory
<1>2. /\ task[r].at \in {"tx", "restore"} /\ task'[r].at = "idle"
      /\ task'[r].batch \subseteq task[r].batch
      /\ \A u \in Task : u # r => task'[u] = task[u]
  BY DEF ResumeRefused, ResumeRestoreFails, LockInv, RowInv, IdInv, TypeOK, Task, Idle
<1> QED BY <1>1, <1>2, LocksElsewhere DEF Task

(* So is the reconciliation at the start. *)
LEMMA LocksBoot ==
    ASSUME LockInv, Boot \/ UNCHANGED vars
    PROVE  LocksCalm
<1>1. UNCHANGED <<sid, cs, redirect, used, live, overlay, registered, mgrLocks, task>>
  BY DEF Boot, Serve, Reconcile, vars, db, memory
<1> QED BY <1>1, FinalSame DEF LocksCalm

\* should_pin finds the changeset final.
LEMMA LocksLook ==
    ASSUME LockInv, NEW s \in Sid, GcLook(s)
    PROVE  LockParts'
<1> USE GcAssumption DEF Task, LockInv
<1>0. TypeOK
  BY DEF RowInv, IdInv
<1>1. /\ task'[Gc].at = "decide" /\ task'[Gc].sid = s
      /\ task'[Gc].batch = task[Gc].batch \ {s}
      /\ task'[Gc].flag \/ \A w \in RowOf(s) : cs[w] \in Terminal
      /\ \A r \in Request : task'[r] = task[r]
  BY <1>0, LookEffect
<1>2. /\ UNCHANGED <<sid, cs, redirect, used, live, overlay, registered, mgrLocks>>
      /\ s \in task[Gc].batch
  BY DEF GcLook, db, memory
<1>3. live[s] # NoWs => live[s] \in RowOf(s)
  BY <1>0 DEF RowInv, LiveIsCurrent, RowOf, TypeOK
<1>4. EvictionIsFinal'
  <2>1. live[s] # NoWs /\ ~task'[Gc].flag => RowIsFinal(s)
    BY <1>1, <1>3 DEF RowIsFinal
  <2>2. RowIsFinal(s)' <=> RowIsFinal(s)
    BY <1>2, FinalSame
  <2> QED BY <1>1, <1>2, <2>1, <2>2
      DEF LockParts, EvictionIsFinal, Rehydrating, Resumed
<1>5. /\ ResumedIsUnregistered' /\ HolderIsResumed' /\ ResumedOwnsItsChanges'
  BY <1>2 DEF LockParts, ResumedIsUnregistered, HolderIsResumed,
              ResumedOwnsItsChanges, Resumed
<1>6. AcquiredIsHeld'
  BY <1>1, <1>2 DEF LockParts, AcquiredIsHeld, Resumed
<1>7. LockIsJustified'
  BY <1>1, <1>2 DEF LockParts, LockIsJustified, RowIsFinal, RowOf
<1> QED BY <1>4, <1>5, <1>6, <1>7 DEF LockParts

\* The fresh id of a resume holds nothing, and no final row changes its id.
LEMMA LocksRotate ==
    ASSUME LockInv, NEW r \in Request, NEW w \in Workspace, NEW n \in Sid,
           ResumeRotate(r, w, n)
    PROVE  LockParts'
<1> DEFINE d == task[r].sid
<1> USE NoSidAssumption, GcAssumption DEF Task, LockInv
<1>0. /\ IdInv /\ TypeOK /\ registered \subseteq used /\ used \subseteq Sid
      /\ mgrLocks \in [Symbol -> SUBSET Sid]
      /\ d \in used /\ sid[w] = d
  BY DEF RowInv, IdInv, TypeOK, Claims, LockParts, ResumedIsUnregistered,
         ResumeRotate, ResumeHasArgs, RowOf
<1>1. /\ n \notin used /\ used' = used \cup {n} /\ cs[w] \notin Terminal
      /\ \A u \in Task : u # r => task'[u] = task[u]
      /\ task[r].at = "tx" /\ task'[r].at = "restore" /\ task'[r].sid = n
      /\ task'[r].got = task[r].got /\ task'[r].flag = task[r].flag
  BY <1>0, RotateEffect DEF Resumable
<1>2. /\ redirect'[d] = n /\ \A s \in Sid : s # d => redirect'[s] = redirect[s]
      /\ redirect[d] = NoSid
      /\ \A v \in Workspace : v # w => sid'[v] = sid[v]
      /\ UNCHANGED <<cs, live, overlay, registered, mgrLocks>>
  <2>1. redirect' = [redirect EXCEPT ![d] = n] /\ sid' = [sid EXCEPT ![w] = n]
    BY DEF ResumeRotate
  <2>2. UNCHANGED <<cs, live, overlay, registered, mgrLocks>>
    BY DEF ResumeRotate, memory
  <2> HIDE DEF d
  <2> QED BY <1>0, <2>1, <2>2 DEF TypeOK, IdInv, DeadStaysDead
<1> HIDE DEF d
<1>3. \A s \in Sid : Resumed(s)' <=> Resumed(s) \/ s = n
  BY <1>0, <1>2 DEF Resumed
<1>4. \A s \in Sid : Resumed(s) => s \in used
  BY <1>0, ResumedIsUsed
<1>5. live[n] = NoWs
  <2>1. live[n] # NoWs => sid[live[n]] = n /\ live[n] \in Workspace
    BY <1>0 DEF RowInv, LiveIsCurrent, TypeOK
  <2> QED BY <1>0, <1>1, <2>1 DEF IdInv, IdsAreUsed
<1>6. \A s \in Sid : RowIsFinal(s) => RowIsFinal(s)'
  BY <1>1, <1>2 DEF RowIsFinal, RowOf
<1>7. ResumedIsUnregistered'
  BY <1>0, <1>1, <1>2, <1>3 DEF LockParts, ResumedIsUnregistered
<1>8. HolderIsResumed'
  BY <1>0, <1>2, <1>3 DEF LockParts, HolderIsResumed
<1>9. AcquiredIsHeld'
  <2>1. \A q \in Request : Rehydrating(q) => task[q].sid \in Sid
    BY <1>0 DEF RowInv, RehydrationIsAlone
  <2>2. Resumed(n)'
    BY <1>3
  <2> QED BY <1>1, <1>2, <1>3, <2>1, <2>2
      DEF LockParts, AcquiredIsHeld, Rehydrating
<1>10. LockIsJustified'
  <2> SUFFICES ASSUME NEW x \in Symbol, NEW s \in mgrLocks[x]
               PROVE  \/ live[s] # NoWs
                      \/ \E q \in Request : /\ task'[q].at \in {"acquire", "unwind"}
                                            /\ task'[q].sid = s /\ x \in task'[q].got
                      \/ RowIsFinal(s)'
    BY <1>2 DEF LockIsJustified
  <2>1. s \in Sid
    BY <1>0
  <2> QED BY <1>1, <1>6, <2>1 DEF LockParts, LockIsJustified
<1>11. EvictionIsFinal'
  <2>1. task'[Gc] = task[Gc]
    BY <1>1
  <2>2. ASSUME NEW s \in used, s = task[Gc].sid, task[Gc].at = "decide",
               Resumed(s)', live[s] # NoWs, ~task[Gc].flag
        PROVE  RowIsFinal(s)'
    BY <1>0, <1>1, <1>3, <1>6, <2>2 DEF LockParts, EvictionIsFinal
  <2>3. task[Gc].at = "decide" => task[Gc].sid \in used
    BY DEF LockParts, EvictionIsFinal
  <2>4. \A q \in Request : Rehydrating(q)' => task'[q].sid = n \/
              (q # r /\ Rehydrating(q) /\ task'[q].sid = task[q].sid)
    BY <1>1 DEF Rehydrating
  <2>5. /\ task[Gc].batch \subseteq used
        /\ \A q \in Request : Rehydrating(q)' =>
              /\ task'[q].sid \notin task[Gc].batch
              /\ task[Gc].at = "decide" => task'[q].sid # task[Gc].sid
    BY <1>1, <2>3, <2>4 DEF LockParts, EvictionIsFinal
  <2> QED BY <1>1, <1>2, <2>1, <2>2, <2>3, <2>5 DEF EvictionIsFinal
<1>12. ResumedOwnsItsChanges'
  BY <1>2, <1>3, <1>5 DEF LockParts, ResumedOwnsItsChanges
<1> QED BY <1>7, <1>8, <1>9, <1>10, <1>11, <1>12 DEF LockParts

\* A resume under way: its id is live nowhere, and no other resume has it.
LEMMA OwnId ==
    ASSUME LockInv, NEW r \in Request, Rehydrating(r)
    PROVE  /\ task[r].sid \in Sid /\ task[r].sid \in used /\ live[task[r].sid] = NoWs
           /\ \A q \in Request : q # r /\ Rehydrating(q) => task[q].sid # task[r].sid
BY DEF LockInv, RowInv, RehydrationIsAlone, IdInv, TypeOK

\* The parts of the invariant that a resume does not touch while it goes on
\* with its row.
LEMMA LocksGoOn ==
    ASSUME LockInv, NEW r \in Request, Rehydrating(r),
           task'[r].at \in {"acquire", "unwind", "mark"}, task'[r].sid = task[r].sid,
           UNCHANGED <<sid, cs, redirect, used, live, overlay, registered>>,
           \A u \in Task : u # r => task'[u] = task[u],
           \A x \in Symbol : \A s \in mgrLocks'[x] :
               s \in mgrLocks[x] \/ s = task[r].sid,
           \A x \in Symbol : \A s \in mgrLocks[x] :
               s \in mgrLocks'[x] \/ s = task[r].sid,
           mgrLocks' \in Claims, Resumed(task[r].sid)
    PROVE  /\ ResumedIsUnregistered' /\ HolderIsResumed' /\ EvictionIsFinal'
           /\ ResumedOwnsItsChanges' =
                 \A s \in Sid : live[s] # NoWs /\ Resumed(s) =>
                     \A x \in overlay[s] : mgrLocks'[x] = {s}
<1> USE GcAssumption DEF Task, LockInv
<1>1. \A s : Resumed(s)' <=> Resumed(s)
  BY DEF Resumed
<1>2. ResumedIsUnregistered'
  BY <1>1 DEF LockParts, ResumedIsUnregistered
<1>3. HolderIsResumed'
  BY <1>1 DEF LockParts, HolderIsResumed
<1>4. EvictionIsFinal'
  <2>1. \A q \in Request : Rehydrating(q)' => Rehydrating(q) /\ task'[q].sid = task[q].sid
    BY DEF Rehydrating
  <2>2. \A s \in Sid : RowIsFinal(s)' <=> RowIsFinal(s)
    BY FinalSame
  <2>3. used \subseteq Sid
    BY DEF RowInv, IdInv, TypeOK
  <2> QED BY <1>1, <2>1, <2>2, <2>3 DEF LockParts, EvictionIsFinal
<1>5. ResumedOwnsItsChanges' =
        \A s \in Sid : live[s] # NoWs /\ Resumed(s) =>
            \A x \in overlay[s] : mgrLocks'[x] = {s}
  BY <1>1 DEF ResumedOwnsItsChanges
<1> QED BY <1>2, <1>3, <1>4, <1>5

\* Reading the overlay and turning back leave the locks alone.
LEMMA LocksRestore ==
    ASSUME LockInv, NEW r \in Request, ResumeRestore(r) \/ ResumeContended(r)
    PROVE  LockParts'
<1> USE GcAssumption DEF Task, LockInv
<1>0. TypeOK /\ mgrLocks \in Claims
  BY DEF RowInv, IdInv, TypeOK
<1>1. /\ task[r].at \in {"restore", "acquire"} /\ Rehydrating(r)
      /\ task'[r].at \in {"acquire", "unwind", "mark"}
      /\ task'[r].sid = task[r].sid /\ task'[r].got = task[r].got
      /\ task'[r].flag = task[r].flag
      /\ \A u \in Task : u # r => task'[u] = task[u]
      /\ UNCHANGED <<sid, cs, redirect, used, live, overlay, registered, mgrLocks>>
  BY <1>0, RestoreEffect, ContendedEffect DEF Rehydrating, db, memory
<1>2. task'[r].at = "mark" => task[r].got = {}
  BY <1>0, RestoreEffect, ContendedEffect
<1>3. task'[r].at = "acquire" => /\ task[r].got = {}
                                 /\ task'[r].syms = task'[r].todo \cup task[r].got
  BY <1>0, RestoreEffect, ContendedEffect DEF LockParts, AcquiredIsHeld
<1>4. Resumed(task[r].sid) /\ \A s : Resumed(s)' <=> Resumed(s)
  BY <1>1 DEF LockParts, AcquiredIsHeld, Resumed
<1>5. AcquiredIsHeld'
  BY <1>1, <1>3, <1>4 DEF LockParts, AcquiredIsHeld
<1>6. LockIsJustified'
  <2>1. \A s : RowIsFinal(s)' <=> RowIsFinal(s)
    BY <1>1, FinalSame
  <2> QED BY <1>1, <1>2, <2>1 DEF LockParts, LockIsJustified
<1>7. /\ ResumedIsUnregistered' /\ HolderIsResumed' /\ EvictionIsFinal'
      /\ ResumedOwnsItsChanges'
  <2>1. ResumedOwnsItsChanges
    BY DEF LockParts
  <2> QED BY <1>0, <1>1, <1>4, <2>1, LocksGoOn DEF ResumedOwnsItsChanges
<1> QED BY <1>5, <1>6, <1>7 DEF LockParts

\* An acquisition takes a lock nobody else has, or nothing.
LEMMA LocksAcquire ==
    ASSUME LockInv, NEW r \in Request, NEW x \in Symbol, ResumeAcquire(r, x)
    PROVE  LockParts'
<1> DEFINE s == task[r].sid
<1> USE GcAssumption DEF Task, LockInv
<1>0. TypeOK /\ mgrLocks \in Claims
  BY DEF RowInv, IdInv, TypeOK
<1>1. Rehydrating(r) /\ task[r].at = "acquire" /\ x \in task[r].todo
  BY <1>0, AcquireEffect DEF Rehydrating
<1>2. /\ s \in Sid /\ live[s] = NoWs
      /\ \A q \in Request : q # r /\ Rehydrating(q) => task[q].sid # s
  BY <1>1, OwnId
<1>3. /\ UNCHANGED <<sid, cs, redirect, used, live, overlay, registered>>
      /\ \A u \in Task : u # r => task'[u] = task[u]
      /\ task'[r].at = "acquire" /\ task'[r].sid = s
      /\ task'[r].syms = task[r].syms /\ task'[r].todo = task[r].todo \ {x}
  BY <1>0, AcquireEffect DEF db
<1>4. \/ /\ mgrLocks[x] \subseteq {s} /\ mgrLocks'[x] = {s}
         /\ \A y \in Symbol : y # x => mgrLocks'[y] = mgrLocks[y]
         /\ task'[r].got = task[r].got \cup {x} /\ task'[r].flag = task[r].flag
      \/ mgrLocks' = mgrLocks /\ task'[r].got = task[r].got /\ task'[r].flag
  <2>1. mgrLocks' = AcquireLock(mgrLocks, x, s)
    BY DEF ResumeAcquire
  <2>2. CASE CanAcquire(mgrLocks, x, s)
    <3>1. task'[r].got = task[r].got \cup {x} /\ task'[r].flag = task[r].flag
      BY <1>0, <2>2, AcquireEffect
    <3>2. mgrLocks' = [mgrLocks EXCEPT ![x] = @ \cup {s}] /\ mgrLocks[x] \ {s} = {}
      BY <2>1, <2>2 DEF AcquireLock, RecordClaim, CanAcquire, OtherHolders
    <3> HIDE DEF s
    <3> QED BY <1>0, <3>1, <3>2 DEF Claims
  <2>3. CASE ~CanAcquire(mgrLocks, x, s)
    BY <1>0, <2>1, <2>3, AcquireEffect DEF AcquireLock
  <2> QED BY <2>2, <2>3
<1>5. Resumed(s) /\ \A d : Resumed(d)' <=> Resumed(d)
  BY <1>1, <1>3 DEF LockParts, AcquiredIsHeld, Resumed
<1>6. mgrLocks' \in Claims
  BY <1>0, <1>2, TrackerTypes DEF ResumeAcquire
<1> HIDE DEF s
<1>7. AcquiredIsHeld'
  <2>1. ASSUME NEW q \in Request, q # r,
               task[q].at \in {"restore", "acquire", "unwind"}, NEW y \in task[q].got
        PROVE  mgrLocks'[y] = {task[q].sid}
    <3>1. /\ mgrLocks[y] = {task[q].sid} /\ task[q].sid # s
          /\ y \in Symbol
      BY <1>0, <1>2, <2>1 DEF LockParts, AcquiredIsHeld, Rehydrating, TypeOK, Local
    <3> QED BY <1>4, <3>1
  <2>2. ASSUME NEW y \in task'[r].got
        PROVE  mgrLocks'[y] = {s}
    <3>1. y \in task[r].got => mgrLocks[y] = {s} /\ y \in Symbol
      BY <1>0, <1>1 DEF LockParts, AcquiredIsHeld, TypeOK, Local, s
    <3> QED BY <1>4, <2>2, <3>1
  <2>3. ~task'[r].flag => task'[r].syms = task'[r].todo \cup task'[r].got
    BY <1>1, <1>3, <1>4 DEF LockParts, AcquiredIsHeld
  <2> QED BY <1>3, <1>5, <2>1, <2>2, <2>3 DEF LockParts, AcquiredIsHeld
<1>8. LockIsJustified'
  <2>1. \A d : RowIsFinal(d)' <=> RowIsFinal(d)
    BY <1>3, FinalSame
  <2>2. \A y \in Symbol : \A d \in mgrLocks'[y] :
          d \in mgrLocks[y] \/ (d = s /\ y = x /\ x \in task'[r].got)
    BY <1>4
  <2>3. task[r].got \subseteq task'[r].got
    BY <1>4
  <2>4. \A q \in Request : /\ task'[q].at = task[q].at /\ task'[q].sid = task[q].sid
                            /\ task[q].got \subseteq task'[q].got
    BY <1>1, <1>3, <2>3 DEF s
  <2>5. ASSUME NEW y \in Symbol, NEW d \in mgrLocks'[y], d \in mgrLocks[y]
        PROVE  \/ live[d] # NoWs
               \/ \E q \in Request : /\ task'[q].at \in {"acquire", "unwind"}
                                     /\ task'[q].sid = d /\ y \in task'[q].got
               \/ RowIsFinal(d)
    BY <2>4, <2>5 DEF LockParts, LockIsJustified
  <2> QED BY <1>3, <2>1, <2>2, <2>5 DEF LockIsJustified
<1>9. /\ ResumedIsUnregistered' /\ HolderIsResumed' /\ EvictionIsFinal'
      /\ ResumedOwnsItsChanges'
  <2>1. \A d \in Sid : live[d] # NoWs /\ Resumed(d) =>
          \A y \in overlay[d] : mgrLocks'[y] = {d}
    <3> SUFFICES ASSUME NEW d \in Sid, live[d] # NoWs, Resumed(d), NEW y \in overlay[d]
                 PROVE  mgrLocks'[y] = {d}
      OBVIOUS
    <3>1. mgrLocks[y] = {d} /\ d # s /\ y \in Symbol
      BY <1>0, <1>2 DEF LockParts, ResumedOwnsItsChanges, TypeOK
    <3> QED BY <1>4, <3>1
  <2>2. \A y \in Symbol : /\ \A d \in mgrLocks'[y] : d \in mgrLocks[y] \/ d = s
                          /\ \A d \in mgrLocks[y] : d \in mgrLocks'[y] \/ d = s
    BY <1>4
  <2> QED BY <1>1, <1>3, <1>5, <1>6, <2>1, <2>2, LocksGoOn DEF s
<1> QED BY <1>7, <1>8, <1>9 DEF LockParts

\* Unwinding gives back a lock of its own.
LEMMA LocksUnwind ==
    ASSUME LockInv, NEW r \in Request, NEW x \in Symbol, ResumeUnwind(r, x)
    PROVE  LockParts'
<1> DEFINE s == task[r].sid
<1> USE GcAssumption DEF Task, LockInv
<1>0. TypeOK /\ mgrLocks \in Claims
  BY DEF RowInv, IdInv, TypeOK
<1>1. Rehydrating(r) /\ task[r].at = "unwind" /\ x \in task[r].got
  BY <1>0, UnwindEffect DEF Rehydrating
<1>2. /\ s \in Sid /\ live[s] = NoWs
      /\ \A q \in Request : q # r /\ Rehydrating(q) => task[q].sid # s
  BY <1>1, OwnId
<1>3. /\ UNCHANGED <<sid, cs, redirect, used, live, overlay, registered>>
      /\ \A u \in Task : u # r => task'[u] = task[u]
      /\ task'[r].at \in {"unwind", "mark"} /\ task'[r].sid = s
      /\ task'[r].got = task[r].got \ {x}
      /\ task'[r].at = "mark" => task'[r].got = {}
  BY <1>0, UnwindEffect DEF db
<1>4. /\ mgrLocks'[x] = mgrLocks[x] \ {s}
      /\ \A y \in Symbol : y # x => mgrLocks'[y] = mgrLocks[y]
      /\ mgrLocks' \in Claims
  BY <1>0 DEF ResumeUnwind, ReleaseLock, Claims
<1>5. Resumed(s) /\ \A d : Resumed(d)' <=> Resumed(d)
  BY <1>1, <1>3 DEF LockParts, AcquiredIsHeld, Resumed
<1> HIDE DEF s
<1>6. AcquiredIsHeld'
  <2>1. ASSUME NEW q \in Request, q # r,
               task[q].at \in {"restore", "acquire", "unwind"}, NEW y \in task[q].got
        PROVE  mgrLocks'[y] = {task[q].sid}
    <3>1. /\ mgrLocks[y] = {task[q].sid} /\ task[q].sid # s
          /\ y \in Symbol
      BY <1>0, <1>2, <2>1 DEF LockParts, AcquiredIsHeld, Rehydrating, TypeOK, Local
    <3> QED BY <1>4, <3>1
  <2>2. ASSUME NEW y \in task'[r].got
        PROVE  mgrLocks'[y] = {s}
    <3>1. mgrLocks[y] = {s} /\ y \in Symbol /\ y # x
      BY <1>0, <1>1, <1>3, <2>2 DEF LockParts, AcquiredIsHeld, TypeOK, Local, s
    <3> QED BY <1>4, <3>1
  <2> QED BY <1>3, <1>5, <2>1, <2>2 DEF LockParts, AcquiredIsHeld
<1>7. LockIsJustified'
  <2>1. \A d : RowIsFinal(d)' <=> RowIsFinal(d)
    BY <1>3, FinalSame
  <2>2. \A y \in Symbol : \A d \in mgrLocks'[y] :
          d \in mgrLocks[y] /\ (y = x => d # s)
    BY <1>4
  <2>3. ASSUME NEW y \in Symbol, NEW d \in mgrLocks'[y], NEW q \in Request,
               task[q].at \in {"acquire", "unwind"}, task[q].sid = d, y \in task[q].got
        PROVE  /\ task'[q].at \in {"acquire", "unwind"}
               /\ task'[q].sid = d /\ y \in task'[q].got
    <3>1. CASE q # r
      BY <1>3, <2>3, <3>1
    <3>2. CASE q = r
      <4>1. d = s /\ y # x
        BY <2>2, <2>3, <3>2 DEF s
      <4>2. y \in task'[r].got
        BY <1>3, <2>3, <3>2, <4>1
      <4> QED BY <1>3, <3>2, <4>1, <4>2
    <3> QED BY <3>1, <3>2
  <2> QED BY <1>3, <2>1, <2>2, <2>3 DEF LockParts, LockIsJustified
<1>8. /\ ResumedIsUnregistered' /\ HolderIsResumed' /\ EvictionIsFinal'
      /\ ResumedOwnsItsChanges'
  <2>1. \A d \in Sid : live[d] # NoWs /\ Resumed(d) =>
          \A y \in overlay[d] : mgrLocks'[y] = {d}
    <3> SUFFICES ASSUME NEW d \in Sid, live[d] # NoWs, Resumed(d), NEW y \in overlay[d]
                 PROVE  mgrLocks'[y] = {d}
      OBVIOUS
    <3>1. mgrLocks[y] = {d} /\ d # s /\ y \in Symbol
      BY <1>0, <1>2 DEF LockParts, ResumedOwnsItsChanges, TypeOK
    <3> QED BY <1>4, <3>1
  <2>2. \A y \in Symbol : /\ \A d \in mgrLocks'[y] : d \in mgrLocks[y] \/ d = s
                          /\ \A d \in mgrLocks[y] : d \in mgrLocks'[y] \/ d = s
    BY <1>4
  <2> QED BY <1>1, <1>3, <1>4, <1>5, <2>1, <2>2, LocksGoOn DEF s
<1> QED BY <1>6, <1>7, <1>8 DEF LockParts

\* The workspace that comes back to memory has every lock it asked for.
LEMMA LocksInsert ==
    ASSUME LockInv, NEW r \in Request, ResumeInsert(r)
    PROVE  LockParts'
<1> DEFINE s == task[r].sid
<1> USE GcAssumption, NoWsAssumption DEF Task, LockInv
<1>0. TypeOK
  BY DEF RowInv, IdInv
<1>1. /\ Rehydrating(r) /\ task[r].at = "acquire"
      /\ task[r].todo = {} /\ ~task[r].flag
  BY DEF ResumeInsert, Rehydrating
<1>2. /\ s \in Sid /\ live[s] = NoWs
      /\ \A q \in Request : q # r /\ Rehydrating(q) => task[q].sid # s
      /\ task[r].ws \in Workspace
  BY <1>1, OwnId DEF RowInv, RehydrationIsAlone
<1>3. /\ UNCHANGED <<sid, cs, redirect, used, registered, mgrLocks>>
      /\ live'[s] = task[r].ws /\ overlay'[s] = task[r].syms
      /\ \A d \in Sid : d # s => live'[d] = live[d] /\ overlay'[d] = overlay[d]
      /\ task'[r] = Idle
      /\ \A u \in Task : u # r => task'[u] = task[u]
  BY <1>0, <1>2 DEF ResumeInsert, TypeOK, db
<1>4. /\ Resumed(s) /\ task[r].syms = task[r].got
      /\ \A x \in task[r].got : mgrLocks[x] = {s}
  BY <1>1 DEF LockParts, AcquiredIsHeld
<1>5. \A d : (Resumed(d)' <=> Resumed(d)) /\ (RowIsFinal(d)' <=> RowIsFinal(d))
  BY <1>3, FinalSame DEF Resumed
<1>6. ResumedIsUnregistered' /\ HolderIsResumed'
  BY <1>3, <1>5 DEF LockParts, ResumedIsUnregistered, HolderIsResumed
<1>7. AcquiredIsHeld'
  BY <1>3, <1>5 DEF LockParts, AcquiredIsHeld, Idle
<1> HIDE DEF s
<1>8. LockIsJustified'
  <2> SUFFICES ASSUME NEW x \in Symbol, NEW d \in mgrLocks[x]
               PROVE  \/ live'[d] # NoWs
                      \/ \E q \in Request : /\ task'[q].at \in {"acquire", "unwind"}
                                            /\ task'[q].sid = d /\ x \in task'[q].got
                      \/ RowIsFinal(d)'
    BY <1>3 DEF LockIsJustified
  <2>1. d \in Sid
    BY <1>0 DEF TypeOK, Claims
  <2>2. CASE d = s
    BY <1>2, <1>3, <2>2
  <2>3. CASE d # s
    <3>1. CASE live[d] # NoWs \/ RowIsFinal(d)
      BY <1>3, <1>5, <2>1, <2>3, <3>1
    <3>2. ASSUME NEW q \in Request, task[q].at \in {"acquire", "unwind"},
                 task[q].sid = d, x \in task[q].got
          PROVE  \E p \in Request : /\ task'[p].at \in {"acquire", "unwind"}
                                    /\ task'[p].sid = d /\ x \in task'[p].got
      <4>1. q # r
        BY <2>3, <3>2 DEF s
      <4> QED BY <1>3, <3>2, <4>1
    <3> QED BY <3>1, <3>2 DEF LockParts, LockIsJustified
  <2> QED BY <2>2, <2>3
<1>9. EvictionIsFinal'
  <2>1. task'[Gc] = task[Gc]
    BY <1>3
  <2>2. task[Gc].at = "decide" => task[Gc].sid # s /\ task[Gc].sid \in Sid
    BY <1>0, <1>1 DEF LockParts, EvictionIsFinal, TypeOK, s
  <2>3. \A q \in Request : Rehydrating(q)' => Rehydrating(q) /\ task'[q] = task[q]
    BY <1>3 DEF Rehydrating, Idle
  <2>4. task[Gc].at = "decide" => live'[task[Gc].sid] = live[task[Gc].sid]
    BY <1>3, <2>2
  <2>5. task[Gc].at = "decide" =>
          /\ Resumed(task[Gc].sid)' <=> Resumed(task[Gc].sid)
          /\ RowIsFinal(task[Gc].sid)' <=> RowIsFinal(task[Gc].sid)
    BY <1>3, <2>1 DEF Resumed, RowIsFinal, RowOf
  <2> QED BY <1>3, <2>1, <2>3, <2>4, <2>5 DEF LockParts, EvictionIsFinal
<1>10. ResumedOwnsItsChanges'
  <2> SUFFICES ASSUME NEW d \in Sid, live'[d] # NoWs, Resumed(d), NEW x \in overlay'[d]
               PROVE  mgrLocks[x] = {d}
    BY <1>3, <1>5 DEF ResumedOwnsItsChanges
  <2>1. CASE d = s
    BY <1>3, <1>4, <2>1
  <2>2. CASE d # s
    BY <1>3, <2>2 DEF LockParts, ResumedOwnsItsChanges
  <2> QED BY <2>1, <2>2
<1> QED BY <1>6, <1>7, <1>8, <1>9, <1>10 DEF LockParts

(* A crash loses every lock, and every resume with them. *)
LEMMA LocksCrash ==
    ASSUME LockInv, Crash
    PROVE  LockParts'
<1>1. /\ registered' = {} /\ \A t \in Task : task'[t] = Idle
      /\ \A s \in Sid : live'[s] = NoWs
      /\ \A x \in Symbol : mgrLocks'[x] = {}
  BY DEF Crash, NoClaims
<1> QED BY <1>1
    DEF LockParts, ResumedIsUnregistered, HolderIsResumed, AcquiredIsHeld,
        LockIsJustified, EvictionIsFinal, ResumedOwnsItsChanges, Idle, Task,
        Rehydrating

(* The invariant of the locks holds at the start. *)
LEMMA LockInit == Init => LockInv
<1> SUFFICES ASSUME Init PROVE LockInv
  OBVIOUS
<1>1. /\ registered = {} /\ \A t \in Task : task[t] = Idle
      /\ \A s \in Sid : live[s] = NoWs
      /\ \A s \in Sid : redirect[s] = NoSid
      /\ \A x \in Symbol : mgrLocks[x] = {}
  BY DEF Init, NoClaims
<1>2. LockParts
  BY <1>1, NoSidAssumption
  DEF LockParts, ResumedIsUnregistered, HolderIsResumed, AcquiredIsHeld,
      LockIsJustified, EvictionIsFinal, ResumedOwnsItsChanges, Idle, Task,
      Rehydrating, Resumed
<1> QED BY <1>2, RowInit DEF LockInv

(* Every step keeps the invariant of the locks. *)
LEMMA LockStep ==
    ASSUME PinFlag
    PROVE  LockInv /\ [Next]_vars => LockInv'
<1> SUFFICES ASSUME LockInv, [Next]_vars PROVE LockInv'
  OBVIOUS
<1>1. RowInv' /\ TypeOK'
  BY RowStep DEF LockInv, RowInv, IdInv
<1>2. LockParts'
  <2>1. LocksCalm => LockParts'
    BY <1>1, LocksCalmStep
  <2>2. CASE Agents
    BY <2>1, <2>2, LocksAgents
  <2>3. CASE GcStep
    BY <2>1, <2>3, LocksGc, LocksLook
  <2>4. ASSUME NEW t \in Task, StrandStep(t)
        PROVE  LockParts'
    <3>1. t \in Request
      BY <2>4 DEF StrandStep, StrandMark, StrandFree, StrandForget, StrandFails,
                  LockInv, RowInv, Stations, GcSteps, Task
    <3> QED BY <2>1, <2>4, <3>1, LocksStrand
  <2>5. ASSUME NEW t \in Task, AbandonStep(t)
        PROVE  LockParts'
    BY <2>1, <2>5, LocksAbandon
  <2>6. ASSUME NEW r \in Request, ResumeStep(r)
        PROVE  LockParts'
    BY <2>1, <2>6, LocksTurnBack, LocksRotate, LocksRestore, LocksAcquire,
       LocksUnwind, LocksInsert DEF ResumeStep
  <2>7. CASE Crash
    BY <2>7, LocksCrash
  <2>8. CASE Boot \/ UNCHANGED vars
    BY <2>1, <2>8, LocksBoot
  <2> QED BY <2>2, <2>3, <2>4, <2>5, <2>6, <2>7, <2>8 DEF Next
<1> QED BY <1>1, <1>2 DEF LockInv

\* While the pin rule is on, a resumed workspace in memory alone holds the
\* locks of its changes, and a lock of the workspace manager's belongs to a
\* workspace in memory, to a resume under way or to a final changeset,
\* whatever crashed, failed or was contended (resume).
THEOREM ResumesAreWhole ==
    ASSUME PinFlag
    PROVE  Spec => []ResumeIsWhole
<1>1. LockInv /\ [Next]_vars => LockInv'
  BY LockStep
<1>2. LockInv => ResumeIsWhole
  <2> SUFFICES ASSUME LockInv PROVE LockMeansResumed
    BY DEF LockInv, LockParts, ResumeIsWhole
  <2> QED BY DEF LockInv, LockParts, LockIsJustified, LockMeansResumed, RowIsFinal
<1> QED BY LockInit, <1>1, <1>2, PTL DEF Spec

=============================================================================
