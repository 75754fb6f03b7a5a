-------------------------- MODULE WorkspaceLifecycle --------------------------
(***************************************************************************)
(* The life of a session workspace across evictions and restarts: the      *)
(* WorkspaceManager of dk-engine (strand, abandon, resume, garbage         *)
(* collection and the reconciliation at boot), the session table of        *)
(* dk-protocol, and the rows both leave in the database.                   *)
(*                                                                         *)
(* A row of session_workspaces outlives the process; its session id is     *)
(* rotated when the workspace is resumed, and the old id is redirected to  *)
(* the new one.  Memory (workspaces, sessions, locks, running handlers)    *)
(* is lost in a crash.  Handlers and the garbage collector are sequences   *)
(* of steps separated by their awaits.                                     *)
(*                                                                         *)
(* Two claim trackers exist: the one the RPC handlers use, and one the     *)
(* workspace manager makes for itself.                                     *)
(*                                                                         *)
(* The changeset states submitted, verifying and approved are one here.    *)
(***************************************************************************)
EXTENDS FiniteSets, Naturals

CONSTANTS
    Workspace,    \* rows of session_workspaces, by primary key
    Sid,          \* session ids
    Symbol,
    Request,      \* slots for RPCs in flight
    Gc,           \* the task of the garbage collector
    NoSid,
    NoWs,
    PinFlag,      \* DKOD_PIN_NONTERMINAL
    DbMayFail,    \* may the database refuse a query?
    MaxCrashes    \* bound: restarts of the process

ASSUME NoSidAssumption == NoSid \notin Sid
ASSUME NoWsAssumption == NoWs \notin Workspace
ASSUME GcAssumption == Gc \notin Request
ASSUME LifecycleFlagAssumption == PinFlag \in BOOLEAN /\ DbMayFail \in BOOLEAN
ASSUME MaxCrashesAssumption == MaxCrashes \in Nat

INSTANCE ClaimTracker WITH Session <- Sid

VARIABLES
    sid,         \* per row, its current session id
    stranded,    \* the rows with stranded_at set
    abandoned,   \* the rows with abandoned_at set
    cs,          \* per row, the state of its changeset
    disk,        \* per row, the symbols changed in its persisted overlay
    redirect,    \* session_resume_redirects: the successor of a dead id
    used,        \* the session ids handed out
    live,        \* the workspace in memory under a session id
    overlay,     \* per session id, the overlay in memory
    registered,  \* the ids in the server's session table
    locks,       \* the claim tracker of the RPC handlers
    mgrLocks,    \* the claim tracker of the workspace manager
    task,        \* per running handler, its step and local variables
    phase,       \* "boot" until startup_reconcile is done
    crashes      \* restarts so far

db == <<sid, stranded, abandoned, cs, disk, redirect>>
memory == <<live, overlay, registered, locks, mgrLocks>>
vars == <<db, used, memory, task, phase, crashes>>

Task == Request \cup {Gc}

\* "submitted" includes verifying and approved.
State == {"draft", "submitted", "rejected", "merged"}

\* ChangesetState::is_terminal.
Terminal == {"draft", "rejected", "merged"}

At == {"idle", "tx", "restore", "acquire", "unwind",
       "mark", "free", "forget",
       "abandon", "abandonTx", "abandonFree", "abandonForget",
       "evict", "decide", "sweep"}

Local == [at : At, back : {"idle", "evict", "sweep"},
          sid : Sid \cup {NoSid}, ws : Workspace \cup {NoWs},
          syms : SUBSET Symbol, todo : SUBSET Symbol, got : SUBSET Symbol,
          flag : BOOLEAN, batch : SUBSET Sid]

Idle == [at |-> "idle", back |-> "idle", sid |-> NoSid, ws |-> NoWs,
         syms |-> {}, todo |-> {}, got |-> {}, flag |-> FALSE, batch |-> {}]

\* The rows a WHERE session_id = s finds.
RowOf(s) == {w \in Workspace : sid[w] = s}

\* Stranded and not yet abandoned.
Sweepable == stranded \ abandoned

Init ==
    /\ sid = [w \in Workspace |-> NoSid]
    /\ stranded = {}
    /\ abandoned = {}
    /\ cs = [w \in Workspace |-> "draft"]
    /\ disk = [w \in Workspace |-> {}]
    /\ redirect = [s \in Sid |-> NoSid]
    /\ used = {}
    /\ live = [s \in Sid |-> NoWs]
    /\ overlay = [s \in Sid |-> {}]
    /\ registered = {}
    /\ locks = NoClaims
    /\ mgrLocks = NoClaims
    /\ task = [t \in Task |-> Idle]
    /\ phase = "serving"
    /\ crashes = 0

\* n is a fresh id.  Ids are random: which one it is does not matter.
Mint(n) ==
    /\ n \notin used
    /\ n = CHOOSE m \in Sid \ used : TRUE
    /\ used' = used \cup {n}

Forget(s) ==
    /\ live' = [live EXCEPT ![s] = NoWs]
    /\ overlay' = [overlay EXCEPT ![s] = {}]

\* The caller of a subroutine goes on: a handler returns.
Back(t) ==
    task' = [task EXCEPT ![t] = IF @.back = "idle" THEN Idle
                                ELSE [Idle EXCEPT !.at = task[t].back,
                                                  !.batch = task[t].batch]]

-----------------------------------------------------------------------------
\* The RPCs of a session, each in one step: what happens between their awaits
\* is the subject of SymbolLocks.

\* CONNECT without a resume: a session, a changeset and a workspace row.
Connect(w, s) ==
    /\ phase = "serving"
    /\ sid[w] = NoSid
    /\ w = CHOOSE v \in Workspace : sid[v] = NoSid
    /\ Mint(s)
    /\ registered' = registered \cup {s}
    /\ sid' = [sid EXCEPT ![w] = s]
    /\ live' = [live EXCEPT ![s] = w]
    /\ UNCHANGED <<stranded, abandoned, cs, disk, redirect, overlay, locks,
                   mgrLocks, task, phase, crashes>>

\* validate_session and the look-up of the workspace.
Usable(s) == s \in registered /\ live[s] # NoWs

\* FILE_WRITE: the change is locked, persisted, and kept in memory.
Write(s, x) ==
    /\ Usable(s)
    /\ CanAcquire(locks, x, s)
    /\ locks' = AcquireLock(locks, x, s)
    /\ overlay' = [overlay EXCEPT ![s] = @ \cup {x}]
    /\ disk' = [disk EXCEPT ![live[s]] = @ \cup {x}]
    /\ UNCHANGED <<sid, stranded, abandoned, cs, redirect, used, live,
                   registered, mgrLocks, task, phase, crashes>>

SetState(w, state) == cs' = [cs EXCEPT ![w] = state]

\* SUBMIT: whatever state the changeset was in.
Submit(s) ==
    /\ Usable(s)
    /\ overlay[s] # {}
    /\ SetState(live[s], "submitted")
    /\ locks' = ReleaseLocks(locks, s)
    /\ UNCHANGED <<sid, stranded, abandoned, disk, redirect, used, live,
                   overlay, registered, mgrLocks, task, phase, crashes>>

\* VERIFY: the runner's verdict, whatever state the changeset was in.
Verify(s, verdict) ==
    /\ Usable(s)
    /\ SetState(live[s], verdict)
    /\ UNCHANGED <<sid, stranded, abandoned, disk, redirect, used, memory,
                   task, phase, crashes>>

\* MERGE of an approved changeset.
Merge(s) ==
    /\ Usable(s)
    /\ cs[live[s]] = "submitted"
    /\ SetState(live[s], "merged")
    /\ locks' = ReleaseLocks(locks, s)
    /\ UNCHANGED <<sid, stranded, abandoned, disk, redirect, used, live,
                   overlay, registered, mgrLocks, task, phase, crashes>>

\* CLOSE.
Close(s) ==
    /\ s \in registered
    /\ Forget(s)
    /\ registered' = registered \ {s}
    /\ UNCHANGED <<db, used, locks, mgrLocks, task, phase, crashes>>

\* get_session drops a session after 30 idle minutes.
Expire(s) ==
    /\ s \in registered
    /\ registered' = registered \ {s}
    /\ UNCHANGED <<db, used, live, overlay, locks, mgrLocks, task, phase,
                   crashes>>

-----------------------------------------------------------------------------
\* strand, on the id in task[t].sid.

\* Mark the row, whatever its state; a second mark changes nothing.
StrandMark(t) ==
    /\ task[t].at = "mark"
    /\ stranded' = stranded \cup RowOf(task[t].sid)
    /\ task' = [task EXCEPT ![t].at = "free"]
    /\ UNCHANGED <<sid, abandoned, cs, disk, redirect, used, memory, phase,
                   crashes>>

\* The locks go, in the workspace manager's tracker.
StrandFree(t) ==
    /\ task[t].at = "free"
    /\ mgrLocks' = ReleaseLocks(mgrLocks, task[t].sid)
    /\ task' = [task EXCEPT ![t].at = "forget"]
    /\ UNCHANGED <<db, used, live, overlay, registered, locks, phase, crashes>>

StrandForget(t) ==
    /\ task[t].at = "forget"
    /\ Forget(task[t].sid)
    /\ Back(t)
    /\ UNCHANGED <<db, used, registered, locks, mgrLocks, phase, crashes>>

\* A query fails: the garbage collector drops the workspace all the same, a
\* contended resume returns the error.
StrandFails(t) ==
    /\ DbMayFail
    /\ task[t].at = "mark"
    /\ IF t = Gc THEN Forget(task[t].sid) ELSE UNCHANGED <<live, overlay>>
    /\ Back(t)
    /\ UNCHANGED <<db, used, registered, locks, mgrLocks, phase, crashes>>

-----------------------------------------------------------------------------
\* The garbage collector

\* The idle and the aged workspaces.
GcCollect(X) ==
    /\ phase = "serving"
    /\ task[Gc].at = "idle"
    /\ \A s \in X : live[s] # NoWs
    /\ task' = [task EXCEPT ![Gc] = [Idle EXCEPT !.at = "evict", !.batch = X]]
    /\ UNCHANGED <<db, used, memory, phase, crashes>>

\* should_pin: the changeset is looked up; a failure counts as pinned.
GcLook(s) ==
    /\ task[Gc].at = "evict"
    /\ s \in task[Gc].batch
    /\ \E failed \in {FALSE, DbMayFail} :
         task' = [task EXCEPT ![Gc] =
                    [@ EXCEPT !.at = "decide", !.back = "evict", !.sid = s,
                              !.batch = task[Gc].batch \ {s},
                              !.flag = failed \/ \E w \in RowOf(s) :
                                                     cs[w] \notin Terminal]]
    /\ UNCHANGED <<db, used, memory, phase, crashes>>

\* Pinned: skipped, or stranded if the flag is off.  Terminal: evicted.
GcDecide ==
    /\ task[Gc].at = "decide"
    /\ \/ /\ task[Gc].flag /\ PinFlag
          /\ Back(Gc)
          /\ UNCHANGED <<live, overlay>>
       \/ /\ task[Gc].flag /\ ~PinFlag
          /\ task' = [task EXCEPT ![Gc].at = "mark"]
          /\ UNCHANGED <<live, overlay>>
       \/ /\ ~task[Gc].flag
          /\ Forget(task[Gc].sid)
          /\ Back(Gc)
    /\ UNCHANGED <<db, used, registered, locks, mgrLocks, phase, crashes>>

\* sweep_stranded: the rows stranded longer than the time to live.
GcSweep(X) ==
    /\ task[Gc].at = "evict"
    /\ task[Gc].batch = {}
    /\ \A s \in X : RowOf(s) \cap Sweepable # {}
    /\ task' = [task EXCEPT ![Gc] = [Idle EXCEPT !.at = "sweep", !.batch = X]]
    /\ UNCHANGED <<db, used, memory, phase, crashes>>

\* All are swept, or the query or one of the clean-ups failed.
GcRest ==
    /\ task[Gc].at = "sweep"
    /\ task[Gc].batch = {} \/ DbMayFail
    /\ task' = [task EXCEPT ![Gc] = Idle]
    /\ UNCHANGED <<db, used, memory, phase, crashes>>

-----------------------------------------------------------------------------
\* abandon_stranded

\* ABANDON: the row is read for the first time.
BeginAbandon(r, s) ==
    /\ task[r].at = "idle"
    /\ s \in registered
    /\ RowOf(s) \cap Sweepable # {}
    /\ task' = [task EXCEPT ![r] = [Idle EXCEPT !.at = "abandon", !.sid = s]]
    /\ UNCHANGED <<db, used, memory, phase, crashes>>

\* abandon_stranded is called, by the sweep or by ABANDON.
Abandoning(t, s) ==
    \/ t = Gc /\ task[t].at = "sweep" /\ s \in task[t].batch
    \/ task[t].at = "abandon" /\ task[t].sid = s

\* The row is read; its primary key is kept.
AbandonLook(t, s, w) ==
    /\ Abandoning(t, s)
    /\ w \in RowOf(s) \cap Sweepable
    /\ task' = [task EXCEPT ![t] =
                  [@ EXCEPT !.at = "abandonTx", !.sid = s, !.ws = w,
                            !.batch = task[t].batch \ {s},
                            !.back = IF t = Gc THEN "sweep" ELSE "idle"]]
    /\ UNCHANGED <<db, used, memory, phase, crashes>>

\* No row, or an abandoned one: nothing to do.  A row that is not stranded
\* any more is an error, which ends the sweep.
AbandonNot(t, s) ==
    /\ Abandoning(t, s)
    /\ RowOf(s) \cap Sweepable = {}
    /\ task' = [task EXCEPT ![t] =
                  IF t = Gc /\ RowOf(s) \subseteq abandoned
                    THEN [@ EXCEPT !.batch = task[t].batch \ {s}] ELSE Idle]
    /\ UNCHANGED <<db, used, memory, phase, crashes>>

\* Mutant: the overlay rows stay.
AbandonTx_keepsOverlay(t) ==
    LET w == task[t].ws IN
    /\ task[t].at = "abandonTx"
    /\ cs' = [cs EXCEPT ![w] = IF @ = "merged" THEN @ ELSE "rejected"]
    /\ abandoned' = abandoned \cup RowOf(task[t].sid)
    /\ task' = [task EXCEPT ![t].at = "abandonFree"]
    /\ UNCHANGED <<sid, stranded, disk, redirect, used, memory, phase, crashes>>

\* Mutant: the row is not tombstoned.
AbandonTx_noTombstone(t) ==
    LET w == task[t].ws IN
    /\ task[t].at = "abandonTx"
    /\ disk' = [disk EXCEPT ![w] = {}]
    /\ cs' = [cs EXCEPT ![w] = IF @ = "merged" THEN @ ELSE "rejected"]
    /\ task' = [task EXCEPT ![t].at = "abandonFree"]
    /\ UNCHANGED <<sid, stranded, abandoned, redirect, used, memory, phase,
                   crashes>>

\* One transaction: the overlay of the row that was read goes, its changeset
\* is rejected unless it is final, and the row that has the id now is
\* tombstoned.
AbandonTx(t) ==
    LET w == task[t].ws IN
    /\ task[t].at = "abandonTx"
    /\ disk' = [disk EXCEPT ![w] = {}]
    /\ cs' = [cs EXCEPT ![w] = IF @ = "merged" THEN @ ELSE "rejected"]
    /\ abandoned' = abandoned \cup RowOf(task[t].sid)
    /\ task' = [task EXCEPT ![t].at = "abandonFree"]
    /\ UNCHANGED <<sid, stranded, redirect, used, memory, phase, crashes>>

\* The transaction fails; an error ends the sweep.
AbandonFails(t) ==
    /\ DbMayFail
    /\ task[t].at = "abandonTx"
    /\ task' = [task EXCEPT ![t] = Idle]
    /\ UNCHANGED <<db, used, memory, phase, crashes>>

AbandonFree(t) ==
    /\ task[t].at = "abandonFree"
    /\ mgrLocks' = ReleaseLocks(mgrLocks, task[t].sid)
    /\ task' = [task EXCEPT ![t].at = "abandonForget"]
    /\ UNCHANGED <<db, used, live, overlay, registered, locks, phase, crashes>>

AbandonForget(t) ==
    /\ task[t].at = "abandonForget"
    /\ Forget(task[t].sid)
    /\ Back(t)
    /\ UNCHANGED <<db, used, registered, locks, mgrLocks, phase, crashes>>

-----------------------------------------------------------------------------
\* resume, called by CONNECT with a resume_session_id.

\* No redirect is found for the dead id.
ResumeBegin(r, s) ==
    /\ phase = "serving"
    /\ task[r].at = "idle"
    /\ s \in used
    /\ redirect[s] = NoSid
    /\ task' = [task EXCEPT ![r] = [Idle EXCEPT !.at = "tx", !.sid = s]]
    /\ UNCHANGED <<db, used, memory, phase, crashes>>

Resumable(w) == w \in Sweepable /\ cs[w] \notin Terminal

\* The row under FOR UPDATE may not be resumed.
ResumeRefused(r) ==
    /\ task[r].at = "tx"
    /\ \A w \in RowOf(task[r].sid) : ~Resumable(w)
    /\ task' = [task EXCEPT ![r] = Idle]
    /\ UNCHANGED <<db, used, memory, phase, crashes>>

\* Mutant: the row keeps its mark.
ResumeRotate_keepsMark(r, w, n) ==
    /\ task[r].at = "tx"
    /\ w \in RowOf(task[r].sid) /\ Resumable(w)
    /\ Mint(n)
    /\ redirect' = [redirect EXCEPT ![task[r].sid] = n]
    /\ sid' = [sid EXCEPT ![w] = n]
    /\ task' = [task EXCEPT ![r].at = "restore", ![r].sid = n, ![r].ws = w]
    /\ UNCHANGED <<stranded, abandoned, cs, disk, memory, phase, crashes>>

\* Mutant: the new session keeps the id of the dead one.
ResumeRotate_noRotation(r, w, n) ==
    /\ task[r].at = "tx"
    /\ w \in RowOf(task[r].sid) /\ Resumable(w)
    /\ Mint(n)
    /\ redirect' = [redirect EXCEPT ![task[r].sid] = n]
    /\ stranded' = stranded \ {w}
    /\ task' = [task EXCEPT ![r].at = "restore", ![r].sid = n, ![r].ws = w]
    /\ UNCHANGED <<sid, abandoned, cs, disk, memory, phase, crashes>>

\* The transaction: a redirect, and the row gets a fresh id.
ResumeRotate(r, w, n) ==
    /\ task[r].at = "tx"
    /\ w \in RowOf(task[r].sid) /\ Resumable(w)
    /\ Mint(n)
    /\ redirect' = [redirect EXCEPT ![task[r].sid] = n]
    /\ sid' = [sid EXCEPT ![w] = n]
    /\ stranded' = stranded \ {w}
    /\ task' = [task EXCEPT ![r].at = "restore", ![r].sid = n, ![r].ws = w]
    /\ UNCHANGED <<abandoned, cs, disk, memory, phase, crashes>>

\* The overlay is read and its symbols are indexed.
ResumeRestore(r) ==
    LET X == disk[task[r].ws] IN
    /\ task[r].at = "restore"
    /\ task' = [task EXCEPT ![r].at = "acquire", ![r].syms = X, ![r].todo = X]
    /\ UNCHANGED <<db, used, memory, phase, crashes>>

\* It fails: the row is stranded again, unless that fails too.
ResumeRestoreFails(r) ==
    /\ DbMayFail
    /\ task[r].at = "restore"
    /\ stranded' \in {stranded, stranded \cup RowOf(task[r].sid)}
    /\ task' = [task EXCEPT ![r] = Idle]
    /\ UNCHANGED <<sid, abandoned, cs, disk, redirect, used, memory, phase,
                   crashes>>

\* One acquire_lock, in the workspace manager's tracker.
ResumeAcquire(r, x) ==
    LET s == task[r].sid IN
    /\ task[r].at = "acquire"
    /\ x \in task[r].todo
    /\ mgrLocks' = AcquireLock(mgrLocks, x, s)
    /\ task' = [task EXCEPT
                  ![r].todo = @ \ {x},
                  ![r].got = IF CanAcquire(mgrLocks, x, s) THEN @ \cup {x} ELSE @,
                  ![r].flag = @ \/ ~CanAcquire(mgrLocks, x, s)]
    /\ UNCHANGED <<db, used, live, overlay, registered, locks, phase, crashes>>

\* Contended: the locks go back one by one, then the row is stranded again.
ResumeContended(r) ==
    /\ task[r].at = "acquire"
    /\ task[r].todo = {} /\ task[r].flag
    /\ task' = [task EXCEPT ![r].at = IF task[r].got = {} THEN "mark"
                                                          ELSE "unwind"]
    /\ UNCHANGED <<db, used, memory, phase, crashes>>

ResumeUnwind(r, x) ==
    /\ task[r].at = "unwind"
    /\ x \in task[r].got
    /\ mgrLocks' = ReleaseLock(mgrLocks, x, task[r].sid)
    /\ task' = [task EXCEPT ![r].got = @ \ {x},
                            ![r].at = IF task[r].got = {x} THEN "mark" ELSE @]
    /\ UNCHANGED <<db, used, live, overlay, registered, locks, phase, crashes>>

\* Mutant: contention is ignored.
ResumeInsert_always(r) ==
    /\ task[r].at = "acquire"
    /\ task[r].todo = {}
    /\ live' = [live EXCEPT ![task[r].sid] = task[r].ws]
    /\ overlay' = [overlay EXCEPT ![task[r].sid] = task[r].syms]
    /\ task' = [task EXCEPT ![r] = Idle]
    /\ UNCHANGED <<db, used, registered, locks, mgrLocks, phase, crashes>>

\* The workspace is in memory again and CONNECT answers with the new id.
ResumeInsert(r) ==
    /\ task[r].at = "acquire"
    /\ task[r].todo = {} /\ ~task[r].flag
    /\ live' = [live EXCEPT ![task[r].sid] = task[r].ws]
    /\ overlay' = [overlay EXCEPT ![task[r].sid] = task[r].syms]
    /\ task' = [task EXCEPT ![r] = Idle]
    /\ UNCHANGED <<db, used, registered, locks, mgrLocks, phase, crashes>>

-----------------------------------------------------------------------------
\* Crash and boot

Crash ==
    /\ crashes < MaxCrashes
    /\ crashes' = crashes + 1
    /\ live' = [s \in Sid |-> NoWs]
    /\ overlay' = [s \in Sid |-> {}]
    /\ registered' = {}
    /\ locks' = NoClaims
    /\ mgrLocks' = NoClaims
    /\ task' = [t \in Task |-> Idle]
    /\ phase' = "boot"
    /\ UNCHANGED <<db, used>>

\* The rows startup_reconcile selects.
Orphan(w) ==
    /\ sid[w] # NoSid
    /\ w \notin stranded \cup abandoned
    /\ cs[w] \notin Terminal

Reconcile(w) ==
    /\ phase = "boot"
    /\ Orphan(w)
    /\ stranded' = stranded \cup {w}
    /\ UNCHANGED <<sid, abandoned, cs, disk, redirect, used, memory, task,
                   phase, crashes>>

\* The garbage collector and the server start.
Serve ==
    /\ phase = "boot"
    /\ \A w \in Workspace : ~Orphan(w)
    /\ phase' = "serving"
    /\ UNCHANGED <<db, used, memory, task, crashes>>

-----------------------------------------------------------------------------

Agents ==
    \/ \E w \in Workspace, s \in Sid : Connect(w, s)
    \/ \E s \in Sid : \/ \E x \in Symbol : Write(s, x)
                      \/ \E verdict \in {"submitted", "rejected"} :
                             Verify(s, verdict)
                      \/ Submit(s) \/ Merge(s) \/ Close(s) \/ Expire(s)
    \/ \E r \in Request, s \in Sid : BeginAbandon(r, s) \/ ResumeBegin(r, s)

StrandStep(t) ==
    StrandMark(t) \/ StrandFree(t) \/ StrandForget(t) \/ StrandFails(t)

AbandonStep(t) ==
    \/ \E s \in Sid : AbandonNot(t, s) \/ \E w \in Workspace : AbandonLook(t, s, w)
    \/ AbandonTx(t) \/ AbandonFails(t) \/ AbandonFree(t) \/ AbandonForget(t)

ResumeStep(r) ==
    \/ ResumeRefused(r)
    \/ \E w \in Workspace, n \in Sid : ResumeRotate(r, w, n)
    \/ ResumeRestore(r) \/ ResumeRestoreFails(r)
    \/ \E x \in Symbol : ResumeAcquire(r, x) \/ ResumeUnwind(r, x)
    \/ ResumeContended(r)
    \/ ResumeInsert(r)

GcStep ==
    \/ \E X \in SUBSET Sid : GcCollect(X) \/ GcSweep(X)
    \/ \E s \in Sid : GcLook(s)
    \/ GcDecide \/ GcRest

Boot == Serve \/ \E w \in Workspace : Reconcile(w)

Next ==
    \/ Agents
    \/ GcStep
    \/ \E t \in Task : StrandStep(t) \/ AbandonStep(t)
    \/ \E r \in Request : ResumeStep(r)
    \/ Crash
    \/ Boot

Spec == Init /\ [][Next]_vars

\* The runtime runs every task on; boot does not stop half-way.  The sweep's
\* query returns every row that is stranded for long enough, so a row that
\* stays stranded is in a sweep again and again; the database may refuse its
\* clean-up often, but not for ever.
FairSpec ==
    /\ Spec
    /\ WF_vars(Boot)
    /\ WF_vars(GcStep \/ StrandStep(Gc) \/ AbandonStep(Gc))
    /\ \A r \in Request :
          WF_vars(ResumeStep(r) \/ StrandStep(r) \/ AbandonStep(r))
    /\ \A w \in Workspace :
          /\ SF_vars(\E X \in SUBSET Sid : GcSweep(X) /\ sid[w] \in X)
          /\ SF_vars(\E s \in Sid : AbandonLook(Gc, s, w))
          /\ SF_vars(task[Gc].ws = w /\ AbandonTx(Gc))

-----------------------------------------------------------------------------
(***************************************************************************)
(* Properties                                                              *)
(***************************************************************************)

\* The variables keep their types.
TypeOK ==
    /\ sid \in [Workspace -> Sid \cup {NoSid}]
    /\ stranded \subseteq Workspace /\ abandoned \subseteq Workspace
    /\ cs \in [Workspace -> State]
    /\ disk \in [Workspace -> SUBSET Symbol]
    /\ redirect \in [Sid -> Sid \cup {NoSid}]
    /\ used \subseteq Sid /\ registered \subseteq Sid
    /\ live \in [Sid -> Workspace \cup {NoWs}]
    /\ overlay \in [Sid -> SUBSET Symbol]
    /\ locks \in Claims /\ mgrLocks \in Claims
    /\ task \in [Task -> Local]
    /\ phase \in {"boot", "serving"}
    /\ crashes \in Nat

\* However resumes, crashes and connects interleave, no two rows share a
\* session id, and an id that has been redirected is the id of no row: a
\* dead session never comes back to life (resume's rotation).
DeadStaysDead ==
    /\ \A v, w \in Workspace : v # w => sid[v] # sid[w] \/ sid[v] = NoSid
    /\ \A w \in Workspace : sid[w] # NoSid => redirect[sid[w]] = NoSid

\* A redirect is never left dangling, not by a crash between the rotation and
\* the rehydration nor by a contended resume: it leads to the id of a row or
\* to another redirected id (resume's early redirect check).
RedirectLeadsHome ==
    \A s \in Sid : redirect[s] # NoSid =>
        \/ RowOf(redirect[s]) # {}
        \/ redirect[redirect[s]] # NoSid

\* While the pin rule is on, a workspace in memory is the row's current
\* session, and the row is neither stranded nor abandoned: no workspace is in
\* use under two ids, or while it may be resumed or swept elsewhere.
LiveIsCurrent ==
    \A s \in Sid : live[s] # NoWs =>
        /\ sid[live[s]] = s
        /\ live[s] \notin stranded \cup abandoned

\* While the pin rule is on, nothing survives abandonment: the changeset is
\* final, the persisted overlay stays empty (abandon_stranded).
AbandonedIsDead ==
    \A w \in abandoned : cs[w] \in {"rejected", "merged"} /\ disk[w] = {}

Resumed(s) == \E d \in Sid : redirect[d] = s

\* A workspace that a resume brought back to memory alone holds the locks of
\* its changes, in the workspace manager's tracker: two resumes never bring
\* back changes of one symbol (resume's eager acquisition).
ResumedOwnsItsChanges ==
    \A s \in Sid : live[s] # NoWs /\ Resumed(s) =>
        \A x \in overlay[s] : mgrLocks[x] = {s}

\* While the pin rule is on, a lock in the workspace manager's tracker belongs
\* to a workspace in memory, to a resume in progress or to a changeset that is
\* final: contended, failed or interrupted resumes leave none behind.  (The
\* eviction of a workspace whose changeset is final gives no lock back.)
LockMeansResumed ==
    \A x \in Symbol : \A s \in mgrLocks[x] :
        \/ live[s] # NoWs
        \/ \E r \in Request : task[r].sid = s
        \/ \E w \in RowOf(s) : cs[w] \in Terminal

\* A stranded workspace does not stay so: the sweep abandons it unless it is
\* resumed, whatever else was stranded, resumed or abandoned meanwhile.
StrandedIsSettled ==
    \A w \in Workspace :
        w \in stranded ~> w \notin stranded \/ w \in abandoned

\* The identities of workspaces agree: the variables keep their types, a dead
\* id stays dead, and what is in memory is its row's current session (resume,
\* strand, startup_reconcile).
IdsAreSound == TypeOK /\ DeadStaysDead /\ LiveIsCurrent

\* The locks of resumed workspaces are those of their changes, no more and no
\* fewer (resume, its roll-back and re-stranding).
ResumeIsWhole == LockMeansResumed /\ ResumedOwnsItsChanges

=============================================================================
