----------------------------- MODULE SymbolLocks -----------------------------
(***************************************************************************)
(* The handlers of dk-protocol that take and give back symbol locks:       *)
(* FILE_READ, FILE_WRITE, SUBMIT, MERGE and CLOSE, and the garbage         *)
(* collection of idle workspaces.  Every handler is a sequence of steps    *)
(* separated by its awaits; requests of several sessions, and several      *)
(* requests of one session, interleave between them.                       *)
(*                                                                         *)
(* A file's content is the set of its symbols that differ from the base    *)
(* commit, so an overlay is a set of symbols: those of the files written,  *)
(* as last written.  Time stamps are replaced by what is asked of them:    *)
(* seen[s][f] is the set of other sessions whose changeset has not been    *)
(* updated since s last read f, empty while s has not read f.              *)
(***************************************************************************)
EXTENDS ClaimTracker

CONSTANTS
    File,
    FileOf,            \* the file of every symbol
    Request,           \* slots for RPCs in flight
    SessionOf,         \* the session a slot belongs to
    ReleaseOnSubmit,   \* DKOD_RELEASE_ON_SUBMIT
    InlineChanges,     \* do SUBMIT requests carry changes of their own?
    MayFail,           \* the queries the database may refuse
    NoSession          \* the owner of a free symbol, see LockService

ASSUME FileOfAssumption == File # {} /\ FileOf \in [Symbol -> File]
ASSUME NoSessionAssumption == NoSession \notin Session
ASSUME SessionOfAssumption == SessionOf \in [Request -> Session]
ASSUME FlagAssumption ==
    /\ ReleaseOnSubmit \in BOOLEAN
    /\ InlineChanges \in BOOLEAN
    /\ MayFail \subseteq {"stale", "persist", "record", "submit", "merged"}

VARIABLES
    claims,    \* the server's claim tracker
    live,      \* the sessions whose workspace is in memory
    overlay,   \* per session, the symbols its overlay changes
    cs,        \* per session, the state of its changeset
    files,     \* per session, the paths of its changeset_files rows
    seen,      \* per session and file: see above
    pc,        \* per request, the step it is at
    job        \* per request, its arguments and local variables

server == <<claims, live, overlay, cs, files, seen>>
vars == <<claims, live, overlay, cs, files, seen, pc, job>>

\* "verifying" is part of "submitted" here.
CsState == {"draft", "submitted", "approved", "rejected", "merged"}

\* stale_overlay::LIVE_STATES.
LiveStates == {"submitted", "approved"}

\* ChangesetState::is_terminal.
Terminal == {"draft", "rejected", "merged"}

Steps == {"idle", "stale", "acquire", "unwind", "record",
          "submitFiles", "setSubmitted", "submitRelease",
          "mergeRelease", "setMerged"}

Job == [file : File, syms : SUBSET Symbol, todo : SUBSET Symbol,
        acquired : SUBSET Symbol, refused : BOOLEAN, view : SUBSET Session]

SymbolsIn(f) == {x \in Symbol : FileOf[x] = f}

FilesOf(X) == {FileOf[x] : x \in X}

NewJob(f, X, v) == [file |-> f, syms |-> X, todo |-> X, acquired |-> {},
                    refused |-> FALSE, view |-> v]

NoJob == NewJob(CHOOSE f \in File : TRUE, {}, {})

\* Every session has connected: its workspace is in memory and empty, its
\* changeset a draft.
Init ==
    /\ claims = NoClaims
    /\ live = Session
    /\ overlay = [s \in Session |-> {}]
    /\ cs = [s \in Session |-> "draft"]
    /\ files = [s \in Session |-> {}]
    /\ seen = [s \in Session |-> [f \in File |-> {}]]
    /\ pc = [r \in Request |-> "idle"]
    /\ job = [r \in Request |-> NoJob]

Goto(r, step) == pc' = [pc EXCEPT ![r] = step]

\* The handler returns and its locals go.
Return(r) ==
    /\ pc' = [pc EXCEPT ![r] = "idle"]
    /\ job' = [job EXCEPT ![r] = NoJob]

At(r, step) == pc[r] = step

\* Every status write stamps the changeset with now(): whoever read a file
\* before that no longer counts as having seen the changeset.
UpdateStatus(s, state) ==
    /\ cs' = [cs EXCEPT ![s] = state]
    /\ seen' = [t \in Session |-> [f \in File |-> seen[t][f] \ {s}]]

Unsee(s) == job' = [r \in Request |-> [job[r] EXCEPT !.view = @ \ {s}]]

-----------------------------------------------------------------------------
\* FILE_READ

\* mark_read; its stamp is looked at only while locks go at submission.
FileRead(s, f) ==
    /\ ReleaseOnSubmit
    /\ s \in live
    /\ seen' = [seen EXCEPT ![s][f] = Session \ {s}]
    /\ UNCHANGED <<claims, live, overlay, cs, files, pc, job>>

-----------------------------------------------------------------------------
\* FILE_WRITE

\* The workspace is looked up, the last read of the path is noted, and the
\* guard on the workspace dropped.
BeginWrite(r, f, X) ==
    /\ At(r, "idle")
    /\ SessionOf[r] \in live
    /\ X # {} /\ X \subseteq SymbolsIn(f)
    /\ job' = [job EXCEPT ![r] = NewJob(f, X, seen[SessionOf[r]][f])]
    /\ Goto(r, IF ReleaseOnSubmit THEN "stale" ELSE "acquire")
    /\ UNCHANGED server

\* list_path_competitors and is_stale.
StaleFor(r) ==
    \E t \in Session \ {SessionOf[r]} :
        /\ job[r].file \in files[t]
        /\ cs[t] \in LiveStates
        /\ t \notin job[r].view

CheckStale(r) ==
    /\ At(r, "stale")
    /\ IF StaleFor(r)
         THEN Return(r)
         ELSE Goto(r, "acquire") /\ job' = [job EXCEPT ![r].view = {}]
    /\ UNCHANGED server

\* The query fails: the write goes on unchecked.
StaleCheckFails(r) ==
    /\ "stale" \in MayFail
    /\ At(r, "stale")
    /\ Goto(r, "acquire")
    /\ job' = [job EXCEPT ![r].view = {}]
    /\ UNCHANGED server

\* Mutant: a locked symbol is waited for.
Acquire_waits(r, x) ==
    LET s == SessionOf[r] IN
    /\ At(r, "acquire")
    /\ x \in job[r].todo
    /\ CanAcquire(claims, x, s)
    /\ claims' = AcquireLock(claims, x, s)
    /\ job' = [job EXCEPT ![r].todo = @ \ {x}]
    /\ UNCHANGED <<live, overlay, cs, files, seen, pc>>

\* One acquire_lock call; the loop goes on after a refusal.  Only locks
\* acquired afresh are remembered for the rollback.
Acquire(r, x) ==
    LET s == SessionOf[r] IN
    /\ At(r, "acquire")
    /\ x \in job[r].todo
    /\ claims' = AcquireLock(claims, x, s)
    /\ job' = [job EXCEPT
                 ![r].todo = @ \ {x},
                 ![r].acquired = IF CanAcquire(claims, x, s) /\ IsFresh(claims, x, s)
                                   THEN @ \cup {x} ELSE @,
                 ![r].refused = @ \/ ~CanAcquire(claims, x, s)]
    /\ UNCHANGED <<live, overlay, cs, files, seen, pc>>

\* Mutant: the write is rejected without a rollback.
StartUnwind_forgets(r) ==
    /\ At(r, "acquire")
    /\ job[r].todo = {}
    /\ job[r].refused \/ SessionOf[r] \notin live \/ "persist" \in MayFail
    /\ Return(r)
    /\ UNCHANGED server

\* Some symbol is locked by another session, or the workspace has left
\* memory, or persisting the write fails: the locks go back.
StartUnwind(r) ==
    /\ At(r, "acquire")
    /\ job[r].todo = {}
    /\ job[r].refused \/ SessionOf[r] \notin live \/ "persist" \in MayFail
    /\ IF job[r].acquired = {} THEN Return(r) ELSE Goto(r, "unwind") /\ job' = job
    /\ UNCHANGED server

\* After the last one the write is answered.
Unwind(r, x) ==
    /\ At(r, "unwind")
    /\ x \in job[r].acquired
    /\ claims' = ReleaseLock(claims, x, SessionOf[r])
    /\ IF job[r].acquired = {x}
         THEN Return(r)
         ELSE pc' = pc /\ job' = [job EXCEPT ![r].acquired = @ \ {x}]
    /\ UNCHANGED <<live, overlay, cs, files, seen>>

Overwrite(s, f, X) ==
    overlay' = [overlay EXCEPT ![s] = (@ \ SymbolsIn(f)) \cup X]

WriteOverlay(r) ==
    LET s == SessionOf[r] IN
    /\ At(r, "acquire")
    /\ job[r].todo = {} /\ ~job[r].refused
    /\ s \in live
    /\ Overwrite(s, job[r].file, job[r].syms)
    /\ Goto(r, "record")
    /\ UNCHANGED <<claims, live, cs, files, seen, job>>

\* upsert_file, whose failure is ignored.
RecordFile(r) ==
    /\ At(r, "record")
    /\ \/ files' = [files EXCEPT ![SessionOf[r]] = @ \cup {job[r].file}]
       \/ "record" \in MayFail /\ files' = files
    /\ Return(r)
    /\ UNCHANGED <<claims, live, overlay, cs, seen>>

-----------------------------------------------------------------------------
\* SUBMIT

\* The MCP path: the changes are in the overlay, whose paths are noted.
BeginSubmit(r) ==
    LET s == SessionOf[r] IN
    /\ At(r, "idle")
    /\ s \in live
    /\ overlay[s] # {}
    /\ job' = [job EXCEPT ![r] = NewJob(job[r].file, overlay[s], {})]
    /\ Goto(r, "submitFiles")
    /\ UNCHANGED server

\* The SDK path: a change is applied to the overlay without a lock.  Another
\* change of the same request may be in error.
BeginInlineSubmit(r, f, X, errors) ==
    LET s == SessionOf[r] IN
    /\ InlineChanges
    /\ At(r, "idle")
    /\ s \in live
    /\ X # {} /\ X \subseteq SymbolsIn(f)
    /\ Overwrite(s, f, X)
    /\ job' = [job EXCEPT ![r] = [NewJob(f, overlay'[s], {})
                                    EXCEPT !.refused = errors]]
    /\ Goto(r, "submitFiles")
    /\ UNCHANGED <<claims, live, cs, files, seen>>

\* Mutant: the locks go with the files, before the status is written.
SubmitFiles_releases(r) ==
    /\ At(r, "submitFiles")
    /\ files' = [files EXCEPT ![SessionOf[r]] = @ \cup FilesOf(job[r].syms)]
    /\ claims' = ReleaseLocks(claims, SessionOf[r])
    /\ Goto(r, "setSubmitted") /\ job' = [job EXCEPT ![r] = NoJob]
    /\ UNCHANGED <<live, overlay, cs, seen>>

SubmitFiles(r) ==
    /\ At(r, "submitFiles")
    /\ files' = [files EXCEPT ![SessionOf[r]] = @ \cup FilesOf(job[r].syms)]
    /\ IF job[r].refused
         THEN Return(r)
         ELSE Goto(r, "setSubmitted") /\ job' = [job EXCEPT ![r] = NoJob]
    /\ UNCHANGED <<claims, live, overlay, cs, seen>>

\* The store or the re-indexing fails: the submission ends here.
SubmitFails(r) ==
    /\ "submit" \in MayFail
    /\ pc[r] \in {"submitFiles", "setSubmitted"}
    /\ Return(r)
    /\ UNCHANGED server

\* Mutant: a status no reader of the row knows.
SetSubmitted_typo(r) ==
    /\ At(r, "setSubmitted")
    /\ UpdateStatus(SessionOf[r], "submited")
    /\ Unsee(SessionOf[r])
    /\ Goto(r, IF ReleaseOnSubmit THEN "submitRelease" ELSE "idle")
    /\ UNCHANGED <<claims, live, overlay, files>>

SetSubmitted(r) ==
    /\ At(r, "setSubmitted")
    /\ UpdateStatus(SessionOf[r], "submitted")
    /\ Unsee(SessionOf[r])
    /\ Goto(r, IF ReleaseOnSubmit THEN "submitRelease" ELSE "idle")
    /\ UNCHANGED <<claims, live, overlay, files>>

SubmitRelease(r) ==
    /\ At(r, "submitRelease")
    /\ claims' = ReleaseLocks(claims, SessionOf[r])
    /\ Return(r)
    /\ UNCHANGED <<live, overlay, cs, files, seen>>

-----------------------------------------------------------------------------
\* VERIFY and APPROVE, each as one step: how they race with the other writers
\* of the status is the subject of another module.

\* The runner's verdict is written whatever state the changeset is in.
Verify(s) ==
    /\ s \in live
    /\ \E verdict \in {"approved", "rejected"} : UpdateStatus(s, verdict)
    /\ Unsee(s)
    /\ UNCHANGED <<claims, live, overlay, files, pc>>

Approve(s) ==
    /\ cs[s] \in {"submitted", "rejected"}
    /\ UpdateStatus(s, "approved")
    /\ Unsee(s)
    /\ UNCHANGED <<claims, live, overlay, files, pc>>

-----------------------------------------------------------------------------
\* MERGE

\* merge_workspace wrote a commit.  Conflicts and failures leave everything
\* as it is, the locks included.
BeginMerge(r) ==
    /\ At(r, "idle")
    /\ SessionOf[r] \in live
    /\ cs[SessionOf[r]] = "approved"
    /\ Goto(r, "mergeRelease")
    /\ UNCHANGED <<job, server>>

MergeRelease(r) ==
    /\ At(r, "mergeRelease")
    /\ claims' = ReleaseLocks(claims, SessionOf[r])
    /\ Goto(r, "setMerged")
    /\ UNCHANGED <<live, overlay, cs, files, seen, job>>

SetMerged(r) ==
    /\ At(r, "setMerged")
    /\ UpdateStatus(SessionOf[r], "merged")
    /\ Unsee(SessionOf[r])
    /\ Goto(r, "idle")
    /\ UNCHANGED <<claims, live, overlay, files>>

\* The store refuses set_merged after the commit.
SetMergedFails(r) ==
    /\ "merged" \in MayFail
    /\ At(r, "setMerged")
    /\ Return(r)
    /\ UNCHANGED server

-----------------------------------------------------------------------------
\* The end of a workspace in memory

\* CLOSE destroys the workspace and the session, whatever else of the
\* session is in flight.
Close(s) ==
    /\ s \in live
    /\ live' = live \ {s}
    /\ UNCHANGED <<claims, overlay, cs, files, seen, pc, job>>

\* gc_expired_sessions_async: an idle workspace whose changeset is terminal.
EvictIdle(s) ==
    /\ s \in live
    /\ cs[s] \in Terminal
    /\ live' = live \ {s}
    /\ UNCHANGED <<claims, overlay, cs, files, seen, pc, job>>

-----------------------------------------------------------------------------

\* The steps of a handler after its first one.
Continue(r) ==
    \/ CheckStale(r) \/ StaleCheckFails(r)
    \/ \E x \in Symbol : Acquire(r, x) \/ Unwind(r, x)
    \/ StartUnwind(r)
    \/ WriteOverlay(r) \/ RecordFile(r)
    \/ SubmitFiles(r) \/ SubmitFails(r) \/ SetSubmitted(r) \/ SubmitRelease(r)
    \/ MergeRelease(r) \/ SetMerged(r) \/ SetMergedFails(r)

Begin(r) ==
    \/ \E f \in File, X \in SUBSET Symbol : BeginWrite(r, f, X)
    \/ BeginSubmit(r)
    \/ \E f \in File, X \in SUBSET Symbol, errors \in BOOLEAN :
            BeginInlineSubmit(r, f, X, errors)
    \/ BeginMerge(r)

Next ==
    \/ \E r \in Request : Begin(r) \/ Continue(r)
    \/ \E s \in Session, f \in File : FileRead(s, f)
    \/ \E s \in Session : Verify(s) \/ Approve(s) \/ Close(s) \/ EvictIdle(s)

Spec == Init /\ [][Next]_vars

\* The runtime polls every handler until it returns; nothing obliges an
\* agent to send another request.
FairSpec == Spec /\ \A r \in Request : WF_vars(Continue(r))

-----------------------------------------------------------------------------
(***************************************************************************)
(* Properties                                                              *)
(***************************************************************************)

\* The variables keep their types.
TypeOK ==
    /\ claims \in Claims
    /\ live \subseteq Session
    /\ overlay \in [Session -> SUBSET Symbol]
    /\ cs \in [Session -> CsState]
    /\ files \in [Session -> SUBSET File]
    /\ seen \in [Session -> [File -> SUBSET Session]]
    /\ pc \in [Request -> Steps]
    /\ job \in [Request -> Job]

\* A symbol is never locked by two sessions, however acquisitions, rollbacks
\* and the releases of submit and merge interleave (acquire_lock).
LockExclusive == Exclusive(claims)

\* A change that only its draft knows of is protected by a lock of its
\* session: no rollback, rejected write or failed submission gives it up.
\* It is a property of agents that wait for an answer before they send the
\* next request, and do not send changes with their submission.
DraftIsLocked ==
    \A s \in Session :
        cs[s] = "draft" => \A x \in overlay[s] : s \in claims[x]

\* Whoever can lock a symbol that a live session has changed finds that
\* session's changeset on record for the stale-overlay check: the lock goes
\* only after the files and the status have been written.
LockedOrOnRecord ==
    \A s \in Session : \A x \in overlay[s] :
        s \in claims[x] \/ (cs[s] # "draft" /\ FileOf[x] \in files[s])

\* A session without a write in progress holds locks only in files that its
\* overlay changes: a rejected write leaves no lock that would block others.
NoPhantomLock ==
    \A s \in Session : \A x \in HeldBy(claims, s) :
        \/ FileOf[x] \in FilesOf(overlay[s])
        \/ \E r \in Request : SessionOf[r] = s /\ x \in job[r].acquired

\* Every request is answered, whatever locks others hold meanwhile: no
\* handler waits for a lock, so two that lock the same symbols in opposite
\* orders do not deadlock.
EveryRequestReturns == \A r \in Request : ~At(r, "idle") ~> At(r, "idle")

-----------------------------------------------------------------------------
\* The lock service these handlers implement.

Owner == [x \in Symbol |->
            IF claims[x] = {} THEN NoSession ELSE CHOOSE s \in claims[x] : TRUE]

Service == INSTANCE LockService WITH owner <- Owner

\* A lock passes from one session to another only by being given up.
ImplementsLockService == Service!Spec

=============================================================================
