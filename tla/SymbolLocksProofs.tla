-------------------------- MODULE SymbolLocksProofs --------------------------
(***************************************************************************)
(* Theorems about SymbolLocks: type correctness, exclusive ownership of    *)
(* symbols, and the refinement of LockService, for any number of sessions, *)
(* requests, files and symbols.                                            *)
(***************************************************************************)
EXTENDS SymbolLocks, TLAPS

-----------------------------------------------------------------------------
(* The claim table: what its operations return, and what they do to        *)
(* exclusive ownership.                                                    *)

\* The empty table is a table, and nobody shares a symbol in it
\* (LocalClaimTracker::new).
LEMMA NoClaimsFacts == NoClaims \in Claims /\ Exclusive(NoClaims)
BY DEF NoClaims, Claims, Exclusive

\* acquire_lock returns a table.
LEMMA AcquireLockType ==
    ASSUME NEW c \in Claims, NEW x \in Symbol, NEW s \in Session
    PROVE  AcquireLock(c, x, s) \in Claims
BY DEF AcquireLock, RecordClaim, Claims

\* acquire_lock leaves the caller's claim on the symbol, unless the symbol is
\* refused, and every other claim as it was.
LEMMA AcquireLockEffect ==
    ASSUME NEW c \in Claims, NEW x \in Symbol, NEW s \in Session
    PROVE  /\ CanAcquire(c, x, s) => AcquireLock(c, x, s)[x] = c[x] \cup {s}
           /\ ~CanAcquire(c, x, s) => AcquireLock(c, x, s) = c
           /\ \A y \in Symbol \ {x} : AcquireLock(c, x, s)[y] = c[y]
BY DEF AcquireLock, RecordClaim, Claims

\* acquire_lock never gives a symbol a second owner.
LEMMA AcquireLockExclusive ==
    ASSUME NEW c \in Claims, NEW x \in Symbol, NEW s \in Session, Exclusive(c)
    PROVE  Exclusive(AcquireLock(c, x, s))
<1>1. CASE CanAcquire(c, x, s)
  <2>1. c[x] \subseteq {s}
    BY <1>1 DEF CanAcquire, OtherHolders
  <2>2. AcquireLock(c, x, s)[x] \subseteq {s}
    BY <1>1, <2>1, AcquireLockEffect
  <2>3. \A y \in Symbol \ {x} : AcquireLock(c, x, s)[y] = c[y]
    BY AcquireLockEffect
  <2> QED BY <2>2, <2>3 DEF Exclusive
<1>2. CASE ~CanAcquire(c, x, s)
  BY <1>2, AcquireLockEffect
<1> QED BY <1>1, <1>2

\* release_lock only takes the session's claim on the symbol away.
LEMMA ReleaseLockFacts ==
    ASSUME NEW c \in Claims, NEW x \in Symbol, NEW s \in Session
    PROVE  /\ ReleaseLock(c, x, s) \in Claims
           /\ ReleaseLock(c, x, s)[x] = c[x] \ {s}
           /\ \A y \in Symbol \ {x} : ReleaseLock(c, x, s)[y] = c[y]
           /\ Exclusive(c) => Exclusive(ReleaseLock(c, x, s))
BY DEF ReleaseLock, Claims, Exclusive

\* release_locks takes every claim of the session away and no other.
LEMMA ReleaseLocksFacts ==
    ASSUME NEW c \in Claims, NEW s \in Session
    PROVE  /\ ReleaseLocks(c, s) \in Claims
           /\ \A y \in Symbol : ReleaseLocks(c, s)[y] = c[y] \ {s}
           /\ Exclusive(c) => Exclusive(ReleaseLocks(c, s))
BY DEF ReleaseLocks, Claims, Exclusive

-----------------------------------------------------------------------------
(* The handlers.                                                           *)

\* A handler's locals start out as a record of the right type (the locals of
\* handle_file_write and handle_submit).
LEMMA NewJobType ==
    ASSUME NEW f \in File, NEW X \in SUBSET Symbol, NEW v \in SUBSET Session
    PROVE  NewJob(f, X, v) \in Job
BY DEF NewJob, Job

(* No job is a job. *)
LEMMA NoJobType == NoJob \in Job
<1>1. (CHOOSE f \in File : TRUE) \in File
  BY FileOfAssumption
<1> QED BY <1>1, NewJobType DEF NoJob

\* Changing one local of a handler keeps the type of its locals.
LEMMA JobUpdate ==
    ASSUME NEW j \in Job, NEW X \in SUBSET Symbol, NEW Y \in SUBSET Symbol,
           NEW b \in BOOLEAN, NEW v \in SUBSET Session
    PROVE  /\ [j EXCEPT !.view = v] \in Job
           /\ [j EXCEPT !.acquired = X] \in Job
           /\ [j EXCEPT !.refused = b] \in Job
           /\ [j EXCEPT !.todo = X, !.acquired = Y, !.refused = b] \in Job
BY DEF Job

\* What the helpers of the actions leave behind.
LEMMA HelperTypes ==
    ASSUME TypeOK, NEW r \in Request
    PROVE  /\ Return(r) => pc' \in [Request -> Steps] /\ job' \in [Request -> Job]
           /\ \A st \in Steps : Goto(r, st) => pc' \in [Request -> Steps]
           /\ \A s \in Session : \A state \in CsState : UpdateStatus(s, state) =>
                 /\ cs' \in [Session -> CsState]
                 /\ seen' \in [Session -> [File -> SUBSET Session]]
           /\ \A s \in Session : Unsee(s) => job' \in [Request -> Job]
<1>1. Return(r) => pc' \in [Request -> Steps] /\ job' \in [Request -> Job]
  BY NoJobType DEF Return, TypeOK, Steps
<1>2. \A st \in Steps : Goto(r, st) => pc' \in [Request -> Steps]
  BY DEF Goto, TypeOK
<1>3. \A s \in Session : \A state \in CsState : UpdateStatus(s, state) =>
         /\ cs' \in [Session -> CsState]
         /\ seen' \in [Session -> [File -> SUBSET Session]]
  BY DEF UpdateStatus, TypeOK
<1>4. \A s \in Session : Unsee(s) => job' \in [Request -> Job]
  <2> SUFFICES ASSUME NEW s \in Session, Unsee(s)
               PROVE  job' \in [Request -> Job]
    OBVIOUS
  <2>1. \A q \in Request : [job[q] EXCEPT !.view = @ \ {s}] \in Job
    <3> TAKE q \in Request
    <3>1. job[q] \in Job /\ job[q].view \ {s} \in SUBSET Session
      BY DEF TypeOK, Job
    <3> QED BY <3>1, JobUpdate
  <2> QED BY <2>1 DEF Unsee
<1> QED BY <1>1, <1>2, <1>3, <1>4

(* The types hold at the start. *)
LEMMA TypeInit == Init => TypeOK
<1> SUFFICES ASSUME Init PROVE TypeOK
  OBVIOUS
<1>1. claims \in Claims
  BY NoClaimsFacts DEF Init
<1>2. job \in [Request -> Job]
  BY NoJobType DEF Init
<1>3. /\ live \subseteq Session
      /\ overlay \in [Session -> SUBSET Symbol]
      /\ cs \in [Session -> CsState]
      /\ files \in [Session -> SUBSET File]
      /\ seen \in [Session -> [File -> SUBSET Session]]
      /\ pc \in [Request -> Steps]
  BY DEF Init, CsState, Steps
<1> QED BY <1>1, <1>2, <1>3 DEF TypeOK

\* Every step of a handler keeps the types.
LEMMA TypeContinue ==
    ASSUME TypeOK, NEW r \in Request, Continue(r)
    PROVE  TypeOK'
<1> DEFINE s == SessionOf[r]
<1>s. s \in Session
  BY SessionOfAssumption
<1>j. /\ job[r] \in Job
      /\ job[r].file \in File
      /\ job[r].syms \subseteq Symbol
      /\ job[r].acquired \subseteq Symbol
      /\ job[r].todo \subseteq Symbol
      /\ job[r].view \subseteq Session
  BY DEF TypeOK, Job
<1> HIDE DEF s
<1>1. CASE CheckStale(r) \/ StaleCheckFails(r)
  <2>1. pc' \in [Request -> Steps]
    BY <1>1, HelperTypes DEF CheckStale, StaleCheckFails, Steps
  <2>2. job' \in [Request -> Job]
    <3>1. [job[r] EXCEPT !.view = {}] \in Job
      BY <1>j, JobUpdate
    <3> QED
      BY <1>1, <3>1, HelperTypes DEF CheckStale, StaleCheckFails, TypeOK
  <2> QED BY <1>1, <2>1, <2>2 DEF CheckStale, StaleCheckFails, TypeOK, server
<1>2. ASSUME NEW x \in Symbol, Acquire(r, x)
      PROVE  TypeOK'
  <2>1. claims' \in Claims
    BY <1>2, <1>s, AcquireLockType DEF Acquire, TypeOK, s
  <2>2. job' \in [Request -> Job]
    <3> DEFINE Got == IF CanAcquire(claims, x, SessionOf[r])
                           /\ IsFresh(claims, x, SessionOf[r])
                        THEN job[r].acquired \cup {x} ELSE job[r].acquired
               Refused == job[r].refused \/ ~CanAcquire(claims, x, SessionOf[r])
    <3>1. Got \in SUBSET Symbol /\ Refused \in BOOLEAN
          /\ job[r].todo \ {x} \in SUBSET Symbol
      BY <1>j
    <3>2. job' = [job EXCEPT ![r] = [job[r] EXCEPT !.todo = job[r].todo \ {x},
                                                   !.acquired = Got,
                                                   !.refused = Refused]]
      BY <1>2 DEF Acquire
    <3> HIDE DEF Got, Refused
    <3>3. [job[r] EXCEPT !.todo = job[r].todo \ {x}, !.acquired = Got,
                         !.refused = Refused] \in Job
      BY <1>j, <3>1, JobUpdate
    <3> QED BY <3>2, <3>3 DEF TypeOK
  <2> QED BY <1>2, <2>1, <2>2 DEF Acquire, TypeOK
<1>3. ASSUME NEW x \in Symbol, Unwind(r, x)
      PROVE  TypeOK'
  <2>1. claims' \in Claims
    BY <1>3, <1>s, ReleaseLockFacts DEF Unwind, TypeOK, s
  <2>2. pc' \in [Request -> Steps] /\ job' \in [Request -> Job]
    <3>1. [job[r] EXCEPT !.acquired = @ \ {x}] \in Job
      <4>1. job[r].acquired \ {x} \in SUBSET Symbol
        BY <1>j
      <4> QED BY <4>1, <1>j, JobUpdate
    <3> QED BY <1>3, <3>1, HelperTypes DEF Unwind, TypeOK
  <2> QED BY <1>3, <2>1, <2>2 DEF Unwind, TypeOK
<1>4. CASE StartUnwind(r)
  <2>1. pc' \in [Request -> Steps] /\ job' \in [Request -> Job]
    BY <1>4, HelperTypes DEF StartUnwind, TypeOK, Steps
  <2> QED BY <1>4, <2>1 DEF StartUnwind, TypeOK, server
<1>5. CASE WriteOverlay(r)
  <2>1. overlay' \in [Session -> SUBSET Symbol]
    BY <1>5, <1>s, <1>j DEF WriteOverlay, Overwrite, TypeOK, s
  <2>2. pc' \in [Request -> Steps]
    BY <1>5, HelperTypes DEF WriteOverlay, Steps
  <2> QED BY <1>5, <2>1, <2>2 DEF WriteOverlay, TypeOK
<1>6. CASE RecordFile(r)
  <2>1. files' \in [Session -> SUBSET File]
    BY <1>6, <1>j DEF RecordFile, TypeOK
  <2> QED BY <1>6, <2>1, HelperTypes DEF RecordFile, TypeOK
<1>7. CASE SubmitFiles(r)
  <2>1. FilesOf(job[r].syms) \subseteq File
    BY <1>j, FileOfAssumption DEF FilesOf
  <2>2. files' \in [Session -> SUBSET File]
    BY <1>7, <2>1 DEF SubmitFiles, TypeOK
  <2>3. pc' \in [Request -> Steps] /\ job' \in [Request -> Job]
    BY <1>7, HelperTypes, NoJobType DEF SubmitFiles, TypeOK, Steps
  <2> QED BY <1>7, <2>2, <2>3 DEF SubmitFiles, TypeOK
<1>8. CASE SubmitFails(r)
  BY <1>8, HelperTypes DEF SubmitFails, TypeOK, server
<1>9. CASE SetSubmitted(r)
  <2>1. pc' \in [Request -> Steps]
    BY <1>9, HelperTypes DEF SetSubmitted, Steps
  <2>2. /\ cs' \in [Session -> CsState]
        /\ seen' \in [Session -> [File -> SUBSET Session]]
    BY <1>9, <1>s, HelperTypes DEF SetSubmitted, CsState, s
  <2>3. job' \in [Request -> Job]
    BY <1>9, <1>s, HelperTypes DEF SetSubmitted, s
  <2> QED BY <1>9, <2>1, <2>2, <2>3 DEF SetSubmitted, TypeOK
<1>10. CASE SubmitRelease(r)
  <2>1. claims' \in Claims
    BY <1>10, <1>s, ReleaseLocksFacts DEF SubmitRelease, TypeOK, s
  <2> QED BY <1>10, <2>1, HelperTypes DEF SubmitRelease, TypeOK
<1>11. CASE MergeRelease(r)
  <2>1. claims' \in Claims
    BY <1>11, <1>s, ReleaseLocksFacts DEF MergeRelease, TypeOK, s
  <2>2. pc' \in [Request -> Steps]
    BY <1>11, HelperTypes DEF MergeRelease, Steps
  <2> QED BY <1>11, <2>1, <2>2 DEF MergeRelease, TypeOK
<1>12. CASE SetMerged(r)
  <2>1. pc' \in [Request -> Steps]
    BY <1>12, HelperTypes DEF SetMerged, Steps
  <2>2. /\ cs' \in [Session -> CsState]
        /\ seen' \in [Session -> [File -> SUBSET Session]]
    BY <1>12, <1>s, HelperTypes DEF SetMerged, CsState, s
  <2>3. job' \in [Request -> Job]
    BY <1>12, <1>s, HelperTypes DEF SetMerged, s
  <2> QED BY <1>12, <2>1, <2>2, <2>3 DEF SetMerged, TypeOK
<1>13. CASE SetMergedFails(r)
  BY <1>13, HelperTypes DEF SetMergedFails, TypeOK, server
<1> QED
  BY <1>1, <1>2, <1>3, <1>4, <1>5, <1>6, <1>7, <1>8, <1>9, <1>10, <1>11,
     <1>12, <1>13
  DEF Continue

\* The first step of a handler keeps the types.
LEMMA TypeBegin ==
    ASSUME TypeOK, NEW r \in Request, Begin(r)
    PROVE  TypeOK'
<1> DEFINE s == SessionOf[r]
<1>s. s \in Session
  BY SessionOfAssumption
<1> HIDE DEF s
<1>1. ASSUME NEW f \in File, NEW X \in SUBSET Symbol, BeginWrite(r, f, X)
      PROVE  TypeOK'
  <2>1. seen[s][f] \in SUBSET Session
    BY <1>s DEF TypeOK
  <2>2. job' \in [Request -> Job]
    BY <1>1, <2>1, NewJobType DEF BeginWrite, TypeOK, s
  <2>3. pc' \in [Request -> Steps]
    BY <1>1, HelperTypes DEF BeginWrite, Steps
  <2> QED BY <1>1, <2>2, <2>3 DEF BeginWrite, TypeOK, server
<1>2. CASE BeginSubmit(r)
  <2>1. job[r].file \in File /\ overlay[s] \in SUBSET Symbol
    BY <1>s DEF TypeOK, Job
  <2>2. job' \in [Request -> Job]
    BY <1>2, <2>1, NewJobType DEF BeginSubmit, TypeOK, s
  <2>3. pc' \in [Request -> Steps]
    BY <1>2, HelperTypes DEF BeginSubmit, Steps
  <2> QED BY <1>2, <2>2, <2>3 DEF BeginSubmit, TypeOK, server
<1>3. ASSUME NEW f \in File, NEW X \in SUBSET Symbol, NEW errors \in BOOLEAN,
             BeginInlineSubmit(r, f, X, errors)
      PROVE  TypeOK'
  <2>1. overlay' \in [Session -> SUBSET Symbol]
    BY <1>3, <1>s DEF BeginInlineSubmit, Overwrite, TypeOK, s
  <2>2. [NewJob(f, overlay'[s], {}) EXCEPT !.refused = errors] \in Job
    BY <2>1, <1>s, NewJobType, JobUpdate
  <2>3. job' \in [Request -> Job]
    BY <1>3, <2>2 DEF BeginInlineSubmit, TypeOK, s
  <2>4. pc' \in [Request -> Steps]
    BY <1>3, HelperTypes DEF BeginInlineSubmit, Steps
  <2> QED BY <1>3, <2>1, <2>3, <2>4 DEF BeginInlineSubmit, TypeOK
<1>4. CASE BeginMerge(r)
  <2>1. pc' \in [Request -> Steps]
    BY <1>4, HelperTypes DEF BeginMerge, Steps
  <2> QED BY <1>4, <2>1 DEF BeginMerge, TypeOK, server
<1> QED BY <1>1, <1>2, <1>3, <1>4 DEF Begin

(* Every step keeps the types. *)
LEMMA TypeNext == TypeOK /\ [Next]_vars => TypeOK'
<1> SUFFICES ASSUME TypeOK, [Next]_vars
             PROVE  TypeOK'
  OBVIOUS
<1>1. ASSUME NEW r \in Request, Begin(r) \/ Continue(r)
      PROVE  TypeOK'
  BY <1>1, TypeBegin, TypeContinue
<1>2. ASSUME NEW s \in Session, NEW f \in File, FileRead(s, f)
      PROVE  TypeOK'
  BY <1>2 DEF FileRead, TypeOK
<1>3. ASSUME NEW s \in Session, Verify(s) \/ Approve(s)
      PROVE  TypeOK'
  <2>1. PICK state \in CsState : UpdateStatus(s, state)
    BY <1>3 DEF Verify, Approve, CsState
  <2>2. /\ cs' \in [Session -> CsState]
        /\ seen' \in [Session -> [File -> SUBSET Session]]
    BY <2>1 DEF UpdateStatus, TypeOK
  <2>3. Unsee(s)
    BY <1>3 DEF Verify, Approve
  <2>4. job' \in [Request -> Job]
    <3> SUFFICES ASSUME NEW q \in Request
                 PROVE  [job[q] EXCEPT !.view = @ \ {s}] \in Job
      BY <2>3 DEF Unsee
    <3>1. job[q] \in Job /\ job[q].view \ {s} \in SUBSET Session
      BY DEF TypeOK, Job
    <3> QED BY <3>1, JobUpdate
  <2> QED BY <1>3, <2>2, <2>4 DEF Verify, Approve, TypeOK
<1>4. ASSUME NEW s \in Session, Close(s) \/ EvictIdle(s)
      PROVE  TypeOK'
  BY <1>4 DEF Close, EvictIdle, TypeOK
<1>5. CASE UNCHANGED vars
  BY <1>5 DEF vars, TypeOK
<1> QED BY <1>1, <1>2, <1>3, <1>4, <1>5 DEF Next

\* Whatever the handlers do, the variables keep their types.
THEOREM TypeCorrect == Spec => []TypeOK
BY TypeInit, TypeNext, PTL DEF Spec

-----------------------------------------------------------------------------
(***************************************************************************)
(* Every step does one of three things to the claims: nothing, one         *)
(* acquisition by one session, or a release by one session.  Exclusive     *)
(* ownership and the refinement of LockService both follow from that.      *)
(***************************************************************************)

ClaimStep(s) ==
    \/ \E x \in Symbol : claims' = AcquireLock(claims, x, s)
    \/ \E x \in Symbol : claims' = ReleaseLock(claims, x, s)
    \/ claims' = ReleaseLocks(claims, s)

\* The handlers touch the claim tracker in no other way.
LEMMA ClaimSteps ==
    ASSUME [Next]_vars
    PROVE  claims' = claims \/ \E s \in Session : ClaimStep(s)
<1>1. ASSUME NEW r \in Request, Begin(r) \/ Continue(r)
      PROVE  claims' = claims \/ ClaimStep(SessionOf[r])
  <2>1. CASE Begin(r)
    BY <2>1 DEF Begin, BeginWrite, BeginSubmit, BeginInlineSubmit, BeginMerge,
                server
  <2>2. ASSUME NEW x \in Symbol, Acquire(r, x) \/ Unwind(r, x)
        PROVE  ClaimStep(SessionOf[r])
    BY <2>2 DEF Acquire, Unwind, ClaimStep
  <2>3. CASE SubmitRelease(r) \/ MergeRelease(r)
    BY <2>3 DEF SubmitRelease, MergeRelease, ClaimStep
  <2>4. CASE \/ CheckStale(r) \/ StaleCheckFails(r) \/ StartUnwind(r)
             \/ WriteOverlay(r) \/ RecordFile(r) \/ SubmitFiles(r)
             \/ SubmitFails(r) \/ SetSubmitted(r) \/ SetMerged(r)
             \/ SetMergedFails(r)
    BY <2>4 DEF CheckStale, StaleCheckFails, StartUnwind, WriteOverlay,
                RecordFile, SubmitFiles, SubmitFails, SetSubmitted, SetMerged,
                SetMergedFails, server
  <2> QED BY <1>1, <2>1, <2>2, <2>3, <2>4 DEF Continue
<1>2. ASSUME NEW s \in Session,
             \/ \E f \in File : FileRead(s, f)
             \/ Verify(s) \/ Approve(s) \/ Close(s) \/ EvictIdle(s)
      PROVE  claims' = claims
  BY <1>2 DEF FileRead, Verify, Approve, Close, EvictIdle
<1>3. CASE UNCHANGED vars
  BY <1>3 DEF vars
<1> QED BY <1>1, <1>2, <1>3, SessionOfAssumption DEF Next

\* A symbol is never locked by two sessions: for any number of sessions,
\* handlers, files and symbols, whatever fails and whoever leaves.
THEOREM LocksExclusive == Spec => []LockExclusive
<1>1. Init => LockExclusive
  BY NoClaimsFacts DEF Init, LockExclusive
<1>2. TypeOK /\ LockExclusive /\ [Next]_vars => LockExclusive'
  <2> SUFFICES ASSUME TypeOK, Exclusive(claims), [Next]_vars
               PROVE  Exclusive(claims')
    BY DEF LockExclusive, Exclusive
  <2>1. CASE claims' = claims
    BY <2>1
  <2>2. ASSUME NEW s \in Session, ClaimStep(s)
        PROVE  Exclusive(claims')
    <3>1. claims \in Claims
      BY DEF TypeOK
    <3> QED
      BY <2>2, <3>1, AcquireLockExclusive, ReleaseLockFacts, ReleaseLocksFacts
      DEF ClaimStep
  <2> QED BY <2>1, <2>2, ClaimSteps
<1> QED BY <1>1, <1>2, TypeCorrect, PTL DEF Spec

-----------------------------------------------------------------------------
(***************************************************************************)
(* The refinement of LockService                                           *)
(***************************************************************************)

\* Ownership read off a table that nobody shares a symbol in.
OwnerIn(c) == [x \in Symbol |->
                 IF c[x] = {} THEN NoSession ELSE CHOOSE s \in c[x] : TRUE]

(* Exclusive claims on a symbol are its owner, or nobody. *)
LEMMA OwnerFacts ==
    ASSUME NEW c \in Claims, Exclusive(c), NEW x \in Symbol
    PROVE  /\ c[x] = {} <=> OwnerIn(c)[x] = NoSession
           /\ \A s \in Session : s \in c[x] <=> OwnerIn(c)[x] = s
<1>1. CASE c[x] = {}
  BY <1>1, NoSessionAssumption DEF OwnerIn
<1>2. CASE c[x] # {}
  <2>1. OwnerIn(c)[x] \in c[x]
    BY <1>2 DEF OwnerIn
  <2>2. c[x] \subseteq Session
    BY DEF Claims
  <2>3. \A s, t \in c[x] : s = t
    BY DEF Exclusive
  <2> QED BY <2>1, <2>2, <2>3, <1>2, NoSessionAssumption
<1> QED BY <1>1, <1>2

\* Two tables that agree on a symbol name the same owner.
LEMMA OwnerLocal ==
    ASSUME NEW c, NEW d, NEW x \in Symbol, c[x] = d[x]
    PROVE  OwnerIn(c)[x] = OwnerIn(d)[x]
<1>1. OwnerIn(c)[x] = IF c[x] = {} THEN NoSession ELSE CHOOSE s \in c[x] : TRUE
  BY DEF OwnerIn
<1>2. OwnerIn(d)[x] = IF d[x] = {} THEN NoSession ELSE CHOOSE s \in d[x] : TRUE
  BY DEF OwnerIn
<1> QED BY <1>1, <1>2, Zenon

\* An acquisition grants a free symbol, or changes nothing.
LEMMA AcquireRefines ==
    ASSUME NEW c \in Claims, Exclusive(c), NEW x \in Symbol, NEW s \in Session
    PROVE  LET d == AcquireLock(c, x, s) IN
           \/ OwnerIn(d) = OwnerIn(c)
           \/ /\ OwnerIn(c)[x] = NoSession
              /\ OwnerIn(d) = [OwnerIn(c) EXCEPT ![x] = s]
<1> DEFINE d == AcquireLock(c, x, s)
<1>1. d \in Claims /\ Exclusive(d)
  BY AcquireLockType, AcquireLockExclusive
<1>2. \A y \in Symbol \ {x} : OwnerIn(d)[y] = OwnerIn(c)[y]
  BY AcquireLockEffect, OwnerLocal
<1>3. CASE CanAcquire(c, x, s) /\ s \notin c[x]
  <2>1. c[x] = {}
    BY <1>3 DEF CanAcquire, OtherHolders
  <2>2. OwnerIn(c)[x] = NoSession
    BY <2>1, OwnerFacts
  <2>3. s \in d[x]
    BY <1>3, AcquireLockEffect
  <2>4. OwnerIn(d)[x] = s
    BY <1>1, <2>3, OwnerFacts
  <2>5. OwnerIn(d) = [OwnerIn(c) EXCEPT ![x] = s]
    BY <1>2, <2>4 DEF OwnerIn
  <2> QED BY <2>2, <2>5
<1>4. CASE ~(CanAcquire(c, x, s) /\ s \notin c[x])
  <2>1. d[x] = c[x]
    <3>1. CASE CanAcquire(c, x, s)
      <4>1. s \in c[x]
        BY <1>4, <3>1
      <4>2. d[x] = c[x] \cup {s}
        BY <3>1, AcquireLockEffect
      <4> QED BY <4>1, <4>2
    <3>2. CASE ~CanAcquire(c, x, s)
      BY <3>2, AcquireLockEffect
    <3> QED BY <3>1, <3>2
  <2>2. OwnerIn(d)[x] = OwnerIn(c)[x]
    BY <2>1, OwnerLocal
  <2>3. OwnerIn(d) = OwnerIn(c)
    BY <1>2, <2>2 DEF OwnerIn
  <2> QED BY <2>3
<1> QED BY <1>3, <1>4

\* A release by a session gives up what it owned of some symbols.
LEMMA ReleaseRefines ==
    ASSUME NEW c \in Claims, NEW d \in Claims, Exclusive(c), NEW s \in Session,
           NEW X \in SUBSET Symbol,
           \A y \in X : d[y] = c[y] \ {s},
           \A y \in Symbol \ X : d[y] = c[y]
    PROVE  \E Y \in SUBSET Symbol :
              /\ \A y \in Y : OwnerIn(c)[y] = s
              /\ OwnerIn(d) = [y \in Symbol |-> IF y \in Y THEN NoSession
                                                           ELSE OwnerIn(c)[y]]
<1> DEFINE Y == {y \in X : s \in c[y]}
<1>1. \A y \in Y : OwnerIn(c)[y] = s
  BY OwnerFacts
<1>2. Exclusive(d)
  <2>1. \A y \in Symbol : d[y] \subseteq c[y]
    OBVIOUS
  <2> QED BY <2>1 DEF Exclusive
<1>3. ASSUME NEW y \in Symbol
      PROVE  OwnerIn(d)[y] = IF y \in Y THEN NoSession ELSE OwnerIn(c)[y]
  <2>1. CASE y \in Y
    <3>1. d[y] = {}
      BY <2>1 DEF Exclusive
    <3> QED BY <2>1, <3>1, <1>2, OwnerFacts
  <2>2. CASE y \notin Y
    <3>1. d[y] = c[y]
      BY <2>2
    <3> QED BY <2>2, <3>1, OwnerLocal
  <2> QED BY <2>1, <2>2
<1>4. OwnerIn(d) = [y \in Symbol |-> IF y \in Y THEN NoSession
                                                ELSE OwnerIn(c)[y]]
  BY <1>3 DEF OwnerIn
<1> QED BY <1>1, <1>4

\* A step of the handlers is a step of the lock service, or none.
LEMMA StepRefines ==
    ASSUME TypeOK, LockExclusive, [Next]_vars
    PROVE  [Service!Next]_Owner
<1>1. Owner = OwnerIn(claims) /\ Owner' = OwnerIn(claims')
  BY DEF Owner, OwnerIn
<1>2. claims \in Claims /\ Exclusive(claims)
  BY DEF TypeOK, LockExclusive
<1>3. CASE claims' = claims
  BY <1>1, <1>3
<1>4. ASSUME NEW s \in Session, NEW x \in Symbol,
             claims' = AcquireLock(claims, x, s)
      PROVE  [Service!Next]_Owner
  BY <1>1, <1>2, <1>4, AcquireRefines DEF Service!Next, Service!Grant
<1>5. ASSUME NEW s \in Session,
             \E Y \in SUBSET Symbol :
                /\ \A y \in Y : Owner[y] = s
                /\ Owner' = [y \in Symbol |-> IF y \in Y THEN NoSession
                                                         ELSE Owner[y]]
      PROVE  [Service!Next]_Owner
  BY <1>5 DEF Service!Next, Service!GiveUp
<1>6. ASSUME NEW s \in Session, NEW x \in Symbol,
             claims' = ReleaseLock(claims, x, s)
      PROVE  [Service!Next]_Owner
  <2>1. /\ claims' \in Claims
        /\ \A y \in {x} : claims'[y] = claims[y] \ {s}
        /\ \A y \in Symbol \ {x} : claims'[y] = claims[y]
    BY <1>2, <1>6, ReleaseLockFacts
  <2>2. \E Y \in SUBSET Symbol :
           /\ \A y \in Y : OwnerIn(claims)[y] = s
           /\ OwnerIn(claims') =
                [y \in Symbol |-> IF y \in Y THEN NoSession
                                             ELSE OwnerIn(claims)[y]]
    <3> DEFINE X == {x}  d == claims'
    <3>1. X \in SUBSET Symbol /\ d \in Claims
      BY <2>1
    <3>2. /\ \A y \in X : d[y] = claims[y] \ {s}
          /\ \A y \in Symbol \ X : d[y] = claims[y]
      BY <2>1
    <3> HIDE DEF X, d
    <3>3. \E Y \in SUBSET Symbol :
             /\ \A y \in Y : OwnerIn(claims)[y] = s
             /\ OwnerIn(d) = [y \in Symbol |-> IF y \in Y THEN NoSession
                                                 ELSE OwnerIn(claims)[y]]
      BY <1>2, <3>1, <3>2, ReleaseRefines
    <3> QED BY <3>3 DEF d
  <2> QED BY <1>1, <1>5, <2>2
<1>7. ASSUME NEW s \in Session, claims' = ReleaseLocks(claims, s)
      PROVE  [Service!Next]_Owner
  <2>1. /\ claims' \in Claims
        /\ \A y \in Symbol : claims'[y] = claims[y] \ {s}
        /\ \A y \in Symbol \ Symbol : claims'[y] = claims[y]
    BY <1>2, <1>7, ReleaseLocksFacts
  <2> QED BY <1>1, <1>2, <1>5, <2>1, ReleaseRefines
<1> QED BY <1>3, <1>4, <1>6, <1>7, ClaimSteps DEF ClaimStep

\* The handlers implement the lock service: a free symbol is granted to one
\* session, and passes to another only by being given up.
THEOREM Refinement == Spec => ImplementsLockService
<1>1. Init => Service!Init
  BY DEF Init, Service!Init, Owner, NoClaims
<1>2. TypeOK /\ LockExclusive /\ [Next]_vars => [Service!Next]_Owner
  BY StepRefines
<1> QED
  BY <1>1, <1>2, TypeCorrect, LocksExclusive, PTL
  DEF Spec, Service!Spec, ImplementsLockService

-----------------------------------------------------------------------------
(***************************************************************************)
(* What a write holds, from its arrival to its answer.  A lock that it has *)
(* acquired afresh is remembered until it goes back, or until the overlay  *)
(* holds a change of the file.                                             *)
(***************************************************************************)

Writing == {"stale", "acquire", "unwind", "record"}

WriteJob(r) ==
    /\ pc[r] \in Writing =>
         /\ job[r].syms # {} /\ job[r].syms \subseteq SymbolsIn(job[r].file)
         /\ job[r].todo \subseteq job[r].syms /\ job[r].acquired \subseteq job[r].syms
    /\ job[r].acquired # {} => pc[r] \in {"acquire", "unwind", "record"}
    /\ pc[r] = "record" => job[r].file \in FilesOf(overlay[SessionOf[r]])

PhantomInv == TypeOK /\ NoPhantomLock /\ \A r \in Request : WriteJob(r)

(***************************************************************************)
(* Agents that send one request at a time.                                 *)
(***************************************************************************)

OneAtATime == \A q, r \in Request : SessionOf[q] = SessionOf[r] => q = r

\* What the one request of a session guarantees of the locks it has taken,
\* and is allowed to give back.
DraftJob(r) ==
    LET s == SessionOf[r] IN
    /\ pc[r] \in {"stale", "acquire"} /\ ~job[r].refused =>
         \A x \in job[r].syms \ job[r].todo : s \in claims[x]
    /\ cs[s] = "draft" /\ pc[r] # "record" => \A x \in job[r].acquired : x \notin overlay[s]
    /\ pc[r] = "record" =>
         \A x \in overlay[s] \cap SymbolsIn(job[r].file) : s \in claims[x]
    /\ pc[r] \in {"submitRelease", "mergeRelease"} => cs[s] # "draft"

DraftInv == PhantomInv /\ DraftIsLocked /\ \A r \in Request : DraftJob(r)

\* A file that an overlay changes is on record, or about to be.
OnRecord ==
    \A s \in Session : \A x \in overlay[s] :
        \/ FileOf[x] \in files[s]
        \/ \E r \in Request : /\ SessionOf[r] = s /\ pc[r] = "record"
                             /\ job[r].file = FileOf[x]

\* The locals of a request stay, but for what it has seen.
SameJob(q) ==
    /\ job'[q].file = job[q].file /\ job'[q].syms = job[q].syms
    /\ job'[q].todo = job[q].todo /\ job'[q].acquired = job[q].acquired
    /\ job'[q].refused = job[q].refused

(* Forgetting what a session saw changes no job. *)
LEMMA UnseeFrame ==
    ASSUME TypeOK, NEW s \in Session, Unsee(s), NEW q \in Request
    PROVE  SameJob(q)
BY DEF Unsee, TypeOK, Job, SameJob

\* A request changes its own locals, and of the sessions its own.
LEMMA RequestFrame ==
    ASSUME TypeOK, NEW r \in Request, Begin(r) \/ Continue(r)
    PROVE  /\ \A q \in Request \ {r} : pc'[q] = pc[q] /\ SameJob(q)
           /\ \A s \in Session \ {SessionOf[r]} :
                /\ overlay'[s] = overlay[s] /\ cs'[s] = cs[s] /\ files'[s] = files[s]
                /\ \A x \in Symbol : s \in claims'[x] <=> s \in claims[x]
           /\ \A s \in Session : files[s] \subseteq files'[s] /\ (cs[s] # "draft" => cs'[s] # "draft")
<1>0. SessionOf[r] \in Session
  BY SessionOfAssumption
<1>1. \A q \in Request \ {r} : pc'[q] = pc[q]
  BY DEF TypeOK, Begin, Continue, BeginWrite, BeginSubmit, BeginInlineSubmit, BeginMerge,
     CheckStale, StaleCheckFails, Acquire, Unwind, StartUnwind, WriteOverlay, RecordFile,
     SubmitFiles, SubmitFails, SetSubmitted, SubmitRelease, MergeRelease, SetMerged,
     SetMergedFails, Goto, Return
<1>2. \A q \in Request \ {r} : SameJob(q)
  <2>1. \/ job' = job
        \/ \E j : job' = [job EXCEPT ![r] = j]
        \/ Unsee(SessionOf[r])
    BY DEF Begin, Continue, BeginWrite, BeginSubmit, BeginInlineSubmit, BeginMerge,
       CheckStale, StaleCheckFails, Acquire, Unwind, StartUnwind, WriteOverlay, RecordFile,
       SubmitFiles, SubmitFails, SetSubmitted, SubmitRelease, MergeRelease, SetMerged,
       SetMergedFails, Return
  <2> QED BY <1>0, <2>1, UnseeFrame DEF SameJob, TypeOK
<1>3. \A s \in Session \ {SessionOf[r]} : overlay'[s] = overlay[s]
  BY DEF TypeOK, Begin, Continue, BeginWrite, BeginSubmit, BeginInlineSubmit, BeginMerge,
     CheckStale, StaleCheckFails, Acquire, Unwind, StartUnwind, WriteOverlay, RecordFile,
     SubmitFiles, SubmitFails, SetSubmitted, SubmitRelease, MergeRelease, SetMerged,
     SetMergedFails, Overwrite, server
<1>4. /\ \A s \in Session \ {SessionOf[r]} : cs'[s] = cs[s]
      /\ \A s \in Session : cs[s] # "draft" => cs'[s] # "draft"
  <2>1. cs' = cs \/ \E state \in {"submitted", "merged"} : cs' = [cs EXCEPT ![SessionOf[r]] = state]
    BY DEF Begin, Continue, BeginWrite, BeginSubmit, BeginInlineSubmit, BeginMerge,
       CheckStale, StaleCheckFails, Acquire, Unwind, StartUnwind, WriteOverlay, RecordFile,
       SubmitFiles, SubmitFails, SetSubmitted, SubmitRelease, MergeRelease, SetMerged,
       SetMergedFails, UpdateStatus, server
  <2> QED BY <2>1 DEF TypeOK
<1>5. /\ \A s \in Session \ {SessionOf[r]} : files'[s] = files[s]
      /\ \A s \in Session : files[s] \subseteq files'[s]
  <2>1. files' = files \/ \E F : files' = [files EXCEPT ![SessionOf[r]] = @ \cup F]
    BY DEF Begin, Continue, BeginWrite, BeginSubmit, BeginInlineSubmit, BeginMerge,
       CheckStale, StaleCheckFails, Acquire, Unwind, StartUnwind, WriteOverlay, RecordFile,
       SubmitFiles, SubmitFails, SetSubmitted, SubmitRelease, MergeRelease, SetMerged,
       SetMergedFails, server
  <2> QED BY <2>1 DEF TypeOK
<1>6. \A s \in Session \ {SessionOf[r]} : \A x \in Symbol : s \in claims'[x] <=> s \in claims[x]
  <2>1. claims' = claims \/ ClaimStep(SessionOf[r])
    BY DEF Begin, Continue, BeginWrite, BeginSubmit, BeginInlineSubmit, BeginMerge,
       CheckStale, StaleCheckFails, Acquire, Unwind, StartUnwind, WriteOverlay, RecordFile,
       SubmitFiles, SubmitFails, SetSubmitted, SubmitRelease, MergeRelease, SetMerged,
       SetMergedFails, server, ClaimStep
  <2>2. claims \in Claims
    BY DEF TypeOK
  <2>3. ASSUME NEW y \in Symbol, claims' = AcquireLock(claims, y, SessionOf[r])
        PROVE  \A s \in Session \ {SessionOf[r]} :
                 \A x \in Symbol : s \in claims'[x] <=> s \in claims[x]
    BY <1>0, <2>2, <2>3, AcquireLockEffect
  <2>4. ASSUME NEW y \in Symbol, claims' = ReleaseLock(claims, y, SessionOf[r])
        PROVE  \A s \in Session \ {SessionOf[r]} :
                 \A x \in Symbol : s \in claims'[x] <=> s \in claims[x]
    BY <1>0, <2>2, <2>4, ReleaseLockFacts
  <2>5. ASSUME claims' = ReleaseLocks(claims, SessionOf[r])
        PROVE  \A s \in Session \ {SessionOf[r]} :
                 \A x \in Symbol : s \in claims'[x] <=> s \in claims[x]
    BY <1>0, <2>2, <2>5, ReleaseLocksFacts
  <2> QED BY <2>1, <2>3, <2>4, <2>5 DEF ClaimStep
<1> QED BY <1>1, <1>2, <1>3, <1>4, <1>5, <1>6

\* What happens to a session beside its requests.
LEMMA SessionFrame ==
    ASSUME TypeOK,
           \/ \E s \in Session, f \in File : FileRead(s, f)
           \/ \E s \in Session : Verify(s) \/ Approve(s) \/ Close(s) \/ EvictIdle(s)
           \/ UNCHANGED vars
    PROVE  /\ pc' = pc /\ \A q \in Request : SameJob(q)
           /\ UNCHANGED <<claims, overlay, files>>
           /\ \A s \in Session : cs[s] # "draft" => cs'[s] # "draft"
<1>1. ASSUME NEW s \in Session, Verify(s) \/ Approve(s)
      PROVE  /\ pc' = pc /\ \A q \in Request : SameJob(q)
             /\ UNCHANGED <<claims, overlay, files>>
             /\ \A t \in Session : cs[t] # "draft" => cs'[t] # "draft"
  <2>1. Unsee(s) /\ UNCHANGED <<claims, overlay, files, pc>>
    BY <1>1 DEF Verify, Approve
  <2>2. \E state \in {"approved", "rejected"} : cs' = [cs EXCEPT ![s] = state]
    BY <1>1 DEF Verify, Approve, UpdateStatus
  <2> QED BY <2>1, <2>2, UnseeFrame DEF TypeOK
<1>2. ASSUME \/ \E s \in Session, f \in File : FileRead(s, f)
             \/ \E s \in Session : Close(s) \/ EvictIdle(s)
             \/ UNCHANGED vars
      PROVE  UNCHANGED <<claims, overlay, cs, files, pc, job>>
  BY <1>2 DEF FileRead, Close, EvictIdle, vars
<1> QED BY <1>1, <1>2 DEF SameJob

(* What is known of no job. *)
LEMMA NoJobFacts ==
    /\ NoJob.file \in File /\ NoJob.syms = {} /\ NoJob.todo = {} /\ NoJob.acquired = {}
    /\ NoJob.refused = FALSE
BY NoJobType DEF NoJob, NewJob, Job

\* The symbols of a file, replaced by some of the file: no file goes from the
\* overlay.
LEMMA OverwriteFiles ==
    ASSUME NEW O \in SUBSET Symbol, NEW f \in File, NEW X \in SUBSET SymbolsIn(f), X # {}
    PROVE  /\ FilesOf(O) \subseteq FilesOf((O \ SymbolsIn(f)) \cup X)
           /\ f \in FilesOf((O \ SymbolsIn(f)) \cup X)
BY DEF FilesOf, SymbolsIn

\* What a request's step leaves of its locks.
KeepsTrack(r) ==
    LET s == SessionOf[r] IN
    /\ WriteJob(r)'
    /\ \A x \in job[r].acquired :
          \/ x \in job'[r].acquired \/ FileOf[x] \in FilesOf(overlay'[s])
          \/ s \notin claims'[x]
    /\ \A x \in Symbol : s \in claims'[x] => s \in claims[x] \/ x \in job'[r].acquired
    /\ FilesOf(overlay[s]) \subseteq FilesOf(overlay'[s])

(* A request that begins keeps track of its session's locks. *)
LEMMA BeginKeepsTrack ==
    ASSUME PhantomInv, NEW r \in Request, Begin(r)
    PROVE  KeepsTrack(r)
<1> DEFINE s == SessionOf[r]
<1>0. /\ TypeOK /\ s \in Session /\ WriteJob(r) /\ job[r] \in Job
      /\ overlay[s] \subseteq Symbol
  BY SessionOfAssumption DEF PhantomInv, TypeOK
<1>1. pc[r] = "idle" /\ claims' = claims /\ job[r].acquired = {}
  BY <1>0 DEF Begin, BeginWrite, BeginSubmit, BeginInlineSubmit, BeginMerge, At, server, WriteJob
<1>2. ASSUME NEW f \in File, NEW X \in SUBSET Symbol, BeginWrite(r, f, X)
      PROVE  KeepsTrack(r)
  <2>1. /\ job'[r].file = f /\ job'[r].syms = X /\ job'[r].todo = X /\ job'[r].acquired = {}
        /\ pc'[r] \in {"stale", "acquire"} /\ overlay' = overlay
        /\ X # {} /\ X \subseteq SymbolsIn(f)
    BY <1>0, <1>2 DEF BeginWrite, NewJob, Goto, TypeOK, server
  <2> QED BY <1>0, <1>1, <2>1 DEF KeepsTrack, WriteJob
<1>3. CASE BeginSubmit(r)
  <2>1. job'[r].acquired = {} /\ pc'[r] = "submitFiles" /\ overlay' = overlay
    BY <1>0, <1>3 DEF BeginSubmit, NewJob, Goto, TypeOK, server
  <2> QED BY <1>0, <1>1, <2>1 DEF KeepsTrack, WriteJob, Writing
<1>4. ASSUME NEW f \in File, NEW X \in SUBSET Symbol, NEW errors \in BOOLEAN,
             BeginInlineSubmit(r, f, X, errors)
      PROVE  KeepsTrack(r)
  <2>1. /\ pc'[r] = "submitFiles"
        /\ job'[r] = [NewJob(f, overlay'[s], {}) EXCEPT !.refused = errors]
        /\ overlay'[s] = (overlay[s] \ SymbolsIn(f)) \cup X
        /\ X # {} /\ X \subseteq SymbolsIn(f)
    BY <1>0, <1>4 DEF BeginInlineSubmit, Goto, Overwrite, TypeOK
  <2>2. job'[r].acquired = {}
    BY <2>1 DEF NewJob
  <2>3. FilesOf(overlay[s]) \subseteq FilesOf(overlay'[s])
    BY <1>0, <2>1, OverwriteFiles
  <2> QED BY <1>0, <1>1, <2>1, <2>2, <2>3 DEF KeepsTrack, WriteJob, Writing
<1>5. CASE BeginMerge(r)
  <2>1. pc'[r] = "mergeRelease" /\ job' = job /\ overlay' = overlay
    BY <1>0, <1>5 DEF BeginMerge, Goto, TypeOK, server
  <2> QED BY <1>0, <1>1, <2>1 DEF KeepsTrack, WriteJob, Writing
<1> QED BY <1>2, <1>3, <1>4, <1>5 DEF Begin

(* So does one that goes on. *)
LEMMA ContinueKeepsTrack ==
    ASSUME PhantomInv, NEW r \in Request, Continue(r)
    PROVE  KeepsTrack(r)
<1> DEFINE s == SessionOf[r]
<1>0. /\ TypeOK /\ s \in Session /\ WriteJob(r) /\ job[r] \in Job /\ claims \in Claims
      /\ overlay[s] \subseteq Symbol /\ job[r].file \in File
      /\ job[r].acquired \subseteq Symbol /\ job[r].syms \subseteq Symbol
  BY SessionOfAssumption DEF PhantomInv, TypeOK, Job
<1>1. CASE CheckStale(r) \/ StaleCheckFails(r)
  <2>1. /\ pc[r] = "stale" /\ claims' = claims /\ overlay' = overlay
        /\ \/ pc'[r] = "idle" /\ job'[r] = NoJob
           \/ pc'[r] = "acquire" /\ SameJob(r)
    BY <1>0, <1>1 DEF CheckStale, StaleCheckFails, At, Goto, Return, TypeOK, Job, SameJob, server
  <2> QED BY <1>0, <2>1, NoJobFacts DEF KeepsTrack, WriteJob, Writing, SameJob
<1>2. ASSUME NEW x \in Symbol, Acquire(r, x)
      PROVE  KeepsTrack(r)
  <2> DEFINE Fresh == CanAcquire(claims, x, s) /\ IsFresh(claims, x, s)
  <2>1. /\ pc[r] = "acquire" /\ pc'[r] = "acquire" /\ overlay' = overlay
        /\ x \in job[r].todo /\ claims' = AcquireLock(claims, x, s)
        /\ job'[r].file = job[r].file /\ job'[r].syms = job[r].syms
        /\ job'[r].todo = job[r].todo \ {x}
        /\ job'[r].acquired = IF Fresh THEN job[r].acquired \cup {x} ELSE job[r].acquired
    BY <1>0, <1>2 DEF Acquire, At, TypeOK, Job
  <2>2. \A y \in Symbol : s \in claims'[y] => s \in claims[y] \/ (y = x /\ Fresh)
    <3>1. CASE CanAcquire(claims, x, s)
      BY <1>0, <2>1, <3>1, AcquireLockEffect DEF IsFresh
    <3>2. CASE ~CanAcquire(claims, x, s)
      BY <1>0, <2>1, <3>2, AcquireLockEffect
    <3> QED BY <3>1, <3>2
  <2> HIDE DEF Fresh
  <2>3. WriteJob(r)'
    BY <1>0, <2>1 DEF WriteJob, Writing
  <2> QED BY <1>0, <2>1, <2>2, <2>3 DEF KeepsTrack
<1>3. ASSUME NEW x \in Symbol, Unwind(r, x)
      PROVE  KeepsTrack(r)
  <2>1. /\ pc[r] = "unwind" /\ overlay' = overlay
        /\ \/ pc'[r] = "idle" /\ job'[r] = NoJob /\ job[r].acquired = {x}
           \/ /\ pc'[r] = "unwind" /\ job'[r].acquired = job[r].acquired \ {x}
              /\ job'[r].file = job[r].file /\ job'[r].syms = job[r].syms
              /\ job'[r].todo = job[r].todo
    BY <1>0, <1>3 DEF Unwind, At, Return, TypeOK, Job
  <2>2. /\ s \notin claims'[x]
        /\ \A y \in Symbol : s \in claims'[y] => s \in claims[y]
    BY <1>0, <1>3, ReleaseLockFacts DEF Unwind
  <2>3. WriteJob(r)'
    BY <1>0, <2>1, NoJobFacts DEF WriteJob, Writing
  <2> QED BY <1>0, <2>1, <2>2, <2>3, NoJobFacts DEF KeepsTrack
<1>4. CASE StartUnwind(r)
  <2>1. /\ pc[r] = "acquire" /\ claims' = claims /\ overlay' = overlay
        /\ \/ pc'[r] = "idle" /\ job'[r] = NoJob /\ job[r].acquired = {}
           \/ pc'[r] = "unwind" /\ job' = job
    BY <1>0, <1>4 DEF StartUnwind, At, Goto, Return, TypeOK, server
  <2> QED BY <1>0, <2>1, NoJobFacts DEF KeepsTrack, WriteJob, Writing
<1>5. CASE WriteOverlay(r)
  <2>1. /\ pc[r] = "acquire" /\ pc'[r] = "record" /\ job' = job /\ claims' = claims
        /\ overlay'[s] = (overlay[s] \ SymbolsIn(job[r].file)) \cup job[r].syms
    BY <1>0, <1>5 DEF WriteOverlay, Overwrite, At, Goto, TypeOK
  <2>2. job[r].syms # {} /\ job[r].syms \subseteq SymbolsIn(job[r].file)
    BY <1>0, <2>1 DEF WriteJob, Writing
  <2>3. /\ FilesOf(overlay[s]) \subseteq FilesOf(overlay'[s])
        /\ job[r].file \in FilesOf(overlay'[s])
    BY <1>0, <2>1, <2>2, OverwriteFiles
  <2> QED BY <1>0, <2>1, <2>3 DEF KeepsTrack, WriteJob, Writing
<1>6. CASE RecordFile(r)
  <2>1. /\ pc[r] = "record" /\ pc'[r] = "idle" /\ job'[r] = NoJob
        /\ claims' = claims /\ overlay' = overlay
    BY <1>0, <1>6 DEF RecordFile, At, Return, TypeOK
  <2>2. \A x \in job[r].acquired : FileOf[x] \in FilesOf(overlay'[s])
    BY <1>0, <2>1 DEF WriteJob, Writing, SymbolsIn
  <2> QED BY <1>0, <2>1, <2>2, NoJobFacts DEF KeepsTrack, WriteJob, Writing
<1>7. CASE \/ SubmitFiles(r) \/ SubmitFails(r) \/ SetSubmitted(r) \/ SubmitRelease(r)
           \/ MergeRelease(r) \/ SetMerged(r) \/ SetMergedFails(r)
  <2>1. pc[r] \in {"submitFiles", "setSubmitted", "submitRelease", "mergeRelease", "setMerged"}
    BY <1>7 DEF SubmitFiles, SubmitFails, SetSubmitted, SubmitRelease, MergeRelease, SetMerged,
                SetMergedFails, At
  <2>2. pc'[r] \notin Writing /\ overlay' = overlay
    BY <1>0, <1>7 DEF SubmitFiles, SubmitFails, SetSubmitted, SubmitRelease, MergeRelease,
                SetMerged, SetMergedFails, Goto, Return, TypeOK, Writing, server
  <2>3. job'[r].acquired = {}
    <3>1. CASE SetSubmitted(r) \/ SetMerged(r)
      BY <1>0, <2>1, <3>1, UnseeFrame DEF SetSubmitted, SetMerged, SameJob, WriteJob
    <3>2. CASE SubmitFiles(r) \/ SubmitFails(r) \/ SubmitRelease(r) \/ SetMergedFails(r)
      BY <1>0, <2>1, <3>2, NoJobFacts DEF SubmitFiles, SubmitFails, SubmitRelease, SetMergedFails,
         Return, TypeOK
    <3>3. CASE MergeRelease(r)
      BY <1>0, <2>1, <3>3 DEF MergeRelease, WriteJob
    <3> QED BY <1>7, <3>1, <3>2, <3>3
  <2>4. \A x \in Symbol : s \in claims'[x] => s \in claims[x]
    <3>1. claims' = claims \/ claims' = ReleaseLocks(claims, s)
      BY <1>7 DEF SubmitFiles, SubmitFails, SetSubmitted, SubmitRelease, MergeRelease,
                  SetMerged, SetMergedFails, server
    <3> QED BY <1>0, <3>1, ReleaseLocksFacts
  <2>5. job[r].acquired = {}
    BY <1>0, <2>1 DEF WriteJob
  <2> QED BY <1>0, <2>2, <2>3, <2>4, <2>5 DEF KeepsTrack, WriteJob, Writing
<1> QED BY <1>1, <1>2, <1>3, <1>4, <1>5, <1>6, <1>7 DEF Continue

(* Every step keeps the invariant: a lock is held for a change, or by a write
   that will release it. *)
LEMMA PhantomStep == PhantomInv /\ [Next]_vars => PhantomInv'
<1> SUFFICES ASSUME PhantomInv, [Next]_vars PROVE PhantomInv'
  OBVIOUS
<1>0. TypeOK /\ TypeOK' /\ NoPhantomLock
  BY TypeNext DEF PhantomInv
<1>1. ASSUME NEW r \in Request, Begin(r) \/ Continue(r)
      PROVE  PhantomInv'
  <2>1. KeepsTrack(r)
    BY <1>1, BeginKeepsTrack, ContinueKeepsTrack
  <2>2. \A t \in Session : FilesOf(overlay[t]) \subseteq FilesOf(overlay'[t])
    BY <1>0, <1>1, <2>1, RequestFrame DEF KeepsTrack
  <2>3. ASSUME NEW q \in Request PROVE WriteJob(q)'
    <3>1. CASE q = r
      BY <2>1, <3>1 DEF KeepsTrack
    <3>2. CASE q # r
      <4>1. pc'[q] = pc[q] /\ SameJob(q) /\ WriteJob(q) /\ SessionOf[q] \in Session
        BY <1>0, <1>1, <3>2, RequestFrame, SessionOfAssumption DEF PhantomInv
      <4> QED BY <2>2, <4>1 DEF WriteJob, SameJob
    <3> QED BY <3>1, <3>2
  <2>4. ASSUME NEW t \in Session, NEW x \in Symbol, t \in claims'[x]
        PROVE  \/ FileOf[x] \in FilesOf(overlay'[t])
               \/ \E q \in Request : SessionOf[q] = t /\ x \in job'[q].acquired
    <3>1. CASE t = SessionOf[r] /\ t \notin claims[x]
      BY <2>1, <2>4, <3>1 DEF KeepsTrack
    <3>2. CASE t = SessionOf[r] /\ t \in claims[x]
      <4>1. \/ FileOf[x] \in FilesOf(overlay[t])
            \/ \E q \in Request : SessionOf[q] = t /\ x \in job[q].acquired
        BY <1>0, <3>2 DEF NoPhantomLock, HeldBy
      <4>2. ASSUME NEW q \in Request, SessionOf[q] = t, x \in job[q].acquired
            PROVE  FileOf[x] \in FilesOf(overlay'[t]) \/ x \in job'[q].acquired
        <5>1. CASE q = r
          BY <2>1, <2>4, <3>2, <4>2, <5>1 DEF KeepsTrack
        <5>2. CASE q # r
          BY <1>0, <1>1, <4>2, <5>2, RequestFrame DEF SameJob
        <5> QED BY <5>1, <5>2
      <4> QED BY <2>2, <4>1, <4>2
    <3>3. CASE t # SessionOf[r]
      <4>1. t \in claims[x]
        BY <1>0, <1>1, <2>4, <3>3, RequestFrame
      <4>2. \/ FileOf[x] \in FilesOf(overlay[t])
            \/ \E q \in Request : SessionOf[q] = t /\ x \in job[q].acquired
        BY <1>0, <4>1 DEF NoPhantomLock, HeldBy
      <4>3. \A q \in Request : SessionOf[q] = t => SameJob(q)
        BY <1>0, <1>1, <3>3, RequestFrame
      <4> QED BY <2>2, <4>2, <4>3 DEF SameJob
    <3> QED BY <3>1, <3>2, <3>3
  <2>5. NoPhantomLock'
    BY <2>4 DEF NoPhantomLock, HeldBy
  <2> QED BY <1>0, <2>3, <2>5 DEF PhantomInv
<1>2. CASE \/ \E s \in Session, f \in File : FileRead(s, f)
           \/ \E s \in Session : Verify(s) \/ Approve(s) \/ Close(s) \/ EvictIdle(s)
           \/ UNCHANGED vars
  <2>1. /\ pc' = pc /\ \A q \in Request : SameJob(q)
        /\ claims' = claims /\ overlay' = overlay
    BY <1>0, <1>2, SessionFrame
  <2>2. \A q \in Request : WriteJob(q)'
    BY <2>1 DEF PhantomInv, WriteJob, SameJob
  <2>3. NoPhantomLock'
    BY <1>0, <2>1 DEF NoPhantomLock, HeldBy, SameJob
  <2> QED BY <1>0, <2>2, <2>3 DEF PhantomInv
<1> QED BY <1>1, <1>2 DEF Next

(* At the start no lock is held. *)
LEMMA PhantomInit == Init => PhantomInv
<1> SUFFICES ASSUME Init PROVE PhantomInv
  OBVIOUS
<1>1. \A r \in Request : pc[r] = "idle" /\ job[r] = NoJob
  BY DEF Init
<1>2. \A r \in Request : WriteJob(r)
  BY <1>1, NoJobFacts DEF WriteJob, Writing
<1>3. NoPhantomLock
  BY DEF Init, NoPhantomLock, HeldBy, NoClaims
<1> QED BY <1>2, <1>3, TypeInit DEF PhantomInv

\* No lock is left behind by a write that was rejected, failed or lost its
\* workspace: however many requests of one session overlap.
THEOREM NoPhantoms == Spec => []NoPhantomLock
<1>1. PhantomInv => NoPhantomLock
  BY DEF PhantomInv
<1> QED BY <1>1, PhantomInit, PhantomStep, PTL DEF Spec

-----------------------------------------------------------------------------
\* What a request does to the locks of its session's draft.
KeepsDraft(r) ==
    LET s == SessionOf[r] IN
    /\ DraftJob(r)'
    /\ cs'[s] = "draft" => \A x \in overlay'[s] : s \in claims'[x]

(* A request that begins leaves the drafts locked. *)
LEMMA BeginKeepsDraft ==
    ASSUME ~InlineChanges, DraftInv, NEW r \in Request, Begin(r)
    PROVE  KeepsDraft(r)
<1> DEFINE s == SessionOf[r]
<1>0. /\ TypeOK /\ s \in Session /\ WriteJob(r) /\ DraftIsLocked /\ job[r] \in Job
  BY SessionOfAssumption DEF DraftInv, PhantomInv, TypeOK
<1>1. /\ pc[r] = "idle" /\ claims' = claims /\ overlay' = overlay /\ cs' = cs
      /\ job[r].acquired = {}
  BY <1>0 DEF Begin, BeginWrite, BeginSubmit, BeginInlineSubmit, BeginMerge, At, server, WriteJob
<1>2. cs'[s] = "draft" => \A x \in overlay'[s] : s \in claims'[x]
  BY <1>0, <1>1 DEF DraftIsLocked
<1>3. ASSUME NEW f \in File, NEW X \in SUBSET Symbol, BeginWrite(r, f, X)
      PROVE  DraftJob(r)'
  <2>1. /\ job'[r].syms = X /\ job'[r].todo = X /\ job'[r].acquired = {}
        /\ pc'[r] \in {"stale", "acquire"}
    BY <1>0, <1>3 DEF BeginWrite, NewJob, Goto, TypeOK
  <2> QED BY <1>1, <2>1 DEF DraftJob
<1>4. ASSUME BeginSubmit(r)
      PROVE  DraftJob(r)'
  <2>1. job'[r].acquired = {} /\ pc'[r] = "submitFiles"
    BY <1>0, <1>4 DEF BeginSubmit, NewJob, Goto, TypeOK
  <2> QED BY <1>1, <2>1 DEF DraftJob
<1>5. ASSUME BeginMerge(r)
      PROVE  DraftJob(r)'
  <2>1. pc'[r] = "mergeRelease" /\ job' = job /\ cs[s] = "approved"
    BY <1>0, <1>5 DEF BeginMerge, Goto, TypeOK
  <2> QED BY <1>1, <2>1 DEF DraftJob
<1> QED BY <1>2, <1>3, <1>4, <1>5 DEF Begin, BeginInlineSubmit, KeepsDraft

(* So does one that goes on, alone in its session. *)
LEMMA ContinueKeepsDraft ==
    ASSUME DraftInv, NEW r \in Request, Continue(r)
    PROVE  KeepsDraft(r)
<1> DEFINE s == SessionOf[r]
<1>0. /\ TypeOK /\ s \in Session /\ WriteJob(r) /\ DraftJob(r) /\ job[r] \in Job
      /\ claims \in Claims /\ overlay[s] \subseteq Symbol /\ job[r].syms \subseteq Symbol
      /\ job[r].acquired \subseteq Symbol /\ job[r].todo \subseteq Symbol
      /\ cs[s] = "draft" => \A x \in overlay[s] : s \in claims[x]
  BY SessionOfAssumption DEF DraftInv, DraftIsLocked, PhantomInv, TypeOK, Job
<1>1. CASE CheckStale(r) \/ StaleCheckFails(r)
  <2>1. /\ pc[r] = "stale" /\ claims' = claims /\ overlay' = overlay /\ cs' = cs
        /\ \/ pc'[r] = "idle" /\ job'[r] = NoJob
           \/ pc'[r] = "acquire" /\ SameJob(r)
    BY <1>0, <1>1 DEF CheckStale, StaleCheckFails, At, Goto, Return, TypeOK, Job, SameJob, server
  <2> QED BY <1>0, <2>1, NoJobFacts DEF KeepsDraft, DraftJob, WriteJob, SameJob
<1>2. ASSUME NEW x \in Symbol, Acquire(r, x)
      PROVE  KeepsDraft(r)
  <2> DEFINE Fresh == CanAcquire(claims, x, s) /\ s \notin claims[x]
  <2>1. /\ pc[r] = "acquire" /\ pc'[r] = "acquire" /\ overlay' = overlay /\ cs' = cs
        /\ x \in job[r].todo /\ claims' = AcquireLock(claims, x, s)
        /\ job'[r].syms = job[r].syms /\ job'[r].todo = job[r].todo \ {x}
        /\ job'[r].acquired = IF Fresh THEN job[r].acquired \cup {x} ELSE job[r].acquired
        /\ job'[r].refused = (job[r].refused \/ ~CanAcquire(claims, x, s))
    BY <1>0, <1>2 DEF Acquire, At, TypeOK, Job, IsFresh
  <2>2. \A y \in Symbol : s \in claims[y] => s \in claims'[y]
    <3>1. CASE CanAcquire(claims, x, s)
      BY <1>0, <2>1, <3>1, AcquireLockEffect
    <3>2. CASE ~CanAcquire(claims, x, s)
      BY <1>0, <2>1, <3>2, AcquireLockEffect
    <3> QED BY <3>1, <3>2
  <2>3. ~job'[r].refused => ~job[r].refused /\ s \in claims'[x]
    <3>1. ~job'[r].refused => ~job[r].refused /\ CanAcquire(claims, x, s)
      BY <2>1, Zenon
    <3>2. CanAcquire(claims, x, s) => s \in claims'[x]
      BY <1>0, <2>1, AcquireLockEffect
    <3> QED BY <3>1, <3>2
  <2>4. cs[s] = "draft" => \A y \in job'[r].acquired : y \notin overlay[s]
    BY <1>0, <2>1 DEF DraftJob
  <2>5. ~job'[r].refused => \A y \in job'[r].syms \ job'[r].todo : s \in claims'[y]
    BY <1>0, <2>1, <2>2, <2>3 DEF DraftJob
  <2> QED BY <1>0, <2>1, <2>2, <2>4, <2>5 DEF KeepsDraft, DraftJob
<1>3. ASSUME NEW x \in Symbol, Unwind(r, x)
      PROVE  KeepsDraft(r)
  <2>1. /\ pc[r] = "unwind" /\ overlay' = overlay /\ cs' = cs /\ x \in job[r].acquired
        /\ pc'[r] \in {"idle", "unwind"} /\ job'[r].acquired \subseteq job[r].acquired
    BY <1>0, <1>3, NoJobFacts DEF Unwind, At, Return, TypeOK, Job
  <2>2. \A y \in Symbol \ {x} : claims'[y] = claims[y]
    BY <1>0, <1>3, ReleaseLockFacts DEF Unwind
  <2>3. cs[s] = "draft" => \A y \in job[r].acquired : y \notin overlay[s]
    BY <1>0, <2>1 DEF DraftJob
  <2> QED BY <1>0, <2>1, <2>2, <2>3 DEF KeepsDraft, DraftJob
<1>4. CASE StartUnwind(r)
  <2>1. /\ pc[r] = "acquire" /\ claims' = claims /\ overlay' = overlay /\ cs' = cs
        /\ \/ pc'[r] = "idle" /\ job'[r] = NoJob
           \/ pc'[r] = "unwind" /\ job' = job
    BY <1>0, <1>4 DEF StartUnwind, At, Goto, Return, TypeOK, server
  <2> QED BY <1>0, <2>1, NoJobFacts DEF KeepsDraft, DraftJob
<1>5. CASE WriteOverlay(r)
  <2>1. /\ pc[r] = "acquire" /\ pc'[r] = "record" /\ job' = job /\ claims' = claims /\ cs' = cs
        /\ job[r].todo = {} /\ ~job[r].refused
        /\ overlay'[s] = (overlay[s] \ SymbolsIn(job[r].file)) \cup job[r].syms
    BY <1>0, <1>5 DEF WriteOverlay, Overwrite, At, Goto, TypeOK
  <2>2. \A x \in job[r].syms : s \in claims[x]
    BY <1>0, <2>1 DEF DraftJob
  <2> QED BY <1>0, <2>1, <2>2 DEF KeepsDraft, DraftJob
<1>6. CASE RecordFile(r)
  <2>1. /\ pc'[r] = "idle" /\ job'[r] = NoJob
        /\ claims' = claims /\ overlay' = overlay /\ cs' = cs
    BY <1>0, <1>6 DEF RecordFile, Return, TypeOK
  <2> QED BY <1>0, <2>1, NoJobFacts DEF KeepsDraft, DraftJob
<1>7. CASE \/ SubmitFiles(r) \/ SubmitFails(r) \/ SetSubmitted(r) \/ SubmitRelease(r)
           \/ MergeRelease(r) \/ SetMerged(r) \/ SetMergedFails(r)
  <2>1. /\ overlay' = overlay /\ pc'[r] \notin Writing
        /\ pc'[r] # "mergeRelease"
        /\ pc'[r] = "submitRelease" => cs'[s] # "draft"
    BY <1>0, <1>7 DEF SubmitFiles, SubmitFails, SetSubmitted, SubmitRelease, MergeRelease,
       SetMerged, SetMergedFails, Goto, Return, UpdateStatus, TypeOK, Writing, server
  <2>2. claims' = claims \/ cs[s] # "draft"
    BY <1>0, <1>7 DEF SubmitFiles, SubmitFails, SetSubmitted, SubmitRelease, MergeRelease,
       SetMerged, SetMergedFails, At, DraftJob, server
  <2>3. cs[s] # "draft" => cs'[s] # "draft"
    BY <1>0, RequestFrame
  <2>4. job'[r].acquired = {}
    <3>1. WriteJob(r)'
      BY ContinueKeepsTrack DEF DraftInv, KeepsTrack
    <3> QED BY <2>1, <3>1 DEF WriteJob, Writing
  <2> QED BY <1>0, <2>1, <2>2, <2>3, <2>4 DEF KeepsDraft, DraftJob, Writing
<1> QED BY <1>1, <1>2, <1>3, <1>4, <1>5, <1>6, <1>7 DEF Continue

(* Every step leaves the drafts locked. *)
LEMMA DraftStep ==
    ASSUME OneAtATime, ~InlineChanges, DraftInv, [Next]_vars
    PROVE  DraftInv'
<1>0. TypeOK /\ PhantomInv' /\ DraftIsLocked
  BY PhantomStep DEF DraftInv, PhantomInv
<1>1. ASSUME NEW r \in Request, Begin(r) \/ Continue(r)
      PROVE  DraftInv'
  <2>1. KeepsDraft(r)
    BY <1>1, BeginKeepsDraft, ContinueKeepsDraft
  <2>2. ASSUME NEW q \in Request PROVE DraftJob(q)'
    <3>1. CASE q = r
      BY <2>1, <3>1 DEF KeepsDraft
    <3>2. CASE q # r
      <4>1. SessionOf[q] \in Session \ {SessionOf[r]}
        BY <3>2, SessionOfAssumption DEF OneAtATime
      <4>2. /\ pc'[q] = pc[q] /\ SameJob(q) /\ overlay'[SessionOf[q]] = overlay[SessionOf[q]]
            /\ cs'[SessionOf[q]] = cs[SessionOf[q]]
            /\ \A x \in Symbol : SessionOf[q] \in claims'[x] <=> SessionOf[q] \in claims[x]
        BY <1>0, <1>1, <3>2, <4>1, RequestFrame
      <4>3. DraftJob(q) /\ job[q].syms \subseteq Symbol /\ overlay[SessionOf[q]] \subseteq Symbol
        BY <1>0, <4>1 DEF DraftInv, TypeOK, Job
      <4> QED BY <4>2, <4>3 DEF DraftJob, SameJob
    <3> QED BY <3>1, <3>2
  <2>3. ASSUME NEW t \in Session, cs'[t] = "draft", NEW x \in overlay'[t]
        PROVE  t \in claims'[x]
    <3>1. CASE t = SessionOf[r]
      BY <2>1, <2>3, <3>1 DEF KeepsDraft
    <3>2. CASE t # SessionOf[r]
      BY <1>0, <1>1, <2>3, <3>2, RequestFrame DEF DraftIsLocked, TypeOK
    <3> QED BY <3>1, <3>2
  <2> QED BY <1>0, <2>2, <2>3 DEF DraftInv, DraftIsLocked
<1>2. CASE \/ \E s \in Session, f \in File : FileRead(s, f)
           \/ \E s \in Session : Verify(s) \/ Approve(s) \/ Close(s) \/ EvictIdle(s)
           \/ UNCHANGED vars
  <2>1. /\ pc' = pc /\ \A q \in Request : SameJob(q)
        /\ claims' = claims /\ overlay' = overlay
        /\ \A s \in Session : cs[s] # "draft" => cs'[s] # "draft"
    BY <1>0, <1>2, SessionFrame
  <2>2. \A q \in Request : DraftJob(q)'
    BY <2>1, SessionOfAssumption DEF DraftInv, DraftJob, SameJob
  <2>3. DraftIsLocked'
    BY <1>0, <2>1 DEF DraftIsLocked
  <2> QED BY <1>0, <2>2, <2>3 DEF DraftInv
<1> QED BY <1>1, <1>2 DEF Next

(* At the start nothing is drafted. *)
LEMMA DraftInit == Init => DraftInv
<1> SUFFICES ASSUME Init PROVE DraftInv
  OBVIOUS
<1>1. \A r \in Request : pc[r] = "idle" /\ job[r] = NoJob
  BY DEF Init
<1>2. \A r \in Request : DraftJob(r)
  BY <1>1, NoJobFacts DEF DraftJob
<1>3. DraftIsLocked
  BY DEF Init, DraftIsLocked
<1> QED BY <1>2, <1>3, PhantomInit DEF DraftInv

\* Nobody else can lock what an agent's draft has changed, for agents that
\* wait for an answer and submit no changes inline.
THEOREM DraftsAreLocked ==
    ASSUME OneAtATime, ~InlineChanges
    PROVE  Spec => []DraftIsLocked
<1>1. DraftInv /\ [Next]_vars => DraftInv'
  BY DraftStep
<1>2. DraftInv => DraftIsLocked
  BY DEF DraftInv
<1> QED BY <1>1, <1>2, DraftInit, PTL DEF Spec

-----------------------------------------------------------------------------
(* Every step leaves the files that an overlay changes on record. *)
LEMMA RecordStep ==
    ASSUME ~InlineChanges, "record" \notin MayFail, PhantomInv, OnRecord, [Next]_vars
    PROVE  OnRecord'
<1>0. TypeOK
  BY DEF PhantomInv
<1>1. ASSUME NEW r \in Request, Begin(r) \/ Continue(r),
             NEW t \in Session, NEW x \in overlay'[t]
      PROVE  \/ FileOf[x] \in files'[t]
             \/ \E q \in Request : /\ SessionOf[q] = t /\ pc'[q] = "record"
                                   /\ job'[q].file = FileOf[x]
  <2>1. CASE WriteOverlay(r) /\ t = SessionOf[r] /\ x \in job[r].syms
    <3>1. /\ pc[r] = "acquire" /\ pc'[r] = "record" /\ job' = job
          /\ job[r].syms \subseteq SymbolsIn(job[r].file)
      BY <1>0, <2>1 DEF WriteOverlay, At, Goto, TypeOK, PhantomInv, WriteJob, Writing
    <3> QED BY <2>1, <3>1 DEF SymbolsIn
  <2>2. CASE ~(WriteOverlay(r) /\ t = SessionOf[r] /\ x \in job[r].syms)
    <3>1. x \in overlay[t]
      <4>1. CASE WriteOverlay(r)
        BY <1>0, <1>1, <2>2, <4>1 DEF WriteOverlay, Overwrite, TypeOK
      <4>2. CASE ~WriteOverlay(r)
        <5>1. overlay' = overlay
          BY <1>1, <4>2 DEF Begin, Continue, BeginWrite, BeginSubmit, BeginInlineSubmit,
             BeginMerge, CheckStale, StaleCheckFails, Acquire, Unwind, StartUnwind, RecordFile,
             SubmitFiles, SubmitFails, SetSubmitted, SubmitRelease, MergeRelease, SetMerged,
             SetMergedFails, server
        <5> QED BY <1>1, <5>1
      <4> QED BY <4>1, <4>2
    <3>2. files[t] \subseteq files'[t]
      BY <1>0, <1>1, RequestFrame
    <3>3. ASSUME NEW q \in Request, SessionOf[q] = t, pc[q] = "record",
                 job[q].file = FileOf[x]
          PROVE  FileOf[x] \in files'[t] \/ (pc'[q] = "record" /\ job'[q].file = FileOf[x])
      <4>1. CASE q # r
        BY <1>0, <1>1, <3>3, <4>1, RequestFrame DEF SameJob
      <4>2. CASE q = r
        <5>1. RecordFile(r)
          BY <1>1, <3>3, <4>2 DEF Begin, Continue, BeginWrite, BeginSubmit, BeginInlineSubmit,
             BeginMerge, CheckStale, StaleCheckFails, Acquire, Unwind, StartUnwind, WriteOverlay,
             SubmitFiles, SubmitFails, SetSubmitted, SubmitRelease, MergeRelease, SetMerged,
             SetMergedFails, At
        <5> QED BY <1>0, <3>3, <4>2, <5>1 DEF RecordFile, TypeOK
      <4> QED BY <4>1, <4>2
    <3> QED BY <3>1, <3>2, <3>3 DEF OnRecord
  <2> QED BY <2>1, <2>2
<1>2. CASE \/ \E s \in Session, f \in File : FileRead(s, f)
           \/ \E s \in Session : Verify(s) \/ Approve(s) \/ Close(s) \/ EvictIdle(s)
           \/ UNCHANGED vars
  <2>1. /\ pc' = pc /\ \A q \in Request : SameJob(q)
        /\ files' = files /\ overlay' = overlay
    BY <1>0, <1>2, SessionFrame
  <2> QED BY <2>1 DEF OnRecord, SameJob
<1> QED BY <1>1, <1>2 DEF Next, OnRecord

\* Whoever can lock what a session has changed finds its changeset on record,
\* for the same agents and a store that keeps the rows of changeset_files.
THEOREM LockedOrRecorded ==
    ASSUME OneAtATime, ~InlineChanges, "record" \notin MayFail
    PROVE  Spec => []LockedOrOnRecord
<1>1. Init => DraftInv /\ OnRecord
  BY DraftInit DEF Init, OnRecord
<1>2. DraftInv /\ OnRecord /\ [Next]_vars => DraftInv' /\ OnRecord'
  BY DraftStep, RecordStep DEF DraftInv
<1>3. DraftInv /\ OnRecord => LockedOrOnRecord
  <2> SUFFICES ASSUME DraftInv, OnRecord,
                      NEW s \in Session, NEW x \in overlay[s], s \notin claims[x]
               PROVE  cs[s] # "draft" /\ FileOf[x] \in files[s]
    BY DEF LockedOrOnRecord
  <2>1. cs[s] # "draft"
    BY DEF DraftInv, DraftIsLocked
  <2>2. x \in Symbol
    BY DEF DraftInv, PhantomInv, TypeOK
  <2>3. ASSUME NEW r \in Request, SessionOf[r] = s, pc[r] = "record", job[r].file = FileOf[x]
        PROVE  s \in claims[x]
    BY <2>2, <2>3 DEF DraftInv, DraftJob, SymbolsIn
  <2> QED BY <2>1, <2>3 DEF OnRecord
<1> QED BY <1>1, <1>2, <1>3, PTL DEF Spec

=============================================================================
