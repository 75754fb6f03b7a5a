------------------------- MODULE WorkspaceMergeProofs -------------------------
(***************************************************************************)
(* Theorems about WorkspaceMerge, for any number of sessions, requests,    *)
(* files and symbols and any length of the branch: the three-way merge     *)
(* loses no change and overwrites none unawares, whatever merges race for  *)
(* the head, and a changeset says "merged" only of what is on the branch.  *)
(***************************************************************************)
EXTENDS WorkspaceMerge, SequenceTheorems, TLAPS

-----------------------------------------------------------------------------
(***************************************************************************)
(* The merge of one file and of a tree.                                    *)
(***************************************************************************)

\* What a tree has for a file.
Entry == Content \cup {NoFile}

\* The text of a symbol in it.
EntryText(c, x) == IF c = NoFile THEN NoText ELSE c[x]

\* The files that an overlay has written are not without content.
LEMMA ContentIsNotNoFile ==
    ASSUME NEW o \in Content
    PROVE  o # NoFile /\ o # Untouched /\ o \in Entry
BY NoContentAssumption DEF Entry

\* A file that does not conflict is merged into a content.
LEMMA RebasedType ==
    ASSUME NEW f \in File, NEW b \in Entry, NEW h \in Entry, NEW o \in Content,
           NEW short \in SUBSET Parsed,
           ~Conflicting(f, b, h, o, short)
    PROVE  Rebased(f, b, h, o, short) \in Content
<1>1. CASE b = h \/ b = NoFile
  BY <1>1 DEF Rebased
<1>2. CASE b # h /\ b # NoFile
  <2>1. h \in Content
    BY <1>2 DEF Conflicting, Entry
  <2>2. AstMerge(b, h, o) \in Content
    BY <2>1 DEF AstMerge, Content
  <2> QED BY <1>2, <2>1, <2>2 DEF Rebased, FileMerge
<1> QED BY <1>1, <1>2

\* Every symbol that the overlay has changed has its text in the merged file,
\* and every other symbol the text of the head.
LEMMA RebasedText ==
    ASSUME NEW f \in File, NEW b \in Entry, NEW h \in Entry, NEW o \in Content,
           NEW short \in SUBSET Parsed, NEW x \in Symbol,
           ~Conflicting(f, b, h, o, short)
    PROVE  Rebased(f, b, h, o, short)[x] =
             IF o[x] # EntryText(b, x) THEN o[x] ELSE EntryText(h, x)
<1>1. CASE b = h
  BY <1>1, ContentIsNotNoFile DEF Rebased, EntryText
<1>2. CASE b # h /\ b = NoFile
  <2>1. h = o
    BY <1>2 DEF Conflicting
  <2> QED BY <1>2, <2>1, ContentIsNotNoFile DEF Rebased, EntryText
<1>3. CASE b # h /\ b # NoFile
  <2>1. h # NoFile /\ ~FileClashes(f, b, h, o, short)
    BY <1>3 DEF Conflicting
  <2>2. CASE f \in Parsed \ short
    BY <1>3, <2>1, <2>2 DEF Rebased, FileMerge, AstMerge, EntryText
  <2>3. CASE f \notin Parsed \ short
    <3>1. ~Differ(b, h, o)
      BY <2>1, <2>3 DEF FileClashes
    <3> QED BY <1>3, <2>1, <2>3, <3>1 DEF Rebased, FileMerge, Differ, EntryText
  <2> QED BY <2>2, <2>3
<1> QED BY <1>1, <1>2, <1>3

\* A symbol that the merge changes on the branch is as it was at the base.
LEMMA RebasedOverwrites ==
    ASSUME NEW f \in File, NEW b \in Entry, NEW h \in Entry, NEW o \in Content,
           NEW short \in SUBSET Parsed, NEW x \in Symbol,
           ~Conflicting(f, b, h, o, short),
           Rebased(f, b, h, o, short)[x] # EntryText(h, x)
    PROVE  EntryText(h, x) = EntryText(b, x)
<1>1. CASE b = h
  BY <1>1
<1>2. CASE b # h /\ b = NoFile
  <2>1. h = o
    BY <1>2 DEF Conflicting
  <2> QED BY <1>2, <2>1, ContentIsNotNoFile DEF Rebased, EntryText
<1>3. CASE b # h /\ b # NoFile
  <2>1. h # NoFile /\ ~FileClashes(f, b, h, o, short)
    BY <1>3 DEF Conflicting
  <2>2. o[x] # b[x] /\ o[x] # h[x]
    BY <1>3, <2>1, RebasedText DEF EntryText
  <2>3. CASE f \in Parsed \ short
    <3>1. x \notin Clashes(b, h, o)
      BY <2>1, <2>3 DEF FileClashes
    <3> QED BY <1>3, <2>1, <2>2, <3>1 DEF Clashes, EntryText
  <2>4. CASE f \notin Parsed \ short
    <3>1. ~Differ(b, h, o)
      BY <2>1, <2>4 DEF FileClashes
    <3> QED BY <1>3, <2>2, <3>1 DEF Differ
  <2> QED BY <2>3, <2>4
<1> QED BY <1>1, <1>2, <1>3

\* The same of trees (merge_workspace).
LEMMA MergedTreeFacts ==
    ASSUME NEW b \in Tree, NEW h \in Tree, NEW ours \in Overlay,
           NEW short \in SUBSET Parsed,
           ~MergeConflicts(b, h, ours, short)
    PROVE  LET new == MergedTree(b, h, ours, short) IN
           /\ new \in Tree
           /\ \A f \in File, x \in Symbol :
                /\ TextIn(new, f, x) =
                     IF OurText(b, ours, f, x) # TextIn(b, f, x)
                       THEN OurText(b, ours, f, x) ELSE TextIn(h, f, x)
                /\ TextIn(new, f, x) # TextIn(h, f, x)
                     => TextIn(h, f, x) = TextIn(b, f, x)
<1> DEFINE new == MergedTree(b, h, ours, short)
<1>1. ASSUME NEW f \in File
      PROVE  /\ b[f] \in Entry /\ h[f] \in Entry
             /\ ours[f] # Untouched => ours[f] \in Content
             /\ ours[f] # Untouched => ~Conflicting(f, b[f], h[f], ours[f], short)
  BY DEF Tree, Overlay, Entry, MergeConflicts
<1>2. ASSUME NEW f \in File
      PROVE  new[f] = IF ours[f] = Untouched THEN h[f]
                      ELSE Rebased(f, b[f], h[f], ours[f], short)
  BY DEF MergedTree
<1>3. ASSUME NEW f \in File
      PROVE  /\ new[f] \in Entry
             /\ ours[f] # Untouched => new[f] # NoFile
  BY <1>1, <1>2, RebasedType, ContentIsNotNoFile
<1>4. new \in Tree
  <2>1. new = [f \in File |-> new[f]]
    BY DEF MergedTree
  <2> QED BY <1>3, <2>1 DEF Tree, Entry
<1>5. ASSUME NEW f \in File, NEW x \in Symbol
      PROVE  /\ TextIn(new, f, x) =
                  IF OurText(b, ours, f, x) # TextIn(b, f, x)
                    THEN OurText(b, ours, f, x) ELSE TextIn(h, f, x)
             /\ TextIn(new, f, x) # TextIn(h, f, x)
                  => TextIn(h, f, x) = TextIn(b, f, x)
  <2>1. /\ TextIn(b, f, x) = EntryText(b[f], x)
        /\ TextIn(h, f, x) = EntryText(h[f], x)
    BY DEF TextIn, EntryText
  <2>2. CASE ours[f] = Untouched
    <3>1. TextIn(new, f, x) = TextIn(h, f, x)
      BY <1>2, <2>2 DEF TextIn
    <3>2. OurText(b, ours, f, x) = TextIn(b, f, x)
      BY <2>2 DEF OurText
    <3> QED BY <3>1, <3>2
  <2>3. CASE ours[f] # Untouched
    <3>1. TextIn(new, f, x) = Rebased(f, b[f], h[f], ours[f], short)[x]
      BY <1>2, <1>3, <2>3 DEF TextIn
    <3>2. OurText(b, ours, f, x) = ours[f][x]
      BY <2>3 DEF OurText
    <3> HIDE DEF new
    <3>3. TextIn(new, f, x) =
            IF ours[f][x] # TextIn(b, f, x) THEN ours[f][x] ELSE TextIn(h, f, x)
      BY <1>1, <2>1, <2>3, <3>1, RebasedText
    <3>4. TextIn(new, f, x) # TextIn(h, f, x) => TextIn(h, f, x) = TextIn(b, f, x)
      BY <1>1, <2>1, <2>3, <3>1, RebasedOverwrites
    <3> QED BY <3>2, <3>3, <3>4
  <2> QED BY <2>2, <2>3
<1> QED BY <1>4, <1>5

-----------------------------------------------------------------------------
(***************************************************************************)
(* The inductive invariant.  A merge commits what it analysed: its base    *)
(* cannot move, and the head it read is still on the branch, whatever the  *)
(* other requests have appended since.                                     *)
(***************************************************************************)

\* What a merge at its commit has found, and holds until it commits.
Analyzed(r) ==
    /\ job[r].parent \in 1 .. Tip
    /\ ~MergeConflicts(BaseTree(SessionOf[r]), history[job[r].parent].tree,
                       job[r].ours, job[r].short)

OnMain(s) == \E i \in 1 .. Tip : history[i].by = s

MergeInv ==
    /\ TypeOK
    /\ \A r \in Request : pc[r] # "idle" => base[SessionOf[r]] # 0
    /\ \A r \in Request : pc[r] = "commit" => Analyzed(r)
    /\ \A r \in Request : pc[r] = "setMerged" => OnMain(SessionOf[r])
    /\ \A s \in Session : st[s] = "merged" => OnMain(s)

\* What one request does (Next).
Handle(r) ==
    \/ BeginSubmit(r) \/ SetSubmitted(r)
    \/ BeginVerify(r) \/ \E passed \in BOOLEAN : Verdict(r, passed)
    \/ BeginApprove(r) \/ Approve(r)
    \/ BeginResolve(r) \/ Resolve(r)
    \/ \E f \in File : \E c \in Draft[SessionOf[r]][f] : ResolveManually(r, f, c)
    \/ BeginMerge(r) \/ Analyze(r) \/ CommitTree(r) \/ SetMerged(r)
    \/ Fail(r)

(* What the types say of history, bases and jobs. *)
LEMMA TypeFacts ==
    ASSUME TypeOK
    PROVE  /\ Tip \in Nat \ {0}
           /\ \A i \in 1 .. Tip : history[i] \in Commit /\ history[i].tree \in Tree
           /\ \A s \in Session : base[s] # 0 => base[s] \in 1 .. Tip /\ BaseTree(s) \in Tree
           /\ \A r \in Request : /\ SessionOf[r] \in Session
                                /\ job[r].ours \in Overlay
                                /\ job[r].parent \in Nat
                                /\ job[r].short \in SUBSET Parsed
<1>1. Tip \in Nat \ {0}
  BY EmptySeq DEF TypeOK, Tip
<1>2. \A i \in 1 .. Tip : history[i] \in Commit /\ history[i].tree \in Tree
  <2>1. history \in Seq(Commit)
    BY DEF TypeOK
  <2>2. \A i \in 1 .. Tip : history[i] \in Commit
    BY <2>1, ElementOfSeq DEF Tip
  <2> QED BY <2>2 DEF Commit
<1>3. \A s \in Session : base[s] # 0 => base[s] \in 1 .. Tip /\ BaseTree(s) \in Tree
  BY <1>1, <1>2 DEF TypeOK, BaseTree
<1>4. \A r \in Request : /\ SessionOf[r] \in Session
                        /\ job[r].ours \in Overlay
                        /\ job[r].parent \in Nat
                        /\ job[r].short \in SUBSET Parsed
  BY SlotAssumption DEF TypeOK, Job
<1> QED BY <1>1, <1>2, <1>3, <1>4

(* No job is a job. *)
LEMMA NoJobType == NoJob \in Job
BY DEF NoJob, Job, Nothing, Overlay, State

\* What the helpers of the handlers leave behind.
LEMMA HelperTypes ==
    ASSUME TypeOK, NEW r \in Request
    PROVE  /\ Return(r) => pc' \in [Request -> Steps] /\ job' \in [Request -> Job]
           /\ \A step \in Steps : Goto(r, step) => pc' \in [Request -> Steps]
           /\ \A state \in State : SetState(r, state) => st' \in [Session -> State]
           /\ \A s \in Session, f \in File : \A c \in Draft[s][f] :
                 Edit(s, f, c) => overlay' \in [Session -> Overlay]
<1>1. Return(r) => pc' \in [Request -> Steps] /\ job' \in [Request -> Job]
  BY NoJobType DEF Return, TypeOK, Steps
<1>2. \A step \in Steps : Goto(r, step) => pc' \in [Request -> Steps]
  BY DEF Goto, TypeOK
<1>3. \A state \in State : SetState(r, state) => st' \in [Session -> State]
  BY DEF SetState, TypeOK
<1>4. ASSUME NEW s \in Session, NEW f \in File, NEW c \in Draft[s][f], Edit(s, f, c)
      PROVE  overlay' \in [Session -> Overlay]
  <2>1. c \in Content
    BY DraftAssumption
  <2>2. [overlay[s] EXCEPT ![f] = c] \in Overlay
    BY <2>1 DEF TypeOK, Overlay
  <2> QED BY <1>4, <2>2 DEF Edit, TypeOK
<1> QED BY <1>1, <1>2, <1>3, <1>4

\* The commit of an analysed merge is one, with both sides' changes and
\* nothing overwritten unawares.
LEMMA NewCommitFacts ==
    ASSUME TypeOK, NEW r \in Request, base[SessionOf[r]] # 0, Analyzed(r)
    PROVE  LET b == BaseTree(SessionOf[r])
               old == history[job[r].parent].tree
               new == NewCommit(r).tree
               ours == job[r].ours
           IN  /\ NewCommit(r) \in Commit /\ NewCommit(r).by = SessionOf[r]
               /\ \A f \in File, x \in Symbol :
                    /\ TextIn(new, f, x) =
                         IF OurText(b, ours, f, x) # TextIn(b, f, x)
                           THEN OurText(b, ours, f, x) ELSE TextIn(old, f, x)
                    /\ TextIn(new, f, x) # TextIn(old, f, x)
                         => TextIn(old, f, x) = TextIn(b, f, x)
<1> DEFINE b == BaseTree(SessionOf[r])
           old == history[job[r].parent].tree
<1>1. /\ b \in Tree /\ old \in Tree
      /\ job[r].ours \in Overlay /\ job[r].short \in SUBSET Parsed
      /\ SessionOf[r] \in Session
  BY TypeFacts DEF Analyzed
<1>2. /\ NewCommit(r).tree = MergedTree(b, old, job[r].ours, job[r].short)
      /\ NewCommit(r).by = SessionOf[r]
      /\ NewCommit(r) = [tree |-> NewCommit(r).tree, by |-> NewCommit(r).by]
  BY DEF NewCommit
<1>3. ~MergeConflicts(b, old, job[r].ours, job[r].short)
  BY DEF Analyzed
<1> HIDE DEF b, old
<1>4. NewCommit(r).tree \in Tree
  BY <1>1, <1>2, <1>3, MergedTreeFacts
<1>5. NewCommit(r) \in Commit
  BY <1>1, <1>2, <1>4 DEF Commit
<1> QED BY <1>1, <1>2, <1>3, <1>5, MergedTreeFacts DEF b, old

\* The branch only grows.
LEMMA AppendFacts ==
    ASSUME TypeOK, NEW c \in Commit, history' = Append(history, c)
    PROVE  /\ history' \in Seq(Commit) /\ history' # <<>>
           /\ Tip' = Tip + 1 /\ history'[Tip + 1] = c
           /\ \A i \in 1 .. Tip : history'[i] = history[i]
<1>1. history \in Seq(Commit)
  BY DEF TypeOK
<1>2. /\ Append(history, c) \in Seq(Commit)
      /\ Append(history, c) # <<>>
      /\ Len(Append(history, c)) = Len(history) + 1
      /\ Append(history, c)[Len(history) + 1] = c
      /\ \A i \in 1 .. Len(history) : Append(history, c)[i] = history[i]
  BY <1>1, AppendProperties
<1> QED BY <1>2 DEF Tip

(* The invariant holds at the start. *)
LEMMA MergeInit == Init => MergeInv
<1> SUFFICES ASSUME Init PROVE MergeInv
  OBVIOUS
<1>1. [tree |-> Origin, by |-> NoSession] \in Commit
  BY OriginAssumption DEF Commit
<1>2. history \in Seq(Commit) /\ Tip = 1 /\ history # <<>>
  BY <1>1 DEF Init, Tip
<1>3. Nothing \in Overlay
  BY DEF Nothing, Overlay
<1>4. /\ base \in [Session -> 0 .. Tip]
      /\ overlay \in [Session -> Overlay]
      /\ st \in [Session -> State]
      /\ pc \in [Request -> Steps]
      /\ job \in [Request -> Job]
  BY <1>2, <1>3, NoJobType DEF Init, State, Steps
<1>5. \A r \in Request : pc[r] = "idle"
  BY DEF Init
<1>6. \A s \in Session : st[s] # "merged"
  BY DEF Init
<1> QED BY <1>2, <1>4, <1>5, <1>6 DEF MergeInv, TypeOK

-----------------------------------------------------------------------------
(***************************************************************************)
(* Every step preserves the invariant.                                     *)
(***************************************************************************)

\* Of the steps of a request only a commit changes the branch, and none the
\* base of a session or the locals of another request.
LEMMA HandleFrame ==
    ASSUME MergeInv, NEW r \in Request, Handle(r)
    PROVE  /\ base' = base
           /\ \A q \in Request \ {r} : pc'[q] = pc[q] /\ job'[q] = job[q]
           /\ history' = history \/ (history' = Append(history, NewCommit(r)) /\ Commits(r))
           /\ Commits(r) => /\ pc[r] = "commit" /\ Tip = job[r].parent
                            /\ history' = Append(history, NewCommit(r))
<1> USE DEF Goto, Return, SetState
<1>0. pc \in [Request -> Steps] /\ job \in [Request -> Job]
  BY DEF MergeInv, TypeOK
<1>1. base' = base
  BY DEF Handle, BeginSubmit, SetSubmitted, BeginVerify, Verdict, BeginApprove, Approve,
         BeginResolve, Resolve, ResolveManually, BeginMerge, Analyze, CommitTree,
         SetMerged, Fail
<1>2. \A q \in Request \ {r} : pc'[q] = pc[q] /\ job'[q] = job[q]
  <2>1. \E step \in Steps : pc' = [pc EXCEPT ![r] = step]
    BY DEF Handle, BeginSubmit, SetSubmitted, BeginVerify, Verdict, BeginApprove, Approve,
           BeginResolve, Resolve, ResolveManually, BeginMerge, Analyze, CommitTree,
           SetMerged, Fail, Steps
  <2>2. job' = job \/ \E j : job' = [job EXCEPT ![r] = j]
    BY DEF Handle, BeginSubmit, SetSubmitted, BeginVerify, Verdict, BeginApprove, Approve,
           BeginResolve, Resolve, ResolveManually, BeginMerge, Analyze, CommitTree,
           SetMerged, Fail
  <2> QED BY <1>0, <2>1, <2>2
<1>3. CASE CommitTree(r)
  BY <1>0, <1>1, <1>2, <1>3 DEF CommitTree, Commits
<1>4. CASE ~CommitTree(r)
  <2>1. history' = history
    BY <1>4 DEF Handle, BeginSubmit, SetSubmitted, BeginVerify, Verdict, BeginApprove, Approve,
           BeginResolve, Resolve, ResolveManually, BeginMerge, Analyze,
           SetMerged, Fail
  <2>2. ~Commits(r)
    BY <1>0, <1>4 DEF Handle, BeginSubmit, SetSubmitted, BeginVerify, Verdict, BeginApprove,
           Approve, BeginResolve, Resolve, ResolveManually, BeginMerge, Analyze,
           SetMerged, Fail, Commits
  <2> QED BY <1>1, <1>2, <2>1, <2>2
<1> QED BY <1>3, <1>4

\* What a merge has found stays true, and so does that a session is on the
\* branch, when the branch grows.
LEMMA Kept ==
    ASSUME TypeOK, base' = base,
           history' = history \/ \E c \in Commit : history' = Append(history, c)
    PROVE  /\ Tip \in Nat /\ Tip' \in Nat /\ Tip <= Tip'
           /\ history' \in Seq(Commit) /\ history' # <<>>
           /\ \A i \in 1 .. Tip : history'[i] = history[i]
           /\ \A s \in Session : base[s] # 0 => BaseTree(s)' = BaseTree(s)
           /\ \A s \in Session : OnMain(s) => OnMain(s)'
           /\ \A r \in Request :
                 base[SessionOf[r]] # 0 /\ Analyzed(r) /\ job'[r] = job[r] => Analyzed(r)'
<1>1. /\ Tip \in Nat /\ Tip' \in Nat /\ Tip <= Tip'
      /\ history' \in Seq(Commit) /\ history' # <<>>
      /\ \A i \in 1 .. Tip : history'[i] = history[i]
  <2>1. CASE history' = history
    BY <2>1, TypeFacts DEF TypeOK, Tip
  <2>2. ASSUME NEW c \in Commit, history' = Append(history, c)
        PROVE  /\ Tip' = Tip + 1
               /\ history' \in Seq(Commit) /\ history' # <<>>
               /\ \A i \in 1 .. Tip : history'[i] = history[i]
    BY <2>2, AppendFacts
  <2> QED BY <2>1, <2>2, TypeFacts
<1>2. \A s \in Session : base[s] # 0 => BaseTree(s)' = BaseTree(s)
  BY <1>1, TypeFacts DEF BaseTree
<1>3. \A s \in Session : OnMain(s) => OnMain(s)'
  BY <1>1 DEF OnMain
<1>4. ASSUME NEW r \in Request,
             base[SessionOf[r]] # 0 /\ Analyzed(r) /\ job'[r] = job[r]
      PROVE  Analyzed(r)'
  <2>1. BaseTree(SessionOf[r])' = BaseTree(SessionOf[r])
    BY <1>2, <1>4, TypeFacts
  <2>2. /\ job[r].parent \in 1 .. Tip
        /\ job'[r].parent \in 1 .. Tip'
        /\ history'[job'[r].parent] = history[job[r].parent]
    BY <1>1, <1>4, TypeFacts DEF Analyzed
  <2> QED BY <1>4, <2>1, <2>2 DEF Analyzed
<1> QED BY <1>1, <1>2, <1>3, <1>4

\* A step of a request keeps the types of what it changes.
LEMMA HandleTypes ==
    ASSUME MergeInv, NEW r \in Request, Handle(r)
    PROVE  /\ overlay' \in [Session -> Overlay]
           /\ st' \in [Session -> State]
           /\ pc' \in [Request -> Steps]
           /\ job' \in [Request -> Job]
<1> DEFINE Types == /\ overlay' \in [Session -> Overlay]
                    /\ st' \in [Session -> State]
                    /\ pc' \in [Request -> Steps]
                    /\ job' \in [Request -> Job]
<1>0. TypeOK /\ SessionOf[r] \in Session
  BY SlotAssumption DEF MergeInv
<1>1. CASE BeginSubmit(r) \/ BeginResolve(r) \/ BeginMerge(r)
  BY <1>0, <1>1, HelperTypes DEF BeginSubmit, BeginResolve, BeginMerge, TypeOK, Steps
<1>2. CASE SetSubmitted(r) \/ SetMerged(r)
  BY <1>0, <1>2, HelperTypes DEF SetSubmitted, SetMerged, TypeOK, State
<1>3. CASE BeginVerify(r)
  BY <1>0, <1>3, HelperTypes DEF BeginVerify, TypeOK, State, Steps
<1>4. ASSUME NEW passed \in BOOLEAN, Verdict(r, passed) PROVE Types
  BY <1>0, <1>4, HelperTypes DEF Verdict, TypeOK, State
<1>5. CASE BeginApprove(r)
  <2>1. [job[r] EXCEPT !.was = st[SessionOf[r]]] \in Job
    BY <1>0 DEF TypeOK, Job
  <2>2. job' \in [Request -> Job]
    BY <1>0, <1>5, <2>1 DEF BeginApprove, TypeOK
  <2> QED BY <1>0, <1>5, <2>2, HelperTypes DEF BeginApprove, TypeOK, Steps
<1>6. CASE Approve(r)
  BY <1>0, <1>6, HelperTypes DEF Approve, TypeOK, State
<1>7. CASE Resolve(r)
  BY <1>0, <1>7, HelperTypes DEF Resolve, TypeOK, State
<1>8. ASSUME NEW f \in File, NEW c \in Draft[SessionOf[r]][f], ResolveManually(r, f, c)
      PROVE  Types
  BY <1>0, <1>8, HelperTypes DEF ResolveManually, TypeOK, Steps
<1>9. CASE Analyze(r)
  <2>1. ASSUME NEW short \in SUBSET Parsed
        PROVE  [ours |-> overlay[SessionOf[r]], parent |-> Tip, short |-> short,
                was |-> "draft"] \in Job
    BY <1>0, TypeFacts DEF TypeOK, Job, State
  <2>2. pc' \in [Request -> Steps] /\ job' \in [Request -> Job]
    BY <1>0, <1>9, <2>1, HelperTypes DEF Analyze, TypeOK, Steps
  <2> QED BY <1>0, <1>9, <2>2 DEF Analyze, TypeOK
<1>10. CASE CommitTree(r)
  BY <1>0, <1>10, HelperTypes, NoJobType DEF CommitTree, TypeOK, Steps
<1>11. CASE Fail(r)
  BY <1>0, <1>11, HelperTypes DEF Fail, TypeOK
<1> QED BY <1>1, <1>2, <1>3, <1>4, <1>5, <1>6, <1>7, <1>8, <1>9, <1>10, <1>11 DEF Handle

\* Who comes to a commit, to the end of a merge and to a merged changeset.
LEMMA HandleArrivals ==
    ASSUME MergeInv, NEW r \in Request, Handle(r)
    PROVE  /\ pc'[r] # "idle" => base[SessionOf[r]] # 0
           /\ pc'[r] = "commit" => Analyzed(r)' /\ history' = history
           /\ pc'[r] = "setMerged" => Commits(r)
           /\ \A s \in Session : st'[s] = "merged" =>
                 st[s] = "merged" \/ (s = SessionOf[r] /\ pc[r] = "setMerged")
<1>0. /\ pc \in [Request -> Steps] /\ job \in [Request -> Job]
      /\ st \in [Session -> State] /\ SessionOf[r] \in Session
      /\ Tip \in Nat \ {0}
  BY SlotAssumption, TypeFacts DEF MergeInv, TypeOK
<1>1. CASE Analyze(r)
  <2>1. PICK short \in SUBSET Parsed :
          \/ Return(r)
          \/ /\ ~MergeConflicts(BaseTree(SessionOf[r]), history[Tip].tree,
                                overlay[SessionOf[r]], short)
             /\ job' = [job EXCEPT ![r] = [ours |-> overlay[SessionOf[r]], parent |-> Tip,
                                          short |-> short, was |-> "draft"]]
             /\ Goto(r, "commit")
    BY <1>1 DEF Analyze
  <2>2. history' = history /\ base' = base /\ st' = st /\ pc[r] = "analyze"
    BY <1>1 DEF Analyze
  <2>3. CASE Return(r)
    BY <1>0, <2>2, <2>3 DEF Return
  <2>4. CASE ~Return(r)
    <3>1. /\ job'[r].ours = overlay[SessionOf[r]] /\ job'[r].parent = Tip
          /\ job'[r].short = short /\ pc'[r] = "commit"
      BY <1>0, <2>1, <2>4 DEF Goto
    <3>2. Tip' = Tip /\ BaseTree(SessionOf[r])' = BaseTree(SessionOf[r])
      BY <2>2 DEF Tip, BaseTree
    <3>3. Analyzed(r)'
      BY <1>0, <2>1, <2>2, <2>4, <3>1, <3>2 DEF Analyzed
    <3>4. base[SessionOf[r]] # 0
      BY <2>2 DEF MergeInv
    <3> QED BY <2>2, <3>1, <3>3, <3>4
  <2> QED BY <2>3, <2>4
<1>2. CASE CommitTree(r)
  BY <1>0, <1>2 DEF CommitTree, Commits, Goto, Return, MergeInv
<1>3. CASE SetMerged(r)
  BY <1>0, <1>3 DEF SetMerged, SetState, Return
<1>4. CASE BeginSubmit(r) \/ BeginApprove(r) \/ BeginResolve(r) \/ BeginMerge(r)
             \/ BeginVerify(r)
  BY <1>0, <1>4 DEF BeginSubmit, BeginApprove, BeginResolve, BeginMerge, BeginVerify,
     Arrives, Goto, SetState
<1>5. ASSUME NEW f \in File, NEW c \in Draft[SessionOf[r]][f], ResolveManually(r, f, c)
      PROVE  pc'[r] = "resolve" /\ st' = st /\ base[SessionOf[r]] # 0
  BY <1>0, <1>5 DEF ResolveManually, Arrives, Goto
<1>6. CASE SetSubmitted(r) \/ Approve(r) \/ Resolve(r) \/ Fail(r)
  BY <1>0, <1>6 DEF SetSubmitted, Approve, Resolve, Fail, Return, SetState
<1>7. ASSUME NEW passed \in BOOLEAN, Verdict(r, passed)
      PROVE  pc'[r] = "idle" /\ \A s \in Session : st'[s] = "merged" => st[s] = "merged"
  BY <1>0, <1>7 DEF Verdict, Return, SetState
<1> QED BY <1>1, <1>2, <1>3, <1>4, <1>5, <1>6, <1>7 DEF Handle

(* A request of the protocol keeps the invariant. *)
LEMMA HandleStep ==
    ASSUME MergeInv, NEW r \in Request, Handle(r)
    PROVE  MergeInv'
<1>0. TypeOK /\ SessionOf \in [Request -> Session]
  BY SlotAssumption DEF MergeInv
<1>1. Commits(r) => /\ base[SessionOf[r]] # 0 /\ Analyzed(r)
                    /\ NewCommit(r) \in Commit /\ NewCommit(r).by = SessionOf[r]
  <2> SUFFICES ASSUME Commits(r)
               PROVE  /\ base[SessionOf[r]] # 0 /\ Analyzed(r)
                      /\ NewCommit(r) \in Commit /\ NewCommit(r).by = SessionOf[r]
    OBVIOUS
  <2>1. base[SessionOf[r]] # 0 /\ Analyzed(r)
    BY DEF Commits, MergeInv
  <2> QED BY <1>0, <2>1, NewCommitFacts
<1>2. base' = base /\ (history' = history \/ \E c \in Commit : history' = Append(history, c))
  BY <1>1, HandleFrame
<1>3. TypeOK'
  <2>1. history' \in Seq(Commit) /\ history' # <<>> /\ base' \in [Session -> 0 .. Tip']
    BY <1>0, <1>2, Kept DEF TypeOK
  <2> QED BY <2>1, HandleTypes DEF TypeOK
<1>4. ASSUME NEW q \in Request, pc'[q] # "idle" PROVE base'[SessionOf[q]] # 0
  BY <1>2, <1>4, HandleFrame, HandleArrivals DEF MergeInv
<1>5. ASSUME NEW q \in Request, pc'[q] = "commit" PROVE Analyzed(q)'
  <2>1. CASE q = r
    BY <1>5, <2>1, HandleArrivals
  <2>2. CASE q # r
    <3>1. pc[q] = "commit" /\ job'[q] = job[q]
      BY <1>5, <2>2, HandleFrame
    <3>2. base[SessionOf[q]] # 0 /\ Analyzed(q)
      BY <3>1 DEF MergeInv
    <3> QED BY <1>0, <1>2, <3>1, <3>2, Kept
  <2> QED BY <2>1, <2>2
<1>6. Commits(r) => OnMain(SessionOf[r])'
  <2> SUFFICES ASSUME Commits(r) PROVE OnMain(SessionOf[r])'
    OBVIOUS
  <2>1. history' = Append(history, NewCommit(r)) /\ NewCommit(r) \in Commit
    BY <1>1, HandleFrame
  <2>2. Tip' = Tip + 1 /\ history'[Tip + 1] = NewCommit(r)
    BY <1>0, <2>1, AppendFacts
  <2> QED BY <1>0, <1>1, <2>2, TypeFacts DEF OnMain
<1>7. ASSUME NEW q \in Request, pc'[q] = "setMerged" PROVE OnMain(SessionOf[q])'
  <2>1. CASE q = r
    BY <1>6, <1>7, <2>1, HandleArrivals
  <2>2. CASE q # r
    <3>1. OnMain(SessionOf[q])
      BY <1>7, <2>2, HandleFrame DEF MergeInv
    <3> QED BY <1>0, <1>2, <3>1, Kept
  <2> QED BY <2>1, <2>2
<1>8. ASSUME NEW s \in Session, st'[s] = "merged" PROVE OnMain(s)'
  <2>1. OnMain(s)
    BY <1>8, HandleArrivals DEF MergeInv
  <2> QED BY <1>0, <1>2, <2>1, Kept
<1> QED BY <1>3, <1>4, <1>5, <1>7, <1>8 DEF MergeInv

(* Every step keeps the invariant. *)
LEMMA MergeStep == MergeInv /\ [Next]_vars => MergeInv'
<1> SUFFICES ASSUME MergeInv, [Next]_vars PROVE MergeInv'
  OBVIOUS
<1>1. ASSUME NEW s \in Session, NEW c \in 1 .. Tip, Connect(s, c) PROVE MergeInv'
  <2>1. /\ history' = history /\ overlay' = overlay /\ st' = st /\ pc' = pc /\ job' = job
        /\ base[s] = 0 /\ base' = [base EXCEPT ![s] = c]
        /\ c # 0
    BY <1>1, TypeFacts DEF Connect, MergeInv
  <2>2. TypeOK'
    BY <2>1, TypeFacts DEF MergeInv, TypeOK, Tip
  <2>3. \A q \in Session : base[q] # 0 => base'[q] = base[q]
    BY <2>1 DEF MergeInv, TypeOK
  <2>4. ASSUME NEW r \in Request, pc'[r] # "idle"
        PROVE  base'[SessionOf[r]] # 0 /\ BaseTree(SessionOf[r])' = BaseTree(SessionOf[r])
    BY <2>1, <2>3, <2>4, SlotAssumption DEF MergeInv, BaseTree
  <2>5. \A r \in Request : pc'[r] = "commit" => Analyzed(r)'
    BY <2>1, <2>4 DEF MergeInv, Analyzed, Tip
  <2>6. \A q \in Session : OnMain(q)' = OnMain(q)
    BY <2>1 DEF OnMain, Tip
  <2> QED BY <2>1, <2>2, <2>4, <2>5, <2>6, SlotAssumption DEF MergeInv
<1>2. ASSUME NEW s \in Session, NEW f \in File, NEW c \in Draft[s][f], FileWrite(s, f, c)
      PROVE  MergeInv'
  <2>1. UNCHANGED <<history, base, st, pc, job>> /\ Edit(s, f, c)
    BY <1>2 DEF FileWrite
  <2>2. overlay' \in [Session -> Overlay]
    <3>1. c \in Content
      BY DraftAssumption
    <3>2. [overlay[s] EXCEPT ![f] = c] \in Overlay
      BY <3>1 DEF MergeInv, TypeOK, Overlay
    <3> QED BY <2>1, <3>2 DEF Edit, MergeInv, TypeOK
  <2> QED BY <2>1, <2>2 DEF MergeInv, TypeOK, Analyzed, OnMain, Tip, BaseTree
<1>3. ASSUME NEW r \in Request, Handle(r) PROVE MergeInv'
  BY <1>3, HandleStep
<1>4. CASE UNCHANGED vars
  BY <1>4 DEF vars, MergeInv, TypeOK, Analyzed, OnMain, Tip, BaseTree
<1> QED BY <1>1, <1>2, <1>3, <1>4 DEF Next, Handle, Full

-----------------------------------------------------------------------------
\* The invariant holds throughout.
THEOREM MergeHolds == Spec => []MergeInv
BY MergeInit, MergeStep, PTL DEF Spec

\* Whatever requests race: a changeset is "merged" only once a commit of its
\* session is on the branch.
THEOREM MergedMeansOnMain == Spec => []StatusIsSound
<1>1. MergeInv => StatusIsSound
  BY DEF MergeInv, StatusIsSound, MergedIsOnMain, OnMain
<1> QED BY <1>1, MergeHolds, PTL

\* PRE_SUBMIT_CHECK reports a conflict exactly when the merge would find one.
THEOREM PreSubmitIsExact == Spec => []PreSubmitForesees
<1>1. \A b, h, ours, short :
         PreSubmitConflicts(b, h, ours, short) <=> MergeConflicts(b, h, ours, short)
  BY DEF PreSubmitConflicts, MergeConflicts, Foreseen, Conflicting, Nothing
<1>2. PreSubmitForesees
  BY <1>1 DEF PreSubmitForesees
<1> QED BY <1>2, PTL

\* What a commit does to the branch.
LEMMA CommitEffect ==
    ASSUME MergeInv, [Next]_vars, NEW r \in Request, Commits(r)
    PROVE  LET b == BaseTree(SessionOf[r])
               old == history[Tip].tree
               new == history'[Tip + 1].tree
               ours == job[r].ours
           IN  \A f \in File, x \in Symbol :
                /\ TextIn(new, f, x) =
                     IF OurText(b, ours, f, x) # TextIn(b, f, x)
                       THEN OurText(b, ours, f, x) ELSE TextIn(old, f, x)
                /\ TextIn(new, f, x) # TextIn(old, f, x)
                     => TextIn(old, f, x) = TextIn(b, f, x)
<1>1. Handle(r)
  <2>1. ASSUME NEW q \in Request, Handle(q) PROVE q = r
    BY <2>1, HandleFrame DEF Commits
  <2>2. pc' # pc
    BY DEF Commits
  <2>3. \E q \in Request : Handle(q)
    BY <2>2 DEF Next, Handle, Connect, FileWrite, Full, vars
  <2> QED BY <2>1, <2>3
<1>2. /\ Tip = job[r].parent /\ history' = Append(history, NewCommit(r))
      /\ TypeOK /\ base[SessionOf[r]] # 0 /\ Analyzed(r)
  BY <1>1, HandleFrame DEF MergeInv, Commits
<1>3. history'[Tip + 1] = NewCommit(r)
  BY <1>2, NewCommitFacts, AppendFacts
<1> QED BY <1>2, <1>3, NewCommitFacts

\* No merge loses a change, of its own session or of another.
THEOREM NothingIsLost == Spec => KeepsBothSides
<1>1. MergeInv /\ [Next]_vars =>
        [\A r \in Request : Commits(r) =>
           LET b == BaseTree(SessionOf[r])
               old == history[Tip].tree
               new == history'[Tip + 1].tree
               ours == job[r].ours
           IN  \A f \in File, x \in Symbol :
                  TextIn(new, f, x) =
                    IF OurText(b, ours, f, x) # TextIn(b, f, x)
                      THEN OurText(b, ours, f, x) ELSE TextIn(old, f, x)]_vars
  BY CommitEffect
<1> QED BY <1>1, MergeHolds, PTL DEF Spec, KeepsBothSides

\* No merge rewrites what somebody else has changed since its base.
THEOREM NothingIsOverwritten == Spec => NoSilentOverwrite
<1>1. MergeInv /\ [Next]_vars =>
        [\A r \in Request : Commits(r) =>
           LET b == BaseTree(SessionOf[r])
               old == history[Tip].tree
               new == history'[Tip + 1].tree
           IN  \A f \in File, x \in Symbol :
                  TextIn(new, f, x) # TextIn(old, f, x)
                    => TextIn(old, f, x) = TextIn(b, f, x)]_vars
  BY CommitEffect
<1> QED BY <1>1, MergeHolds, PTL DEF Spec, NoSilentOverwrite

=============================================================================
