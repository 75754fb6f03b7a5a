--------------------------- MODULE WorkspaceMerge ---------------------------
(***************************************************************************)
(* How changesets reach the main branch: the status a changeset passes     *)
(* through (SUBMIT, VERIFY, APPROVE, RESOLVE, MERGE), the three-way merge  *)
(* of a workspace's overlay with the head, and the commit.  The requests   *)
(* of all sessions interleave, also within a merge: nothing serialises     *)
(* them but the reference update of the commit.                            *)
(*                                                                         *)
(* A file's content is the text of each of its symbols; imports and the    *)
(* text between symbols are left out.  No handler deletes a file.          *)
(***************************************************************************)
EXTENDS Naturals, Sequences

CONSTANTS
    Session, File, Symbol,
    Text,          \* the text of a symbol
    Draft,         \* per session and file, the contents its agent writes
    Parsed,        \* the files in a language the parser knows
    Request,       \* slots for RPCs in flight
    SessionOf,     \* the session a slot belongs to
    Origin,        \* the tree of the first commit
    MaxCommits,    \* bound: no request arrives beyond so many commits
    NoText,        \* the text of a symbol that a file lacks
    NoFile,        \* the content of a file that a tree lacks
    Untouched,     \* the content of a file that an overlay lacks
    NoSession      \* the author of the first commit

Content == [Symbol -> Text \cup {NoText}]
Tree == [File -> Content \cup {NoFile}]
Overlay == [File -> Content \cup {Untouched}]

ASSUME NoContentAssumption ==
    NoFile \notin Content /\ Untouched \notin Content /\ NoFile # Untouched
ASSUME ParsedAssumption == Parsed \subseteq File
ASSUME DraftAssumption == Draft \in [Session -> [File -> SUBSET Content]]
ASSUME OriginAssumption == Origin \in Tree
ASSUME SlotAssumption == SessionOf \in [Request -> Session]
ASSUME NoAuthorAssumption == NoSession \notin Session
ASSUME MaxCommitsAssumption == MaxCommits \in Nat

VARIABLES
    history,    \* the commits of the main branch, first to last
    base,       \* per session, the commit it started from; 0 before CONNECT
    overlay,    \* per session, the content of the files it has written
    st,         \* per session, the state of its changeset
    pc,         \* per request, the step it is at
    job         \* per request, its local variables

vars == <<history, base, overlay, st, pc, job>>

\* No handler closes a changeset.
State == {"draft", "submitted", "verifying", "approved", "rejected", "merged"}

Steps == {"idle", "submit", "verdict", "approve", "resolve",
          "analyze", "commit", "setMerged"}

Commit == [tree : Tree, by : Session \cup {NoSession}]

Job == [ours : Overlay,            \* the overlay as the merge read it
        parent : Nat,              \* the head as the merge read it
        short : SUBSET Parsed,     \* see FileMerge
        was : State]               \* the state APPROVE read

\* The head of the branch.
Tip == Len(history)

Nothing == [f \in File |-> Untouched]

NoJob == [ours |-> Nothing, parent |-> 0, short |-> {}, was |-> "draft"]

Init ==
    /\ history = <<[tree |-> Origin, by |-> NoSession]>>
    /\ base = [s \in Session |-> 0]
    /\ overlay = [s \in Session |-> Nothing]
    /\ st = [s \in Session |-> "draft"]
    /\ pc = [r \in Request |-> "idle"]
    /\ job = [r \in Request |-> NoJob]

Goto(r, step) == pc' = [pc EXCEPT ![r] = step]

\* The handler returns and its locals go.
Return(r) ==
    /\ pc' = [pc EXCEPT ![r] = "idle"]
    /\ job' = [job EXCEPT ![r] = NoJob]

\* A request arrives for a session that has connected.
Arrives(r) == pc[r] = "idle" /\ base[SessionOf[r]] # 0 /\ Tip <= MaxCommits

SetState(r, state) == st' = [st EXCEPT ![SessionOf[r]] = state]

-----------------------------------------------------------------------------
\* CONNECT and FILE_WRITE

\* The workspace starts from the head, or from an older commit that the agent
\* names.
Connect(s, c) ==
    /\ base[s] = 0
    /\ base' = [base EXCEPT ![s] = c]
    /\ UNCHANGED <<history, overlay, st, pc, job>>

Edit(s, f, c) == overlay' = [overlay EXCEPT ![s][f] = c]

\* FILE_WRITE, whatever the state of the changeset: the overlay and its
\* changeset_files row.  SymbolLocks takes it apart.
FileWrite(s, f, c) ==
    /\ base[s] # 0 /\ Tip <= MaxCommits
    /\ overlay[s][f] # c
    /\ Edit(s, f, c)
    /\ UNCHANGED <<history, base, st, pc, job>>

-----------------------------------------------------------------------------
\* SUBMIT, VERIFY, APPROVE and RESOLVE

\* The overlay, which goes to changeset_files, is not empty.
BeginSubmit(r) ==
    /\ Arrives(r)
    /\ overlay[SessionOf[r]] # Nothing
    /\ Goto(r, "submit")
    /\ UNCHANGED <<history, base, overlay, st, job>>

\* update_status, whatever the state has become.
SetSubmitted(r) ==
    /\ pc[r] = "submit"
    /\ SetState(r, "submitted")
    /\ Return(r)
    /\ UNCHANGED <<history, base, overlay>>

\* update_status, whatever the state is; its failure is ignored.
BeginVerify(r) ==
    /\ Arrives(r)
    /\ SetState(r, "verifying") \/ st' = st
    /\ Goto(r, "verdict")
    /\ UNCHANGED <<history, base, overlay, job>>

\* update_status, whatever the state has become.
Verdict(r, passed) ==
    /\ pc[r] = "verdict"
    /\ SetState(r, IF passed THEN "approved" ELSE "rejected")
    /\ Return(r)
    /\ UNCHANGED <<history, base, overlay>>

BeginApprove(r) ==
    /\ Arrives(r)
    /\ st[SessionOf[r]] \in {"submitted", "verifying", "rejected"}
    /\ job' = [job EXCEPT ![r].was = st[SessionOf[r]]]
    /\ Goto(r, "approve")
    /\ UNCHANGED <<history, base, overlay, st>>

\* update_status_if: refused when the state is not the one that was read.
Approve(r) ==
    /\ pc[r] = "approve"
    /\ IF st[SessionOf[r]] = job[r].was
         THEN SetState(r, "approved") ELSE st' = st
    /\ Return(r)
    /\ UNCHANGED <<history, base, overlay>>

\* find_by_session: the changeset is not merged.
BeginResolve(r) ==
    /\ Arrives(r)
    /\ st[SessionOf[r]] # "merged"
    /\ Goto(r, "resolve")
    /\ UNCHANGED <<history, base, overlay, st, job>>

\* The MANUAL mode writes the overlay and not changeset_files.
ResolveManually(r, f, c) ==
    /\ Arrives(r)
    /\ st[SessionOf[r]] # "merged"
    /\ overlay[SessionOf[r]][f] # c
    /\ Edit(SessionOf[r], f, c)
    /\ Goto(r, "resolve")
    /\ UNCHANGED <<history, base, st, job>>

\* update_status_if, whose refusal is ignored.
Resolve(r) ==
    /\ pc[r] = "resolve"
    /\ IF st[SessionOf[r]] \in {"draft", "submitted", "verifying", "rejected"}
         THEN SetState(r, "submitted") ELSE st' = st
    /\ Return(r)
    /\ UNCHANGED <<history, base, overlay>>

-----------------------------------------------------------------------------
(***************************************************************************)
(* The three-way merge.  b, h and o are the content of a file at the base, *)
(* at the head and in the overlay.                                         *)
(***************************************************************************)

\* The symbols in true conflict: changed on both sides, unless a symbol of
\* the base was changed alike.
Clashes(b, h, o) ==
    {x \in Symbol : h[x] # b[x] /\ o[x] # b[x] /\ (h[x] # o[x] \/ b[x] = NoText)}

\* Mutant: the overlay's file is taken as it is.
AstMerge_overlay(b, h, o) == o

AstMerge(b, h, o) == [x \in Symbol |-> IF o[x] # b[x] THEN o[x] ELSE h[x]]

\* Byte-level analysis: both changed the file, and differently.
Differ(b, h, o) == h # b /\ o # b /\ h # o

\* A parsed file is merged symbol by symbol, unless the result is suspiciously
\* short; when it is depends on the text, so short names such files.
FileClashes(f, b, h, o, short) ==
    IF f \in Parsed /\ (Clashes(b, h, o) # {} \/ f \notin short)
      THEN Clashes(b, h, o) # {}
      ELSE Differ(b, h, o)

FileMerge(f, b, h, o, short) ==
    IF f \in Parsed \ short THEN AstMerge(b, h, o)
    ELSE IF o # b THEN o ELSE h

\* merge_workspace for a file that the overlay has written.  When the head is
\* the base this is the fast path: the overlay as it is.
Conflicting(f, b, h, o, short) ==
    /\ b # h
    /\ \/ b = NoFile /\ h # o
       \/ h = NoFile
       \/ b # NoFile /\ h # NoFile /\ FileClashes(f, b, h, o, short)

Rebased(f, b, h, o, short) ==
    IF b = h \/ b = NoFile THEN o ELSE FileMerge(f, b, h, o, short)

MergeConflicts(b, h, ours, short) ==
    \E f \in File : ours[f] # Untouched /\ Conflicting(f, b[f], h[f], ours[f], short)

MergedTree(b, h, ours, short) ==
    [f \in File |-> IF ours[f] = Untouched THEN h[f]
                    ELSE Rebased(f, b[f], h[f], ours[f], short)]

\* PRE_SUBMIT_CHECK of a file that the overlay has written.  It answers with
\* the conflicts and changes nothing.
\* Mutant: files that differ are in conflict.
Foreseen_bytes(f, b, h, o, short) ==
    CASE h = NoFile -> b # NoFile
      [] b = NoFile /\ h # NoFile -> o # h
      [] OTHER -> b # h /\ Differ(b, h, o)

Foreseen(f, b, h, o, short) ==
    CASE h = NoFile -> b # NoFile
      [] b = NoFile /\ h # NoFile -> o # h
      [] OTHER -> b # h /\ FileClashes(f, b, h, o, short)

PreSubmitConflicts(b, h, ours, short) ==
    /\ b # h /\ ours # Nothing
    /\ \E f \in File : ours[f] # Untouched /\ Foreseen(f, b[f], h[f], ours[f], short)

-----------------------------------------------------------------------------
\* MERGE

BeginMerge(r) ==
    /\ Arrives(r)
    /\ st[SessionOf[r]] = "approved"
    /\ Goto(r, "analyze")
    /\ UNCHANGED <<history, base, overlay, st, job>>

BaseTree(s) == history[base[s]].tree

\* merge_workspace reads the overlay and the head.  An empty overlay is an
\* error; conflicts are the answer, and change nothing.
Analyze(r) ==
    LET s == SessionOf[r] IN
    /\ pc[r] = "analyze"
    /\ \E short \in SUBSET Parsed :
         IF \/ overlay[s] = Nothing
            \/ MergeConflicts(BaseTree(s), history[Tip].tree, overlay[s], short)
           THEN Return(r)
           ELSE /\ job' = [job EXCEPT ![r] = [ours |-> overlay[s], parent |-> Tip,
                             short |-> short, was |-> "draft"]]
                /\ Goto(r, "commit")
    /\ UNCHANGED <<history, base, overlay, st>>

NewCommit(r) ==
    LET j == job[r]  s == SessionOf[r] IN
    [tree |-> MergedTree(BaseTree(s), history[j.parent].tree, j.ours, j.short),
     by |-> s]

\* Mutant: the reference is updated wherever it points.
CommitTree_forced(r) ==
    /\ pc[r] = "commit"
    /\ history' = Append(history, NewCommit(r))
    /\ Goto(r, "setMerged") /\ job' = [job EXCEPT ![r] = NoJob]
    /\ UNCHANGED <<base, overlay, st>>

\* Mutant: a refused update counts as a merge.
CommitTree_ignored(r) ==
    /\ pc[r] = "commit"
    /\ history' = IF Tip = job[r].parent THEN Append(history, NewCommit(r))
                                          ELSE history
    /\ Goto(r, "setMerged") /\ job' = [job EXCEPT ![r] = NoJob]
    /\ UNCHANGED <<base, overlay, st>>

\* The commit is refused when the head is no longer the commit's parent.
CommitTree(r) ==
    /\ pc[r] = "commit"
    /\ IF Tip = job[r].parent
         THEN /\ history' = Append(history, NewCommit(r))
              /\ Goto(r, "setMerged") /\ job' = [job EXCEPT ![r] = NoJob]
         ELSE history' = history /\ Return(r)
    /\ UNCHANGED <<base, overlay, st>>

\* set_merged, whatever the state has become.
SetMerged(r) ==
    /\ pc[r] = "setMerged"
    /\ SetState(r, "merged")
    /\ Return(r)
    /\ UNCHANGED <<history, base, overlay>>

\* The request ends early: the store or git refuses a query, which some
\* handlers answer with an error and others ignore, or the process stops.
Fail(r) ==
    /\ pc[r] # "idle"
    /\ Return(r)
    /\ UNCHANGED <<history, base, overlay, st>>

-----------------------------------------------------------------------------

\* Bound: the branch is as long as it gets.
Full == Tip > MaxCommits /\ UNCHANGED vars

Next ==
    \/ \E s \in Session : \E c \in 1 .. Tip : Connect(s, c)
    \/ \E s \in Session, f \in File : \E c \in Draft[s][f] : FileWrite(s, f, c)
    \/ \E r \in Request :
          \/ BeginSubmit(r) \/ SetSubmitted(r)
          \/ BeginVerify(r) \/ \E passed \in BOOLEAN : Verdict(r, passed)
          \/ BeginApprove(r) \/ Approve(r)
          \/ BeginResolve(r) \/ Resolve(r)
          \/ \E f \in File : \E c \in Draft[SessionOf[r]][f] : ResolveManually(r, f, c)
          \/ BeginMerge(r) \/ Analyze(r) \/ CommitTree(r) \/ SetMerged(r)
          \/ Fail(r)
    \/ Full

Spec == Init /\ [][Next]_vars

-----------------------------------------------------------------------------
(***************************************************************************)
(* Properties                                                              *)
(***************************************************************************)

\* The variables keep their types.
TypeOK ==
    /\ history \in Seq(Commit) /\ history # <<>>
    /\ base \in [Session -> 0 .. Tip]
    /\ overlay \in [Session -> Overlay]
    /\ st \in [Session -> State]
    /\ pc \in [Request -> Steps]
    /\ job \in [Request -> Job]

\* The text of a symbol in a tree.
TextIn(tree, f, x) == IF tree[f] = NoFile THEN NoText ELSE tree[f][x]

\* The same in an overlay on top of a tree.
OurText(tree, ours, f, x) ==
    IF ours[f] = Untouched THEN TextIn(tree, f, x) ELSE ours[f][x]

Commits(r) == pc[r] = "commit" /\ pc'[r] = "setMerged"

\* A commit holds every change of the session to its base, and of everything
\* else what the branch held just before: whatever merges run at the same
\* time, no agent's change is lost (merge_workspace and the conditional update
\* of the reference).
KeepsBothSides ==
    [][\A r \in Request : Commits(r) =>
         LET b == BaseTree(SessionOf[r])
             old == history[Tip].tree
             new == history'[Tip + 1].tree
             ours == job[r].ours
         IN  \A f \in File, x \in Symbol :
                TextIn(new, f, x) =
                  IF OurText(b, ours, f, x) # TextIn(b, f, x)
                    THEN OurText(b, ours, f, x) ELSE TextIn(old, f, x)]_vars

\* A symbol that the branch has changed since the session's base is changed
\* by the session's commit only into what it is already: two agents that
\* rewrite one symbol are told, and neither rewrites it unawares.
NoSilentOverwrite ==
    [][\A r \in Request : Commits(r) =>
         LET b == BaseTree(SessionOf[r])
             old == history[Tip].tree
             new == history'[Tip + 1].tree
         IN  \A f \in File, x \in Symbol :
                TextIn(new, f, x) # TextIn(old, f, x)
                  => TextIn(old, f, x) = TextIn(b, f, x)]_vars

\* A changeset is merged only once a commit of its session is on the branch:
\* a merge that lost the race for the head never reports success (handle_merge).
MergedIsOnMain ==
    \A s \in Session : st[s] = "merged" => \E i \in 1 .. Tip : history[i].by = s

\* PRE_SUBMIT_CHECK foresees what a merge would find now: it reports a conflict
\* exactly when a merge of the overlay with the head would be refused for one
\* (handle_pre_submit_check, merge_workspace).
PreSubmitForesees ==
    \A s \in Session : base[s] # 0 =>
        \A short \in SUBSET Parsed :
            PreSubmitConflicts(BaseTree(s), history[Tip].tree, overlay[s], short)
              <=> MergeConflicts(BaseTree(s), history[Tip].tree, overlay[s], short)

\* The status of a changeset keeps its type and says "merged" of nothing that
\* is not on the branch (handle_merge).
StatusIsSound == TypeOK /\ MergedIsOnMain

=============================================================================
