--------------------------- MODULE WorkspaceFiles ---------------------------
(***************************************************************************)
(* The files of one session's workspace: the overlay in memory, its rows   *)
(* in session_overlay_files, the tree of the base commit underneath, and   *)
(* what FILE_READ, FILE_LIST and a merge on top of the base make of them.  *)
(* A write is persisted before it is seen; workspaces leave memory when    *)
(* they are stranded or the process stops, and come back from the rows     *)
(* when they are resumed.                                                  *)
(*                                                                         *)
(* Whether an entry counts as added or modified follows from the base, so  *)
(* an entry is its content or Deleted.  No path is a prefix of another.    *)
(* No handler deletes a file, but the overlay can.                         *)
(***************************************************************************)
EXTENDS FiniteSets

CONSTANTS
    Path, Content,
    Base,        \* the tree of the base commit
    Parsed,      \* the paths in a language the parser knows
    Binary,      \* the contents that are not UTF-8
    Writer,      \* write requests in flight
    NoFile, Deleted, NoEntry

Entry == Content \cup {Deleted}

VARIABLES
    where,       \* "memory", "stranded", "limbo"
    entries,     \* the overlay in memory
    rows,        \* the rows of the workspace in session_overlay_files
    job,         \* per writer, what it writes and the step it is at
    list,        \* a FILE_LIST in progress, and the files it has listed
    answered,    \* the last write of each path that was answered (history)
    unsure       \* paths whose last writes overlapped or broke off (history)

vars == <<where, entries, rows, job, list, answered, unsure>>

Empty == [p \in Path |-> NoEntry]
Idle == [pc |-> "idle", path |-> NoFile, entry |-> NoEntry, alone |-> TRUE]
NoList == [pc |-> "idle", files |-> {}]

TypeOK ==
    /\ where \in {"memory", "stranded", "limbo"}
    /\ {entries, rows, answered} \subseteq [Path -> Entry \cup {NoEntry}]
    /\ list \in [pc : {"idle", "paths"}, files : SUBSET Path]
    /\ job \in [Writer -> {Idle} \cup [pc : {"row", "entry"}, path : Path, entry : Entry,
                                        alone : BOOLEAN]]
    /\ unsure \subseteq Path

Init ==
    /\ where = "memory" /\ entries = Empty /\ rows = Empty
    /\ job = [w \in Writer |-> Idle] /\ list = NoList
    /\ answered = Empty /\ unsure = {}

Quiet == \A w \in Writer : job[w] = Idle

-----------------------------------------------------------------------------
\* FileOverlay::write and delete: the row, then the entry.

WritersOf(p) == {w \in Writer : job[w].path = p}

\* Two requests of a session may write one path at a time.
BeginWrite(w, p, e) ==
    LET others == WritersOf(p) IN
    /\ where = "memory" /\ job[w] = Idle
    /\ job' = [v \in Writer |->
                 IF v = w THEN [pc |-> "row", path |-> p, entry |-> e, alone |-> others = {}]
                 ELSE IF v \in others THEN [job[v] EXCEPT !.alone = FALSE] ELSE job[v]]
    /\ UNCHANGED <<where, entries, rows, list, answered, unsure>>

PersistRow(w) ==
    /\ job[w].pc = "row"
    /\ rows' = [rows EXCEPT ![job[w].path] = job[w].entry]
    /\ job' = [job EXCEPT ![w].pc = "entry"]
    /\ UNCHANGED <<where, entries, list, answered, unsure>>

\* The query fails; whether the row is there is anyone's guess.
PersistFails(w) ==
    LET p == job[w].path IN
    /\ job[w].pc = "row"
    /\ rows' \in {rows, [rows EXCEPT ![p] = job[w].entry]}
    /\ unsure' = unsure \cup {p}
    /\ job' = [job EXCEPT ![w] = Idle]
    /\ UNCHANGED <<where, entries, list, answered>>

\* The write shows, and is answered.
InsertEntry(w) ==
    LET p == job[w].path IN
    /\ job[w].pc = "entry"
    /\ entries' = [entries EXCEPT ![p] = job[w].entry]
    /\ answered' = [answered EXCEPT ![p] = job[w].entry]
    /\ unsure' = IF job[w].alone THEN unsure \ {p} ELSE unsure \cup {p}
    /\ job' = [job EXCEPT ![w] = Idle]
    /\ UNCHANGED <<where, rows, list>>

-----------------------------------------------------------------------------
\* Out of memory and back.  The caller of write holds a guard on the
\* workspace until its answer, so a workspace that is written to stays.

Strand ==
    /\ where = "memory" /\ Quiet
    /\ where' = "stranded" /\ entries' = Empty /\ list' = NoList
    /\ UNCHANGED <<rows, job, answered, unsure>>

\* The process stops, and its successor strands what it finds.  A row on its
\* way is written or not.
Crash ==
    /\ where' = "stranded" /\ entries' = Empty /\ list' = NoList
    /\ \E arrived \in SUBSET {w \in Writer : job[w].pc = "row"} :
         rows' = [p \in Path |->
                    IF WritersOf(p) \cap arrived = {} THEN rows[p]
                    ELSE job[CHOOSE w \in WritersOf(p) \cap arrived : TRUE].entry]
    /\ unsure' = unsure \cup {p \in Path : WritersOf(p) # {}}
    /\ job' = [w \in Writer |-> Idle]
    /\ UNCHANGED answered

\* Mutant: a row without content is a file without content.
Restored_empty(row) == IF row = Deleted THEN CHOOSE c \in Content : TRUE ELSE row

\* The change type of a row decides what its entry is.
Restored(row) == row

\* restore_from_workspace_id; a resumed workspace keeps its id, so the rows
\* stay where they are.
RestoredEntries == [p \in Path |-> Restored(rows[p])]

\* reindex_from_overlay parses what it can and refuses what is not UTF-8.
Indexable(overlay) == \A p \in Parsed : overlay[p] \notin Binary

\* Nothing reaches the workspace before it is restored and indexed.
Resume ==
    /\ where = "stranded" /\ Indexable(RestoredEntries)
    /\ where' = "memory" /\ entries' = RestoredEntries
    /\ UNCHANGED <<rows, job, list, answered, unsure>>

\* re_strand_on_failure, which may fail in turn: the row is then neither
\* stranded nor in memory, until the process restarts.
ResumeFails ==
    /\ where = "stranded" /\ where' \in {"stranded", "limbo"}
    /\ UNCHANGED <<entries, rows, job, list, answered, unsure>>

-----------------------------------------------------------------------------
\* What the session sees, and what a merge of it onto its base commits.

BaseFiles == {p \in Path : Base[p] # NoFile}
Changed == {p \in Path : entries[p] # NoEntry}

\* SessionWorkspace::read_file; NoFile is an error.
read_file(p) ==
    IF entries[p] = Deleted THEN NoFile
    ELSE IF entries[p] # NoEntry THEN entries[p] ELSE Base[p]

list_files(only_modified) ==
    IF only_modified THEN Changed
    ELSE {p \in BaseFiles \cup Changed : entries[p] # Deleted}

\* overlay_for_tree and commit_tree_overlay: upsert what has content, remove
\* what has none.
CommitTree == [p \in Path |-> CASE entries[p] \in Content -> entries[p]
                                [] entries[p] = Deleted -> NoFile
                                [] entries[p] = NoEntry -> Base[p]]

\* FILE_LIST lists the files and then asks the overlay which of them the
\* session has changed; writes get in between.
ListFiles ==
    /\ where = "memory" /\ list = NoList
    /\ \E only_modified \in BOOLEAN :
         list' = [pc |-> "paths", files |-> list_files(only_modified)]
    /\ UNCHANGED <<where, entries, rows, job, answered, unsure>>

Reply == [files |-> list.files, modified |-> list.files \cap Changed]

ListReturns ==
    /\ list.pc = "paths" /\ list' = NoList
    /\ UNCHANGED <<where, entries, rows, job, answered, unsure>>

Next ==
    \/ \E w \in Writer, p \in Path, e \in Entry : BeginWrite(w, p, e)
    \/ \E w \in Writer : PersistRow(w) \/ PersistFails(w) \/ InsertEntry(w)
    \/ Strand \/ Crash \/ Resume \/ ResumeFails
    \/ ListFiles \/ ListReturns

Spec == Init /\ [][Next]_vars

-----------------------------------------------------------------------------
\* A write that was answered survives: whatever else is written, however
\* often the workspace leaves memory and comes back, the overlay and its row
\* hold it until the next write of that path, unless two of them overlapped
\* or one broke off (FileOverlay::write, restore_from_workspace_id).
AnsweredSurvives ==
    \A p \in Path \ unsure : WritersOf(p) = {} =>
        /\ rows[p] = answered[p]
        /\ where = "memory" => entries[p] = answered[p]

\* What FILE_READ returns, what FILE_LIST lists and what a merge onto the
\* base commits are one and the same tree.
OneView ==
    where = "memory" =>
        /\ list_files(FALSE) = {p \in Path : read_file(p) # NoFile}
        /\ CommitTree = [p \in Path |-> read_file(p)]

\* A file that FILE_LIST lists and the base lacks is the session's own, and
\* is marked so, whatever is written while the list is made.
AddedIsMarked ==
    list.pc = "paths" => Reply.files \ BaseFiles \subseteq Reply.modified
=============================================================================
