------------------------------ MODULE CodeIndex ------------------------------
(***************************************************************************)
(* The semantic graph of a repository: a row for each symbol, the calls    *)
(* between symbols, and a search index with a document for each symbol.    *)
(* Files are indexed again when a changeset with them is submitted.        *)
(*                                                                         *)
(* The write lock of the search index is held while files are parsed and   *)
(* rows replaced, and released before the calls are inserted.  Rows and    *)
(* calls are written at once; what was staged for the search index waits   *)
(* for a commit, whoever makes it, and is lost with the process.           *)
(*                                                                         *)
(* A file is the set of names it defines; the parser gives every symbol it *)
(* finds a new id.  A row is unique by its name within the repository.     *)
(* The parsers yield no types.                                             *)
(***************************************************************************)
EXTENDS Naturals

CONSTANTS
    File, Name,
    Calls,       \* the calls that definitions make, as pairs of names
    Update,      \* requests that index files
    NoFile, NoRow, Nobody,
    MaxIds       \* bound

VARIABLES
    symbols,     \* the row of each name: its id and its file
    call_edges,  \* pairs of ids
    docs,        \* the ids that a search finds, with their names
    staged,      \* what it will find after the next commit
    lock,        \* who holds the write lock of the index
    job,         \* of each update, where it is
    next_id,
    latest,      \* per file, the update that took it last and still runs (history)
    indexed,     \* per file, the names of its last whole indexing, or NoFile (history)
    ghosts,      \* ids that a crash or a shared name left behind (history)
    shared       \* names that were found in two files (history)

vars == <<symbols, call_edges, docs, staged, lock, job, next_id,
          latest, indexed, ghosts, shared>>

Id == 1..MaxIds
NoJob == [pc |-> "idle"]
NoneFound == [n \in Name |-> 0]   \* for each name, the id of the symbol found
Started(fs) == [pc |-> "take", todo |-> fs, file |-> NoFile, new |-> {},
                parsed |-> [f \in File |-> NoFile], found |-> NoneFound, calls |-> {}]

Rows == {symbols[n] : n \in Name} \ {NoRow}
RowsOf(f) == {r \in Rows : r.file = f}
Ids(rs) == {r.id : r \in rs}
Without(edges, ids) == {e \in edges : e[1] \notin ids /\ e[2] \notin ids}

TypeOK ==
    /\ symbols \in [Name -> [id : Id, name : Name, file : File] \cup {NoRow}]
    /\ call_edges \subseteq Ids(Rows) \X Ids(Rows)
    /\ docs \cup staged \subseteq Id
    /\ lock \in Update \cup {Nobody}
    /\ indexed \in [File -> (SUBSET Name) \cup {NoFile}]

Init ==
    /\ symbols = [n \in Name |-> NoRow] /\ call_edges = {}
    /\ docs = {} /\ staged = {} /\ lock = Nobody
    /\ job = [u \in Update |-> NoJob] /\ next_id = 1
    /\ latest = [f \in File |-> Nobody] /\ indexed = [f \in File |-> NoFile]
    /\ ghosts = {} /\ shared = {}

index == <<docs, staged>>
history == <<latest, indexed, ghosts, shared>>

-----------------------------------------------------------------------------
\* Engine::update_files_by_root; a repository without symbols is indexed by
\* index_repo, which has nothing to delete.

Begin(u, fs) ==
    /\ job[u] = NoJob /\ lock = Nobody
    /\ lock' = u /\ job' = [job EXCEPT ![u] = Started(fs)]
    /\ UNCHANGED <<symbols, call_edges, index, next_id, history>>

\* The old symbols leave the search index.
Unindexed(f) == staged \ Ids(RowsOf(f))

TakeFile(u, f) ==
    /\ job[u].pc = "take" /\ f \in job[u].todo
    /\ staged' = Unindexed(f)
    /\ job' = [job EXCEPT ![u].pc = "calls", ![u].file = f, ![u].todo = @ \ {f}]
    /\ latest' = [latest EXCEPT ![f] = u] /\ indexed' = [indexed EXCEPT ![f] = NoFile]
    /\ UNCHANGED <<symbols, call_edges, docs, lock, next_id, ghosts, shared>>

\* delete_edges_for_file
DeleteEdges(u) ==
    /\ job[u].pc = "calls"
    /\ call_edges' = Without(call_edges, Ids(RowsOf(job[u].file)))
    /\ job' = [job EXCEPT ![u].pc = "rows"]
    /\ UNCHANGED <<symbols, index, lock, next_id, history>>

\* Mutant: a file that is not there any more is passed over.
IsOld_present(r, f, names) == r # NoRow /\ r.file = f /\ names # NoFile

IsOld(r, f, names) == r # NoRow /\ r.file = f

\* delete_by_file, which takes the calls of a row along, and the parser.
\* Merges check out other trees, so the file may define anything by now.
ReplaceRows(u, names) ==
    LET f == job[u].file
        now == IF names = NoFile THEN {} ELSE names
        old == {n \in Name : IsOld(symbols[n], f, names)}
    IN
    /\ job[u].pc = "rows"
    /\ symbols' = [n \in Name |-> IF n \in old THEN NoRow ELSE symbols[n]]
    /\ call_edges' = Without(call_edges, {symbols[n].id : n \in old})
    /\ job' = [job EXCEPT ![u].pc = "symbols", ![u].new = now, ![u].parsed[f] = now]
    /\ UNCHANGED <<index, lock, next_id, history>>

IdFor(n) == next_id

\* upsert_symbol and index_symbol.  If another file has a symbol of that name,
\* its row is taken over and the calls of the row go with the new id.
Upsert(u, n) ==
    LET old == symbols[n]
        id == IdFor(n)
        Now(i) == IF old # NoRow /\ i = old.id THEN id ELSE i
    IN
    /\ job[u].pc = "symbols" /\ n \in job[u].new /\ next_id <= MaxIds
    /\ symbols' = [symbols EXCEPT ![n] = [id |-> id, name |-> n, file |-> job[u].file]]
    /\ call_edges' = {<<Now(e[1]), Now(e[2])>> : e \in call_edges}
    /\ staged' = staged \cup {next_id} /\ next_id' = next_id + 1
    /\ job' = [job EXCEPT ![u].new = @ \ {n}, ![u].found[n] = next_id]
    /\ IF old = NoRow THEN UNCHANGED <<ghosts, shared>>
       ELSE ghosts' = ghosts \cup {old.id} /\ shared' = shared \cup {n}
    /\ UNCHANGED <<docs, lock, latest, indexed>>

NextFile(u) ==
    /\ job[u].pc = "symbols" /\ job[u].new = {}
    /\ job' = [job EXCEPT ![u].pc = "take", ![u].file = NoFile]
    /\ UNCHANGED <<symbols, call_edges, index, lock, next_id, history>>

\* resolve_call_edges: among the symbols that this request has found.
Resolved(found) ==
    {<<found[c[1]], found[c[2]]>> : c \in {d \in Calls : 0 \notin {found[d[1]], found[d[2]]}}}

Commit(u) ==
    /\ job[u].pc = "take" /\ job[u].todo = {}
    /\ docs' = staged /\ lock' = Nobody
    /\ job' = [job EXCEPT ![u].pc = "insert", ![u].calls = Resolved(job[u].found),
                            ![u].found = NoneFound]
    /\ UNCHANGED <<symbols, call_edges, staged, next_id, history>>

\* Another request may have replaced the symbols since: insert_edge fails.
CanInsert(e) == {e[1], e[2]} \subseteq Ids(Rows)

InsertEdge(u, e) ==
    /\ job[u].pc = "insert" /\ e \in job[u].calls /\ CanInsert(e)
    /\ call_edges' = call_edges \cup {e}
    /\ job' = [job EXCEPT ![u].calls = @ \ {e}]
    /\ UNCHANGED <<symbols, index, lock, next_id, history>>

\* The request is over.
End(u) ==
    /\ job' = [job EXCEPT ![u] = NoJob]
    /\ latest' = [f \in File |-> IF latest[f] = u THEN Nobody ELSE latest[f]]

Done(u) ==
    /\ job[u].pc = "insert" /\ job[u].calls = {}
    /\ End(u)
    /\ indexed' = [f \in File |-> IF job[u].parsed[f] # NoFile /\ latest[f] = u
                                    THEN job[u].parsed[f] ELSE indexed[f]]
    /\ UNCHANGED <<symbols, call_edges, index, lock, next_id, ghosts, shared>>

\* A query or the parser fails, and the request with it.  What it staged stays
\* staged.
Fail(u) ==
    /\ job[u].pc \notin {"idle", "take"}
    /\ End(u)
    /\ lock' = IF lock = u THEN Nobody ELSE lock
    /\ UNCHANGED <<symbols, call_edges, index, next_id, indexed, ghosts, shared>>

Crash ==
    /\ job' = [u \in Update |-> NoJob] /\ lock' = Nobody
    /\ latest' = [f \in File |-> Nobody]
    /\ staged' = docs /\ ghosts' = ghosts \cup (docs \ Ids(Rows))
    /\ UNCHANGED <<symbols, call_edges, docs, next_id, indexed, shared>>

Next ==
    \/ \E u \in Update :
         \/ \E fs \in SUBSET File \ {{}} : Begin(u, fs)
         \/ \E f \in File : TakeFile(u, f)
         \/ \E names \in (SUBSET Name) \cup {NoFile} : ReplaceRows(u, names)
         \/ \E n \in Name : Upsert(u, n)
         \/ \E e \in Id \X Id : InsertEdge(u, e)
         \/ DeleteEdges(u) \/ NextFile(u) \/ Commit(u) \/ Done(u) \/ Fail(u)
    \/ Crash

Spec == Init /\ [][Next]_vars

-----------------------------------------------------------------------------
\* A search finds every symbol of a file that was indexed to the end, whatever
\* other requests did, failed to do or left staged since then
\* (update_files_by_root).
RowIsSearchable == \A r \in Rows : indexed[r.file] # NoFile => r.id \in docs

\* What a commit would make searchable are symbols with a row, but for what a
\* crash left behind and for the symbols whose row another file took over.
NoGhosts == staged \subseteq Ids(Rows) \cup ghosts

\* A file that was indexed to the end has a row for each name it had then and
\* a call between two of them where there was one, although calls are inserted
\* without the lock, unless another file defines one of its names.
FileIsIndexed ==
    \A f \in File : indexed[f] # NoFile /\ indexed[f] \cap shared = {} =>
        LET rows == RowsOf(f) IN
        /\ {r.name : r \in rows} = indexed[f]
        /\ \A r, q \in rows : <<r.id, q.id>> \in call_edges <=> <<r.name, q.name>> \in Calls
=============================================================================
