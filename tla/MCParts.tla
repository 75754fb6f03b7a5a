------------------------------ MODULE MCParts -------------------------------
(***************************************************************************)
(* The algorithms of the pipeline and the parts beside the locks and the   *)
(* merge -- the files, the graph and the cache of a workspace, the event   *)
(* bus, the index of a repository, the analytics sink, the versions of one *)
(* file -- share no state, so a behaviour exercises one of them, chosen at *)
(* the start.                                                              *)
(*                                                                         *)
(* A file of the base and a new one, a content that makes the first of     *)
(* them unreadable, two writers; two symbols of the shared table and three *)
(* of the parser's; two cached files, two tasks; a repository, two         *)
(* publishers and two receivers with a channel of one; two updates of two  *)
(* files with three symbols between them, one of which calls another; two   *)
(* tables, four events, a channel and batches of two, and two units per    *)
(* interval; the versions of a file that MCFileEdits lists.                *)
(***************************************************************************)
EXTENDS Parts, MCPipelineChecks, TLC

CONSTANTS
    old_file, new_file, path1, path2, one_text, other_text, blob,
    writer1, writer2, name1, name2, base1, base2, new1, new2, new3,
    workspace1, task1, task2, repo1, publisher1, publisher2, receiver1, receiver2,
    update1, update2, table1, table2,
    NoComment                                            \* versions of a file

VARIABLES
    base, head, overlay, known, outcome,
    mode

BaseTree == old_file :> one_text @@ new_file :> NoFile
NameOfId == base1 :> name1 @@ base2 :> name2 @@ new1 :> name1 @@ new2 :> name1 @@ new3 :> name2
FileOfId == [i \in {base1, base2, new1, new2} |-> old_file] @@ new3 :> new_file
TablesInOrder == <<table1, table2>>
CallPairs == {<<name1, name2>>}

Samples == INSTANCE MCFileEdits WITH Edits <- {}, Size <- <<>>
SampleEdits == Samples!MCEdits
SampleSizes == Samples!MCSize
E == INSTANCE FileEdits WITH Edits <- SampleEdits, Size <- SampleSizes

checks == <<asked, question, answer>>
files == <<where, entries, rows, write, list, answered, unsure>>
graph == <<shared, modified_symbols, added_symbols, removed_symbols, removed_symbol_names, last,
           unseen>>
cache == <<alive, since, meta, cached, list_ttl, cached_file, task, silent, late>>
bus == <<channels, sent, publication, receiver, events>>
code == <<symbols, call_edges, docs, staged, lock, job, next_id, latest, indexed, ghosts,
          contested>>
sink == <<handles, table, channel, batch, age, due, writing, todo, spent, exited, inserted,
          dropped, lost>>
texts == <<base, head, overlay, known, outcome>>
parts == <<checks, files, graph, cache, bus, code, sink, texts, mode>>

\* What a behaviour does not exercise starts somewhere.
PartsInit ==
    /\ mode \in {"checks", "files", "graph", "cache", "bus", "code", "sink", "texts"}
    /\ IF mode = "checks" THEN Init
       ELSE asked = "judge" /\ question = (CHOOSE q \in Judgements : TRUE) /\ answer = <<>>
    /\ IF mode = "texts" THEN E!Init
       ELSE /\ base = E!Nothing /\ head = E!Nothing /\ overlay = E!Nothing
            /\ known = TRUE /\ outcome = <<>>
    /\ IF mode = "graph" THEN G!Init
       ELSE /\ shared = G!NoSymbols /\ modified_symbols = G!NoSymbols /\ added_symbols = G!NoSymbols
            /\ removed_symbols = {} /\ removed_symbol_names = {} /\ unseen = {}
            /\ last = [i \in SymbolId |-> G!Untouched]
    /\ F!Init /\ C!Init /\ B!Init /\ I!Init /\ A!Init

ChecksStep ==
    /\ mode = "checks" /\ Next
    /\ UNCHANGED <<files, graph, cache, bus, code, sink, texts, mode>>
FilesStep ==
    /\ mode = "files" /\ F!Next
    /\ UNCHANGED <<checks, graph, cache, bus, code, sink, texts, mode>>
GraphStep ==
    /\ mode = "graph" /\ G!Next
    /\ UNCHANGED <<checks, files, cache, bus, code, sink, texts, mode>>
CacheStep ==
    /\ mode = "cache" /\ C!Next
    /\ UNCHANGED <<checks, files, graph, bus, code, sink, texts, mode>>
BusStep ==
    /\ mode = "bus" /\ B!Next
    /\ UNCHANGED <<checks, files, graph, cache, code, sink, texts, mode>>
CodeStep ==
    /\ mode = "code" /\ I!Next
    /\ UNCHANGED <<checks, files, graph, cache, bus, sink, texts, mode>>
SinkStep ==
    /\ mode = "sink" /\ A!Next
    /\ UNCHANGED <<checks, files, graph, cache, bus, code, texts, mode>>
TextsStep ==
    /\ mode = "texts" /\ E!Next
    /\ UNCHANGED <<checks, files, graph, cache, bus, code, sink, mode>>

PartsNext ==
    \/ ChecksStep \/ FilesStep \/ GraphStep \/ CacheStep \/ BusStep
    \/ CodeStep \/ SinkStep \/ TextsStep

PartsSpec == PartsInit /\ [][PartsNext]_parts

Interchangeable == Permutations({path1, path2}) \cup Permutations({update1, update2})

\* Sessions whose claims are apart merge without a conflict on a symbol
\* (file_write.rs, ast_merge.rs).
ClaimsApartMergeApart == E!ClaimsApartMergeApart

\* A merge has each definition as the side that changed it left it, whichever
\* session merges first, and what is said of a conflict is what was found
\* (ast_merge.rs, payload.rs).
MergeIsSound == E!MergeIsThreeWay /\ E!OrderDoesNotMatter /\ E!DetailFits
=============================================================================
