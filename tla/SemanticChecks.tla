--------------------------- MODULE SemanticChecks ---------------------------
(***************************************************************************)
(* The checks of a "semantic" step (dk-runner, steps/semantic): pure       *)
(* functions of a context that is gathered from the code graph and from    *)
(* the changed files in the runner's working copy.                         *)
(*                                                                         *)
(* A symbol is [id, name, file, fn, public, result, parent]: `result` is   *)
(* its signature as far as the checks look into it; an id is a sequence,   *)
(* <<>> for no parent.  A line of source is the set of what the checks     *)
(* find in it.  A finding is [check, severity, about], about a sequence of  *)
(* ids or names.                                                           *)
(***************************************************************************)
EXTENDS Integers, Sequences, SequencesExt, FiniteSetsExt

Finding(check, severity, about) ==
    [check |-> check, severity |-> severity, about |-> about]

About(name) == <<<<name>>>>

Names(symbols) == {s.name : s \in symbols}
Callables(symbols) == {s \in symbols : s.fn}
PublicOf(symbols) == {s \in symbols : s.public}

(***************************************************************************)
(* The context.  A repository is [db, calls, tree, lines]: the indexed     *)
(* symbols and calls, and for every file in the working copy its symbols   *)
(* and its lines.                                                          *)
(***************************************************************************)
\* The calls from or to a symbol of a changed file.
CallsAround(calls, symbols) ==
    SelectSeq(calls, LAMBDA e : {e[1], e[2]} \cap {s.id : s \in symbols} # {})

\* build_check_context.  Symbols parsed from a file get new ids, and their
\* calls are not collected.
BuildContext(repo, files) ==
    LET before == {s \in repo.db : s.file \in files}
        there == files \cap DOMAIN repo.tree
    IN  [before |-> before,
         after |-> UNION {repo.tree[f] : f \in there},
         calls |-> CallsAround(repo.calls, before),
         lines |-> [f \in there |-> repo.lines[f]]]

(***************************************************************************)
(* Safety and compatibility.                                               *)
(***************************************************************************)
NoUnsafeAdded(ctx) ==
    {Finding("no-unsafe-added", "error", About(f)) :
        f \in {g \in DOMAIN ctx.lines : \E l \in ToSet(ctx.lines[g]) : "unsafe" \in l}}

\* A file whose path says "test" may unwrap.
NoUnwrapAdded(ctx, tests) ==
    {Finding("no-unwrap-added", "warning", About(f)) :
        f \in {g \in DOMAIN ctx.lines \ tests :
                  \E l \in ToSet(ctx.lines[g]) : "unwrap" \in l}}

ErrorHandlingPreserved(ctx) ==
    LET fallible == Names({s \in Callables(ctx.before) : s.result})
    IN  {Finding("error-handling-preserved", "error", About(s.name)) :
            s \in {t \in Callables(ctx.after) : t.name \in fallible /\ ~t.result}}

NoPublicRemoval(ctx) ==
    {Finding("no-public-removal", "error", About(n)) :
        n \in Names(PublicOf(ctx.before)) \ Names(ctx.after)}

SignatureStable(ctx) ==
    {Finding("signature-stable", "error", About(s.name)) :
        s \in {t \in PublicOf(ctx.after) :
                  \E b \in PublicOf(ctx.before) : b.name = t.name /\ b.result # t.result}}

\* The methods of an impl block are found by the block's id, which is another
\* one after the change.
MethodsOf(symbols, id) == Names({s \in Callables(symbols) : s.parent = id})

TraitImplComplete(ctx) ==
    {Finding("trait-impl-complete", "warning", <<id>>) :
        id \in {s.parent : s \in {t \in Callables(ctx.before) :
                   /\ t.parent # <<>>
                   /\ MethodsOf(ctx.before, t.parent) \ MethodsOf(ctx.after, t.parent) # {}}}}

(***************************************************************************)
(* Quality.                                                                *)
(***************************************************************************)

\* The scanner of ComplexityLimit: braces are counted from the line with the
\* fn on, branch depth by the lines that hold a branching keyword.  A line is
\* a set of "fn", "open", "close", "branch", "leads" (it starts with the
\* closing brace), with at most one brace of each kind.
\* The counts start anew with every function.
ScanLine(scan, line, limit) ==
    LET starts == ~scan.inside /\ "fn" \in line
        inside == scan.inside \/ starts
        open == (IF starts THEN 0 ELSE scan.depth) + (IF "open" \in line THEN 1 ELSE 0)
        depth == IF "close" \in line /\ open > 0 THEN open - 1 ELSE open
        up == (IF starts THEN 0 ELSE scan.branch) + (IF "branch" \in line THEN 1 ELSE 0)
        most == Max({IF starts THEN 0 ELSE scan.most, up})
        down == IF {"close", "leads"} \subseteq line /\ up > 0 THEN up - 1 ELSE up
    IN  IF ~inside THEN scan
        ELSE [inside |-> depth # 0, depth |-> depth, branch |-> down, most |-> most,
              flagged |-> scan.flagged \/ (depth = 0 /\ most > limit)]

NoScan == [inside |-> FALSE, depth |-> 0, branch |-> 0, most |-> 0, flagged |-> FALSE]

TooComplex(lines, limit) ==
    FoldLeft(LAMBDA scan, line : ScanLine(scan, line, limit), NoScan, lines).flagged

ComplexityLimit(ctx, limit) ==
    {Finding("complexity-limit", "warning", About(f)) :
        f \in {g \in DOMAIN ctx.lines : TooComplex(ctx.lines[g], limit)}}

\* Callees of a node, in the order of the calls.
Adjacent(calls, node) ==
    LET own == SelectSeq(calls, LAMBDA e : e[1] = node)
    IN  [i \in DOMAIN own |-> own[i][2]]

Start == [visited |-> {}, onStack |-> {}, path |-> <<>>, cycles |-> {}]

\* Faulty: a node that is finished stays on the stack.
Leave_onStack(search, node) == [search EXCEPT !.path = Front(@)]

Leave(search, node) ==
    [search EXCEPT !.path = Front(@), !.onStack = @ \ {node}]

\* dfs_detect_cycle.
RECURSIVE Detect(_, _, _)
Detect(node, calls, search) ==
    LET entered == [search EXCEPT !.visited = @ \cup {node}, !.onStack = @ \cup {node},
                                  !.path = Append(@, node)]
        Follow(s, next) ==
            IF next \notin s.visited THEN Detect(next, calls, s)
            ELSE IF next \in s.onStack
            THEN [s EXCEPT !.cycles = @ \cup {SelectSeq(s.path,
                     LAMBDA n : \E i, j \in DOMAIN s.path :
                                   i <= j /\ s.path[i] = next /\ s.path[j] = n)}]
            ELSE s
    IN  Leave(FoldLeft(Follow, entered, Adjacent(calls, node)), node)

NoDependencyCycles(ctx) ==
    LET From(s, node) == IF node \in s.visited THEN s ELSE Detect(node, ctx.calls, s)
        callers == SetToSeq({e[1] : e \in ToSet(ctx.calls)})
    IN  {Finding("no-dependency-cycles", "error", c) :
            c \in FoldLeft(From, Start, callers).cycles}

DeadCodeDetection(ctx) ==
    LET called == {e[2] : e \in ToSet(ctx.calls)}
    IN  {Finding("dead-code-detection", "info", About(s.name)) :
            s \in {t \in Callables(ctx.after) :
                      ~t.public /\ t.name # "main" /\ t.id \notin called}}

(***************************************************************************)
(* The step.                                                               *)
(***************************************************************************)
AllFindings(ctx, tests, limit) ==
    NoUnsafeAdded(ctx) \cup NoUnwrapAdded(ctx, tests) \cup ErrorHandlingPreserved(ctx)
    \cup NoPublicRemoval(ctx) \cup SignatureStable(ctx) \cup TraitImplComplete(ctx)
    \cup ComplexityLimit(ctx, limit) \cup NoDependencyCycles(ctx) \cup DeadCodeDetection(ctx)

Suggested(finding) == finding.check \in
    {"no-unsafe-added", "no-unwrap-added", "error-handling-preserved",
     "no-public-removal", "signature-stable", "trait-impl-complete",
     "complexity-limit", "no-dependency-cycles", "dead-code-detection"}

\* run_semantic_step with an optional list of checks: only an error fails it.
SemanticStep(repo, files, tests, limit, filter) ==
    LET all == AllFindings(BuildContext(repo, files), tests, limit)
        found == IF filter = {} THEN all ELSE {f \in all : f.check \in filter}
    IN  [status |-> IF \E f \in found : f.severity = "error" THEN "fail" ELSE "pass",
         findings |-> found,
         suggestions |-> {f \in found : Suggested(f)}]

\* run_semantic_step_simple: without an engine every known check passes.
SemanticStepSimple(filter, known) ==
    IF filter \subseteq known THEN "pass" ELSE "skip"

=============================================================================
