------------------------------ MODULE Workflow ------------------------------
(***************************************************************************)
(* Which steps a verification runs: the pure part of dk-runner.  A         *)
(* workflow comes from .dkod/pipeline.yaml, from the database or from the  *)
(* project files found in the repository; it is validated; and a command   *)
(* is narrowed to the packages a changeset touches before it runs.         *)
(*                                                                         *)
(* Commands and paths are not strings here.  A command is the words the    *)
(* allowlists know it by, its arguments, and the set of reasons the        *)
(* validator may have to refuse it; a path is the sequence of its          *)
(* components, Odd marking a component that is no safe package name.       *)
(***************************************************************************)
EXTENDS Integers, Sequences, SequencesExt, FiniteSetsExt

Odd == "a b;c"

\* is_safe_name.
IsSafeName(name) == name # Odd

\* A command: `why` holds what FORBIDDEN_SHELL_CHARS, ALWAYS_DENIED_PREFIXES
\* and DENIED_FLAG_SUBSTRINGS find in it.
Command(word, args, why) == [word |-> word, args |-> args, why |-> why]
Plain(word) == Command(word, <<>>, {})

AllowedPrefixes ==
    {"cargo check", "cargo test", "cargo clippy", "cargo fmt", "cargo build",
     "npm ci", "npm test", "bun install --frozen-lockfile", "bun test",
     "npx tsc", "bunx tsc", "pip install -e .",
     "pip install -r requirements.txt", "pytest", "python -m pytest",
     "go build", "go test", "go vet", "echo "}

AllowedExact == {"npm run lint", "npm run check", "bun run lint", "bun run check"}

\* validate_command_with_allowlist: a repository's own list replaces the
\* default one, but not the refusals.
ValidCommand(cmd, allowed) ==
    /\ cmd.word # ""
    /\ cmd.why = {}
    /\ \A i \in DOMAIN cmd.args : IsSafeName(cmd.args[i])
    /\ cmd.word \in AllowedExact => cmd.args = <<>>
    /\ IF allowed = {} THEN cmd.word \in AllowedPrefixes \cup AllowedExact
                       ELSE cmd.word \in allowed

\* validate_workflow.  A work_dir is a sequence of components below the root.
ValidWorkflow(w) ==
    /\ w.stages # <<>>
    /\ \A stage \in ToSet(w.stages) :
         /\ stage.steps # <<>>
         /\ \A step \in ToSet(stage.steps) :
              /\ step.kind = "command" => ValidCommand(step.run, w.allowed)
              /\ ".." \notin ToSet(step.dir) /\ "/" \notin ToSet(step.dir)

Step(kind, run, limit, required, aware, dir) ==
    [kind |-> kind, run |-> run, limit |-> limit, required |-> required,
     aware |-> aware, dir |-> dir]

(***************************************************************************)
(* Auto-detection.  A directory is [name, has]: has is the set of marker   *)
(* files in it.  The root comes first, its name is <<>>; the others follow *)
(* in alphabetical order, hidden ones, node_modules and target left out.   *)
(***************************************************************************)
Languages(has) ==
    {l \in {"rust"} : "Cargo.toml" \in has}
    \cup {l \in {"bun"} : "package.json" \in has /\ "bun.lock" \in has}
    \cup {l \in {"node"} : "package.json" \in has /\ "bun.lock" \notin has}
    \cup {l \in {"python"} : {"pyproject.toml", "requirements.txt"} \cap has # {}}
    \cup {l \in {"go"} : "go.mod" \in has}

LanguageSteps(language, has, dir) ==
    LET Of(word, limit, aware) ==
            Step("command", Plain(word), limit, TRUE, aware, dir)
        Install(file, word) ==
            IF file \in has THEN <<Of(word, 120, FALSE)>> ELSE <<>>
    IN  CASE language = "rust" ->
               <<Of("cargo check", 60, TRUE), Of("cargo test", 60, TRUE)>>
          [] language = "bun" ->
               <<Of("bun install --frozen-lockfile", 120, FALSE), Of("bun test", 60, TRUE)>>
          [] language = "node" ->
               <<Of("npm ci", 120, FALSE), Of("npm test", 60, TRUE)>>
          [] language = "python" ->
               Install("pyproject.toml", "pip install -e .")
               \o Install("requirements.txt", "pip install -r requirements.txt")
               \o <<Of("pytest", 60, TRUE)>>
          [] language = "go" ->
               <<Of("go build", 60, TRUE), Of("go vet", 60, TRUE), Of("go test", 60, TRUE)>>

\* The languages of a directory that get steps: what the root has is not
\* checked again below it.
DetectedIn(d, root) ==
    IF d.name = <<>> THEN Languages(d.has) ELSE Languages(d.has) \ Languages(root.has)

DirectorySteps(d, root) ==
    LET steps == [l \in DetectedIn(d, root) |-> LanguageSteps(l, d.has, d.name)]
        In(l) == IF l \in DOMAIN steps THEN steps[l] ELSE <<>>
    IN  In("rust") \o In("bun") \o In("node") \o In("python") \o In("go")

AtLeast(x, y) == IF x < y THEN y ELSE x

NoStages == [stages |-> <<>>, timeout |-> 30, allowed |-> {}]

DetectWorkflow(dirs) ==
    LET steps == FlattenSeq([i \in DOMAIN dirs |-> DirectorySteps(dirs[i], dirs[1])])
        total == FoldLeft(LAMBDA sum, s : sum + s.limit, 0, steps)
    IN  IF steps = <<>>
        THEN NoStages
        ELSE [stages |-> <<[parallel |-> FALSE, steps |-> steps]>>,
              timeout |-> AtLeast(total, 60), allowed |-> {}]

(***************************************************************************)
(* Where a workflow comes from.  A repository is [file, yaml, db, dirs]:   *)
(* file tells whether .dkod/pipeline.yaml is "absent", "broken" or         *)
(* "parsed", yaml is the workflow it holds, db the rows stored for the     *)
(* repository (none as well when the query fails), dirs its directories.   *)
(***************************************************************************)
DbStep(row) ==
    LET kind == IF row.kind \in {"agent-review", "human-approve"}
                THEN row.kind ELSE "command"
    IN  Step(kind, row.command, 120, row.required, FALSE, <<>>)

DbWorkflow(rows) ==
    [stages |-> <<[parallel |-> FALSE,
                   steps |-> [i \in DOMAIN rows |-> DbStep(rows[i])]]>>,
     timeout |-> 600, allowed |-> {}]

\* Runner::load_workflow fails on a file that does not parse or holds no stage.
LoadFails(repo) ==
    \/ repo.file = "broken"
    \/ repo.file = "parsed" /\ repo.yaml.stages = <<>>

LoadWorkflow(repo) ==
    CASE repo.file = "parsed" -> repo.yaml
      [] repo.file = "absent" /\ repo.db # <<>> -> DbWorkflow(repo.db)
      [] OTHER -> DetectWorkflow(repo.dirs)

(***************************************************************************)
(* Scoping a command to the changed files.                                 *)
(***************************************************************************)

RustCrates(files) ==
    {f[2] : f \in {g \in files : Len(g) >= 2 /\ g[1] = "crates" /\ IsSafeName(g[2])}}

TsDirs(files) ==
    {f[2] : f \in {g \in files : Len(g) >= 2 /\ g[1] = "src" /\ IsSafeName(g[2])}}

PythonPackages(files) ==
    {f[1] : f \in {g \in files : g # <<>> /\ g[1] # "tests" /\ IsSafeName(g[1])}}

\* scope_command_to_changeset; the command itself where there is nothing to
\* narrow it to.
ScopeCommand(cmd, files) ==
    LET packages ==
          CASE cmd.word \in {"cargo test", "cargo check", "cargo clippy"} -> RustCrates(files)
            [] cmd.word = "bun test" -> TsDirs(files)
            [] cmd.word \in {"pytest", "python -m pytest"} -> PythonPackages(files)
            [] OTHER -> {}
        kept == IF cmd.word \in {"cargo test", "cargo check", "cargo clippy"}
                THEN cmd.args ELSE <<>>
    IN  IF packages = {} THEN cmd
        ELSE Command(cmd.word, SetToSeq(packages) \o kept, cmd.why)

\* The files below a step's directory, relative to it.
LocalFiles(files, dir) ==
    {SubSeq(f, Len(dir) + 1, Len(f)) :
        f \in {g \in files : IsStrictPrefix(dir, g)}}

\* run_single_step_inner (StepType::Command): the command that is run.
StepCommand(step, files) ==
    IF step.aware THEN ScopeCommand(step.run, LocalFiles(files, step.dir))
    ELSE step.run

(***************************************************************************)
(* The judge asks its model up to max times, see run_judge_loop: answers   *)
(* is what the model would say to each question, "error" when it fails.    *)
(***************************************************************************)

\* The first decision counts; a model that fails or cannot decide rejects.
JudgeVerdict(answers, max) ==
    LET asked == SubSeq(answers, 1, Min({max, Len(answers)}))
        last == FoldLeft(LAMBDA said, answer :
                             IF said = "needs_iteration" THEN answer ELSE said,
                         "needs_iteration", asked)
    IN  IF last = "approve" THEN "approve" ELSE "reject"

=============================================================================
