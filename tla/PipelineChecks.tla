--------------------------- MODULE PipelineChecks ---------------------------
(***************************************************************************)
(* The pure algorithms of the verification pipeline on bounded inputs: one *)
(* behaviour asks one question, and the answer is compared with a          *)
(* definition of what it should be.                                        *)
(***************************************************************************)
EXTENDS SemanticChecks, Workflow

CONSTANTS
    Contexts,    \* questions [repo, files] to the semantic step
    Sources,     \* questions [lines] to the complexity check
    Trees,       \* questions [dirs] to auto-detection
    Flows,       \* questions [flow, files] to the validator
    Judgements,  \* questions [answers, max] to the judge's loop
    Limit        \* the threshold of the complexity check

ASSUME LimitAssumption == Limit \in Nat

VARIABLES
    asked,     \* which of the algorithms is asked
    question,  \* its input
    answer     \* <<>>, then <<its result>>

vars == <<asked, question, answer>>

Init ==
    /\ answer = <<>>
    /\ \/ asked = "semantic" /\ question \in Contexts
       \/ asked = "complexity" /\ question \in Sources
       \/ asked = "detect" /\ question \in Trees
       \/ asked = "validate" /\ question \in Flows
       \/ asked = "judge" /\ question \in Judgements

Answer(algorithm, reply) ==
    /\ answer = <<>> /\ asked = algorithm
    /\ answer' = <<reply>>
    /\ UNCHANGED <<asked, question>>

Next ==
    \/ Answer("semantic", SemanticStep(question.repo, question.files, {}, Limit, {}))
    \/ Answer("complexity", TooComplex(question.lines, Limit))
    \/ Answer("detect", DetectWorkflow(question.dirs))
    \/ Answer("validate", ValidWorkflow(question.flow))
    \/ Answer("judge", JudgeVerdict(question.answers, question.max))

Spec == Init /\ [][Next]_vars

Answered(algorithm) == asked = algorithm /\ answer # <<>>
Result == answer[1]

(***************************************************************************)
(* Properties.                                                             *)
(***************************************************************************)
\* A symbol reaches itself by calls that each have an end in a changed file.
CallsInView ==
    LET changed == {s.id : s \in {t \in question.repo.db : t.file \in question.files}}
    IN  {e \in ToSet(question.repo.calls) : {e[1], e[2]} \cap changed # {}}

\* What can be reached from a set of symbols.
ReachableFrom(start, calls) ==
    LET Grow(set, i) == set \cup {e[2] : e \in {d \in calls : d[1] \in set}}
    IN  FoldLeft(Grow, start, [i \in 1..Cardinality(calls) |-> i])

Cyclic(calls) == \E e \in calls : e[1] \in ReachableFrom({e[2]}, calls)

CyclesFound == {f.about : f \in {g \in Result.findings : g.check = "no-dependency-cycles"}}

\* The depth-first search reports a cycle exactly when the calls around the
\* changed symbols have one, whatever their order and however often a call is
\* recorded, and what it reports is a cycle (quality.rs, dfs_detect_cycle).
CyclesAreExact ==
    Answered("semantic") =>
        /\ CyclesFound # {} <=> Cyclic(CallsInView)
        /\ \A c \in CyclesFound :
             \A i \in DOMAIN c : <<c[i], c[IF i = Len(c) THEN 1 ELSE i + 1]>> \in CallsInView

\* When the semantic step passes, a caller outside the changed files still
\* finds every public function it calls under its name, and one that could
\* fail before still can, unless it is private now or its file was not parsed
\* (compat.rs, safety.rs).
PassKeepsApi ==
    Answered("semantic") /\ Result.status = "pass" =>
        \A b \in {s \in question.repo.db : s.public /\ s.file \in question.files} :
            \E a \in UNION {question.repo.tree[f] : f \in question.files} :
                /\ a.name = b.name
                /\ a.result = b.result \/ (~a.public /\ ~b.result)

\* A file is called too complex only if one of its functions has more
\* branching lines than the limit before it ends: branches of several
\* functions do not add up (quality.rs, ComplexityLimit).
ComplexIsFounded ==
    Answered("complexity") /\ Result =>
        \E i, j \in DOMAIN question.lines :
            /\ i <= j /\ "fn" \in question.lines[i]
            /\ \A k \in i..(j - 1) :
                 Cardinality({n \in i..k : "open" \in question.lines[n]})
                   > Cardinality({n \in i..k : "close" \in question.lines[n]})
            /\ Cardinality({n \in i..j : "branch" \in question.lines[n]}) > Limit

TestOf == [rust |-> "cargo test", bun |-> "bun test", node |-> "npm test",
           python |-> "pytest", go |-> "go test"]

\* Every language with a marker file in the root or one level below is tested
\* by a required step, in its own directory or in the root; the workflow is
\* valid, and its time limit leaves every step its own (runner.rs,
\* detect_workflow).
DetectedIsTested ==
    Answered("detect") =>
        LET steps == IF Result.stages = <<>> THEN {} ELSE ToSet(Result.stages[1].steps)
        IN  /\ \A i \in DOMAIN question.dirs : \A l \in Languages(question.dirs[i].has) :
                 \E s \in steps :
                    /\ s.required /\ s.run.word = TestOf[l]
                    /\ s.dir \in {question.dirs[i].name, <<>>}
            /\ steps # {} => ValidWorkflow(Result)
            /\ \A s \in steps : s.limit <= Result.timeout

\* A workflow without commands of its own that is valid has no command that
\* the runner refuses when it runs it, however the changed files are named:
\* narrowing a command to them keeps it valid (changeset.rs, validator.rs).
ValidStaysValid ==
    Answered("validate") /\ Result /\ question.flow.allowed = {} =>
        \A stage \in ToSet(question.flow.stages) : \A s \in ToSet(stage.steps) :
            s.kind = "command" => ValidCommand(StepCommand(s, question.files), {})

\* The judge approves exactly when its first decision within the allowed
\* questions is to approve (llm_judge/mod.rs, run_judge_loop).
JudgeApprovesOnce ==
    Answered("judge") =>
        (Result = "approve" <=>
            \E i \in DOMAIN question.answers :
                /\ i <= question.max /\ question.answers[i] = "approve"
                /\ \A j \in 1..(i - 1) : question.answers[j] = "needs_iteration")

\* Each algorithm of the pipeline answers as it should: the checks on symbols
\* and calls, the detected workflow, the narrowed commands, the judge's loop.
PipelineIsSound ==
    /\ CyclesAreExact /\ PassKeepsApi /\ ComplexIsFounded
    /\ DetectedIsTested /\ ValidStaysValid
    /\ JudgeApprovesOnce

=============================================================================
