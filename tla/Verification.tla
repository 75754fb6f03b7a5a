---------------------------- MODULE Verification ----------------------------
(***************************************************************************)
(* VERIFY: the runner executes the repository's workflow for a changeset,  *)
(* sends every result through a bounded channel to the handler, which      *)
(* forwards it to the client's stream and, when the runner has ended,      *)
(* writes the verdict into the changeset.  Several VERIFY calls for one    *)
(* changeset may run at once, next to SUBMIT, APPROVE and MERGE.           *)
(*                                                                         *)
(* A step is not split into start and finish: it may finish from the       *)
(* moment it may start.  A command may also hang, then only the timeouts   *)
(* end it.                                                                 *)
(***************************************************************************)
EXTENDS Workflow

CONSTANTS
    Call,        \* slots for VERIFY calls
    Reader,      \* the calls whose client reads the stream, for a while at least
    Operator,    \* who sets a state that is no verdict
    Repos,       \* repositories, see Workflow!LoadWorkflow
    FileSets,    \* sets of changed paths
    RunnerCap,   \* the channel between runner and handler
    StreamCap,   \* the channel behind the client's stream
    MayFail      \* the status updates the database may refuse

ASSUME CallAssumption == Reader \subseteq Call /\ Operator \notin Call
ASSUME CapAssumption == RunnerCap \in Nat \ {0} /\ StreamCap \in Nat \ {0}
\* What the parser, the rows and the detection can produce: stages and steps
\* are lists, and a step is of one of the six kinds.
Kinds == {"command", "semantic", "agent-review", "human-approve", "llm-judge", "pytorch-ci"}

IsList(s) == Len(s) \in Nat /\ DOMAIN s = 1..Len(s)

IsStageList(stages) ==
    /\ IsList(stages)
    /\ \A i \in DOMAIN stages :
         /\ stages[i].parallel \in BOOLEAN /\ IsList(stages[i].steps)
         /\ \A k \in DOMAIN stages[i].steps :
              /\ stages[i].steps[k].kind \in Kinds
              /\ stages[i].steps[k].required \in BOOLEAN

ASSUME ReposAssumption == \A r \in Repos : IsStageList(LoadWorkflow(r).stages)
ASSUME MayFailAssumption == MayFail \subseteq {"begin", "verdict"}

VARIABLES
    repo,      \* the repository, it does not change
    flow,      \* the workflow the runner would load from it
    files,     \* the paths of the changeset, they do not change
    cs,        \* the state of the changeset
    by,        \* who set it: Operator or a call
    at,        \* per call, where the runner and the handler are
    stage,     \* per call, the stage the runner is at
    run,       \* per call, the status of the steps of that stage
    todo,      \* per call, the results of the stage not sent yet
    passed,    \* per call, all_passed, in the end what the runner returned
    queue,     \* per call, the channel between runner and handler
    stream,    \* per call, the client's stream
    client,    \* per call, whether the client still reads
    got,       \* per call, the results the client has seen
    log        \* per call, the results of all stages that have ended

changeset == <<cs, by>>
channels == <<queue, stream, client, got>>
runner == <<at, stage, run, todo, passed, log>>
given == <<repo, flow, files>>
vars == <<given, changeset, runner, channels>>

\* ChangesetState, which is also the constraint on the column: a step that
\* writes "awaiting_approval" is refused by the database.
CsState == {"draft", "submitted", "verifying", "approved", "rejected", "merged", "closed"}

Status == {"pass", "fail", "skip", "timeout"}

StepsOf(i) == flow.stages[i].steps
Current(c) == StepsOf(stage[c])
Required(r) == StepsOf(r.stage)[r.step].required

\* Faulty: only a failure counts, a skipped required step does not.
IsFailure_failOnly(r) == Required(r) /\ r.status = "fail"

IsFailure(r) == Required(r) /\ r.status # "pass"

\* What a step of each kind may return.  A command is validated again before
\* it runs, and against the default allowlist then.
CommandOutcomes(step) ==
    IF ValidCommand(StepCommand(step, files), {})
    THEN {"pass", "fail", "timeout"} ELSE {"fail"}

\* It passes unless a check reports an error.
SemanticOutcomes == {"pass", "fail"}

\* It passes without a provider, and when the provider fails.
AgentReviewOutcomes == {"pass", "fail"}

\* The step has to move the changeset to "awaiting_approval" before it waits
\* for a decision, and the database refuses that state.
HumanApproveOutcomes ==
    IF "awaiting_approval" \in CsState THEN {"pass", "fail", "timeout"} ELSE {"fail"}

\* Skipped where it is not configured, failed when the model cannot be asked.
LlmJudgeOutcomes == {"skip", "pass", "fail"}

\* It plans the shards and passes; it does not run them.
PytorchOutcomes == {"skip", "pass"}

Outcomes(step) ==
    CASE step.kind = "command" -> CommandOutcomes(step)
      [] step.kind = "semantic" -> SemanticOutcomes
      [] step.kind = "agent-review" -> AgentReviewOutcomes
      [] step.kind = "human-approve" -> HumanApproveOutcomes
      [] step.kind = "llm-judge" -> LlmJudgeOutcomes
      [] step.kind = "pytorch-ci" -> PytorchOutcomes

Fresh(i) == [k \in DOMAIN StepsOf(i) |-> "wait"]

Init ==
    /\ repo \in Repos
    /\ flow = LoadWorkflow(repo)
    /\ files \in FileSets
    /\ cs \in {"draft", "submitted"}
    /\ by = Operator
    /\ at = [c \in Call |-> "idle"]
    /\ stage = [c \in Call |-> 1]
    /\ run = [c \in Call |-> <<>>]
    /\ todo = [c \in Call |-> <<>>]
    /\ passed = [c \in Call |-> TRUE]
    /\ queue = [c \in Call |-> <<>>]
    /\ stream = [c \in Call |-> <<>>]
    /\ client = [c \in Call |-> IF c \in Reader THEN "reading" ELSE "gone"]
    /\ got = [c \in Call |-> <<>>]
    /\ log = [c \in Call |-> <<>>]

(***************************************************************************)
(* The handler and the runner.                                             *)
(***************************************************************************)
\* handle_verify: the changeset becomes "verifying" whatever its state was,
\* and it does not matter whether the update succeeds.
BeginVerify(c) ==
    /\ at[c] = "idle"
    /\ at' = [at EXCEPT ![c] = "load"]
    /\ \/ cs' = "verifying" /\ by' = Operator
       \/ "begin" \in MayFail /\ UNCHANGED <<cs, by>>
    /\ UNCHANGED <<given, stage, run, todo, passed, log, channels>>

\* Runner::verify ends before the first step, with result ok.
Return(c, ok) ==
    /\ at' = [at EXCEPT ![c] = "verdict"]
    /\ passed' = [passed EXCEPT ![c] = ok]
    /\ run' = [run EXCEPT ![c] = <<>>]
    /\ todo' = [todo EXCEPT ![c] = <<>>]
    /\ UNCHANGED <<given, changeset, stage, log, channels>>

\* The files cannot be read or copied, a path leaves the working copy, or
\* there is no valid workflow.
PrepareFails(c) == at[c] = "load" /\ Return(c, FALSE)

\* No pipeline and no known project type: nothing to check.
AutoApprove(c) ==
    /\ at[c] = "load"
    /\ ~LoadFails(repo) /\ flow.stages = <<>>
    /\ Return(c, TRUE)

StartWorkflow(c) ==
    /\ at[c] = "load"
    /\ ~LoadFails(repo) /\ ValidWorkflow(flow)
    /\ at' = [at EXCEPT ![c] = "stage"]
    /\ run' = [run EXCEPT ![c] = Fresh(1)]
    /\ UNCHANGED <<given, changeset, stage, todo, passed, log, channels>>

Finished(c, k) == run[c][k] # "wait"
FailedRequired(c, k) == Finished(c, k) /\ Current(c)[k].required /\ run[c][k] # "pass"

\* run_stage_parallel starts every step, run_stage_sequential the next one
\* as long as no required step has failed.
MayRun(c, k) ==
    \/ flow.stages[stage[c]].parallel
    \/ \A j \in 1..(k - 1) : Finished(c, j) /\ ~FailedRequired(c, j)

FinishStep(c, k) ==
    /\ at[c] = "stage"
    /\ k \in DOMAIN run[c] /\ ~Finished(c, k) /\ MayRun(c, k)
    /\ \E s \in Outcomes(Current(c)[k]) : run' = [run EXCEPT ![c][k] = s]
    /\ UNCHANGED <<given, changeset, at, stage, todo, passed, log, channels>>

StageOver(c) ==
    \/ \A k \in DOMAIN run[c] : Finished(c, k)
    \/ ~flow.stages[stage[c]].parallel /\ \E k \in DOMAIN run[c] : FailedRequired(c, k)

\* The results of a stage, in the order of its steps: when it is over, those
\* that have finished are the first ones, or all.
StageResults(c) ==
    [k \in {j \in DOMAIN run[c] : Finished(c, j)} |->
        [stage |-> stage[c], step |-> k, status |-> run[c][k]]]

EndStage(c) ==
    /\ at[c] = "stage" /\ StageOver(c)
    /\ at' = [at EXCEPT ![c] = "report"]
    /\ todo' = [todo EXCEPT ![c] = StageResults(c)]
    /\ log' = [log EXCEPT ![c] = @ \o StageResults(c)]
    /\ UNCHANGED <<given, changeset, stage, run, passed, channels>>

\* run_workflow: a result counts, and is sent, waiting for room.
Report(c) ==
    /\ at[c] = "report" /\ todo[c] # <<>> /\ Len(queue[c]) < RunnerCap
    /\ LET r == Head(todo[c]) IN
         /\ passed' = [passed EXCEPT ![c] = @ /\ ~IsFailure(r)]
         /\ queue' = [queue EXCEPT ![c] = Append(@, r)]
         /\ todo' = [todo EXCEPT ![c] = Tail(@)]
    /\ UNCHANGED <<given, changeset, at, stage, run, log, stream, client, got>>

\* The next stage runs even if this one has failed.
NextStage(c) ==
    /\ at[c] = "report" /\ todo[c] = <<>>
    /\ IF stage[c] < Len(flow.stages)
       THEN /\ at' = [at EXCEPT ![c] = "stage"]
            /\ stage' = [stage EXCEPT ![c] = @ + 1]
            /\ run' = [run EXCEPT ![c] = Fresh(stage[c] + 1)]
       ELSE /\ at' = [at EXCEPT ![c] = "verdict"]
            /\ run' = [run EXCEPT ![c] = <<>>]
            /\ UNCHANGED stage
    /\ UNCHANGED <<given, changeset, todo, passed, log, channels>>

\* The whole workflow is dropped, with the results not sent yet; it is waiting
\* for a step or for room in the channel then.
WorkflowTimeout(c) ==
    /\ \/ at[c] = "stage"
       \/ at[c] = "report" /\ todo[c] # <<>>
    /\ Return(c, FALSE)

\* Faulty: a full stream gives up its oldest result.
Forward_lossy(c) ==
    /\ queue[c] # <<>>
    /\ queue' = [queue EXCEPT ![c] = Tail(@)]
    /\ stream' = [stream EXCEPT ![c] =
                     IF client[c] = "gone" THEN @
                     ELSE Append(IF Len(@) < StreamCap THEN @ ELSE Tail(@), Head(queue[c]))]
    /\ UNCHANGED <<given, changeset, runner, client, got>>

\* Faulty: the loop stops when the client has left.
Forward_stopping(c) ==
    /\ queue[c] # <<>> /\ client[c] # "gone" /\ Len(stream[c]) < StreamCap
    /\ queue' = [queue EXCEPT ![c] = Tail(@)]
    /\ stream' = [stream EXCEPT ![c] = Append(@, Head(queue[c]))]
    /\ UNCHANGED <<given, changeset, runner, client, got>>

\* The handler's loop: a client that has left does not stop it.
Forward(c) ==
    /\ queue[c] # <<>>
    /\ queue' = [queue EXCEPT ![c] = Tail(@)]
    /\ \/ client[c] = "gone" /\ UNCHANGED stream
       \/ /\ client[c] # "gone" /\ Len(stream[c]) < StreamCap
          /\ stream' = [stream EXCEPT ![c] = Append(@, Head(queue[c]))]
    /\ UNCHANGED <<given, changeset, runner, client, got>>

\* The channel is closed and empty: the verdict replaces whatever state the
\* changeset is in.
Conclude(c) ==
    /\ at[c] = "verdict" /\ queue[c] = <<>>
    /\ at' = [at EXCEPT ![c] = "done"]
    /\ \/ cs' = (IF passed[c] THEN "approved" ELSE "rejected") /\ by' = c
       \/ "verdict" \in MayFail /\ UNCHANGED <<cs, by>>
    /\ UNCHANGED <<given, stage, run, todo, passed, log, channels>>

(***************************************************************************)
(* The client of the stream, dk_verify.                                    *)
(***************************************************************************)
Receive(c) ==
    /\ client[c] = "reading" /\ stream[c] # <<>>
    /\ got' = [got EXCEPT ![c] = Append(@, Head(stream[c]))]
    /\ stream' = [stream EXCEPT ![c] = Tail(@)]
    /\ UNCHANGED <<given, changeset, runner, queue, client>>

EndOfStream(c) ==
    /\ client[c] = "reading" /\ at[c] = "done" /\ stream[c] = <<>>
    /\ client' = [client EXCEPT ![c] = "ended"]
    /\ UNCHANGED <<given, changeset, runner, queue, stream, got>>

Leave(c) ==
    /\ client[c] = "reading" /\ at[c] # "idle"
    /\ client' = [client EXCEPT ![c] = "gone"]
    /\ stream' = [stream EXCEPT ![c] = <<>>]
    /\ UNCHANGED <<given, changeset, runner, queue, got>>

\* dk_verify says "ALL PASSED" when there are results and none has the status
\* "fail", whether it is required or not.
OverallPassed(c) ==
    got[c] # <<>> /\ \A r \in ToSet(got[c]) : r.status # "fail"

(***************************************************************************)
(* The other handlers that change the state.                               *)
(***************************************************************************)
SetState(s) == cs' = s /\ by' = Operator

Submit ==
    /\ SetState("submitted")
    /\ UNCHANGED <<given, runner, channels>>

\* The state is read, then changed if it is still the same.
Approve ==
    /\ cs \in {"submitted", "verifying", "rejected"}
    /\ SetState("approved")
    /\ UNCHANGED <<given, runner, channels>>

\* Its steps are told apart in WorkspaceMerge.
Merge ==
    /\ cs = "approved"
    /\ SetState("merged")
    /\ UNCHANGED <<given, runner, channels>>

(***************************************************************************)
(* The specification.                                                      *)
(***************************************************************************)
RunnerStep(c) ==
    \/ PrepareFails(c) \/ AutoApprove(c) \/ StartWorkflow(c)
    \/ EndStage(c) \/ Report(c) \/ NextStage(c)

Next ==
    \/ \E c \in Call :
         \/ BeginVerify(c) \/ RunnerStep(c) \/ WorkflowTimeout(c)
         \/ \E k \in DOMAIN run[c] : FinishStep(c, k)
         \/ Forward(c) \/ Conclude(c)
         \/ Receive(c) \/ EndOfStream(c) \/ Leave(c)
    \/ Submit \/ Approve \/ Merge

\* The runtime polls runner and handler, its timer fires, and a client that
\* stays reads what is there.  No step has to finish.
Fairness ==
    \A c \in Call :
      /\ WF_vars(RunnerStep(c)) /\ WF_vars(WorkflowTimeout(c))
      /\ WF_vars(Forward(c)) /\ WF_vars(Conclude(c))
      /\ WF_vars(Receive(c)) /\ WF_vars(EndOfStream(c))

Spec == Init /\ [][Next]_vars /\ Fairness

(***************************************************************************)
(* Properties.                                                             *)
(***************************************************************************)
Result == [stage : Nat, step : Nat, status : Status]

\* Every variable has its type; a result in flight is one of a step that
\* exists, and the channels keep their bounds.
TypeOK ==
    /\ cs \in CsState /\ by \in Call \cup {Operator}
    /\ at \in [Call -> {"idle", "load", "stage", "report", "verdict", "done"}]
    /\ client \in [Call -> {"reading", "gone", "ended"}]
    /\ passed \in [Call -> BOOLEAN]
    /\ \A c \in Call :
         /\ at[c] \in {"stage", "report"} => stage[c] \in DOMAIN flow.stages
         /\ \A r \in ToSet(queue[c] \o stream[c] \o got[c] \o todo[c] \o log[c]) : r \in Result
         /\ Len(queue[c]) <= RunnerCap /\ Len(stream[c]) <= StreamCap

EveryRequiredPassed(c) ==
    \A i \in DOMAIN flow.stages : \A k \in DOMAIN StepsOf(i) :
        StepsOf(i)[k].required =>
            [stage |-> i, step |-> k, status |-> "pass"] \in ToSet(log[c])

\* When a verification has left the changeset approved, every required step
\* of every stage of the workflow has run in it and has passed: no step was
\* dropped by a timeout, skipped, or cut off by an earlier failure
\* (scheduler.rs run_workflow, runner.rs verify, verify.rs).
ApprovedIsEarned ==
    cs = "approved" /\ by # Operator => EveryRequiredPassed(by)

\* The client sees the results of the run in the order of the stages and
\* steps, none twice and none missing in between, however the two channels
\* fill up (verify.rs, the forwarding loop).
ReportIsTheRun ==
    \A c \in Call :
        /\ IsPrefix(got[c] \o stream[c], log[c])
        /\ client[c] # "gone" => IsPrefix(got[c] \o stream[c] \o queue[c], log[c])

\* A client that stays to the end of a verification that passed has seen the
\* result of every step that ran: the stream does not close, and the verdict is
\* not written, with results on the way (verify.rs, the loop ends before the
\* final status).
ApprovalIsReported ==
    \A c \in Call : client[c] = "ended" /\ passed[c] => got[c] = log[c]

\* Every VERIFY that has begun comes to a verdict, though commands may hang
\* and clients may leave at any moment (runner.rs, the workflow timeout).
EveryVerifyEnds == \A c \in Call : at[c] = "load" ~> at[c] = "done"

\* What dk_verify tells its user differs from the verdict only in these cases:
\* a required step was skipped or ran out of time, or the workflow was cut off
\* before its end, and dk_verify says that all passed; or nothing had to run,
\* or an optional step failed, and it does not (server.rs, all_passed).
OverallIsExplained ==
    \A c \in Call :
        client[c] = "ended" /\ by = c =>
            /\ (OverallPassed(c) /\ cs = "rejected") =>
                 \/ \E r \in ToSet(got[c]) : Required(r) /\ r.status \in {"timeout", "skip"}
                 \/ \E i \in DOMAIN flow.stages : \E k \in DOMAIN StepsOf(i) :
                        \A r \in ToSet(got[c]) : <<r.stage, r.step>> # <<i, k>>
            /\ (~OverallPassed(c) /\ cs = "approved") =>
                 \/ flow.stages = <<>>
                 \/ \E r \in ToSet(got[c]) : ~Required(r) /\ r.status = "fail"

\* An approval by a verification is earned by its required steps, and its
\* client has seen their results (scheduler.rs, verify.rs).
ApprovalIsSound == ApprovedIsEarned /\ ApprovalIsReported

\* The variables keep their types; the client is told of the run that was, and
\* an overall verdict that differs from the server's has one of the known
\* reasons (verify.rs, dk_verify).
ReportIsSound == TypeOK /\ ReportIsTheRun /\ OverallIsExplained

=============================================================================
