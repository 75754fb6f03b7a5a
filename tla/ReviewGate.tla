----------------------------- MODULE ReviewGate -----------------------------
(***************************************************************************)
(* The deep review before dk_approve.  Every accepted dk_submit starts a   *)
(* background task that asks a provider for a review and records it with   *)
(* the server; dk_approve fetches the recorded reviews and lets the        *)
(* changeset through, or not.  One changeset, one session, one MCP process *)
(* that may exit and be started again.                                     *)
(*                                                                         *)
(* An option is a sequence of at most one element: a review without a      *)
(* score has the score <<>>.                                               *)
(***************************************************************************)
EXTENDS Integers, SequencesExt

CONSTANTS
    Envs,        \* the environments of the process, see GateConfig
    MaxSubmits,  \* how many submissions are accepted
    MaxLocal,    \* how many reviews the harness records itself
    RpcFails     \* whether a call to the server may fail for no reason of ours

ASSUME BoundsAssumption == MaxSubmits \in Nat /\ MaxLocal \in Nat
ASSUME RpcAssumption == RpcFails \in BOOLEAN

VARIABLES
    env,       \* the environment variables, they do not change
    alive,     \* whether the MCP process runs
    session,   \* whether the server still knows the session
    cs,        \* the state of the changeset
    content,   \* the number of the last accepted submission
    reviews,   \* the recorded reviews, oldest first
    tasks,     \* per submission, the task that reviews it
    handles,   \* the submissions whose task is in review_tasks
    call,      \* the dk_approve call under way, or the answer to the last one
    approval   \* how the changeset came to be approved

server == <<session, cs, content, reviews, approval>>
process == <<alive, tasks, handles, call>>
vars == <<env, server, process>>

Submission == 1..MaxSubmits
Score == 1..5
Option(S) == {<<>>} \cup {<<x>> : x \in S}

(***************************************************************************)
(* Scores and settings.                                                    *)
(***************************************************************************)
Verdict == {"Approve", "Comment", "RequestChanges"}
Severity == {"Info", "Warning", "Error"}

ScoreFromVerdict(verdict, findings) ==
    CASE verdict = "Approve" -> IF findings \subseteq {"Info"} THEN 5 ELSE 4
      [] verdict = "Comment" -> 3
      [] verdict = "RequestChanges" -> IF "Error" \in findings THEN 1 ELSE 2

\* An empty key counts as none.
ProviderName(e) ==
    CASE e.openrouter = "set" -> <<"openrouter">>
      [] e.openrouter # "set" /\ e.anthropic = "set" -> <<"anthropic">>
      [] OTHER -> <<>>

GateConfig(e) ==
    [enabled |-> e.flag = "1",
     provider |-> ProviderName(e),
     min |-> IF e.minScore \in Score THEN e.minScore ELSE 4,
     strict |-> e.policy # "degraded",
     model |-> e.model]

cfg == GateConfig(env)
Misconfigured(c) == c.enabled /\ c.provider = <<>>

\* The key of the provider the task really asks: here an empty one counts.
SelectProvider(e) ==
    CASE e.openrouter # "unset" -> <<e.openrouter>>
      [] e.openrouter = "unset" /\ e.anthropic # "unset" -> <<e.anthropic>>
      [] OTHER -> <<>>

\* Trimmed, and counted in characters.
ValidateOverrideReason(reason) ==
    CASE reason = "none" -> "Empty" [] reason = "short" -> "TooShort" [] OTHER -> "Ok"

(***************************************************************************)
(* The gate.                                                               *)
(***************************************************************************)
\* Faulty: the first review of any tier.
DeepReview_anyTier == IF reviews = <<>> THEN <<>> ELSE <<Head(reviews)>>

\* dk_approve takes the first deep review of the answer, which is the oldest.
\* It does not ask where the gate is misconfigured.
DeepAt == {i \in DOMAIN reviews : reviews[i].tier = "deep"}
Oldest == CHOOSE i \in DeepAt : \A j \in DeepAt : i <= j
DeepReview ==
    IF Misconfigured(cfg) \/ DeepAt = {} THEN <<>> ELSE <<reviews[Oldest]>>

EvaluateGate(c, deep) ==
    CASE Misconfigured(c) -> "gate_misconfigured"
      [] ~Misconfigured(c) /\ deep = <<>> -> "deep_review_pending"
      [] OTHER ->
           CASE Head(deep).score = <<>> -> "review_provider_error"
             [] Head(deep).score # <<>> ->
                  IF Head(Head(deep).score) < c.min
                  THEN "review_score_below_threshold" ELSE "pass"

\* None, the provider's failure and a score are three different things to
\* those who audit an override.
Snapshot(deep) ==
    IF deep = <<>> THEN <<>>
    ELSE IF Head(deep).score = <<>> THEN <<0>> ELSE Head(deep).score

(***************************************************************************)
(* dk_submit and the background review.                                    *)
(***************************************************************************)
NoTask == [at |-> "none", score |-> <<>>]
Running(v) == tasks[v].at \in {"asking", "recording"}
Idle == [at |-> "idle", answer |-> "none", reason |-> "none", snapshot |-> <<>>]
NoApproval == [how |-> "none", reason |-> "none", of |-> 0]

Init ==
    /\ env \in Envs
    /\ alive = TRUE /\ session = TRUE
    /\ cs = "draft" /\ content = 0
    /\ reviews = <<>>
    /\ tasks = [v \in Submission |-> NoTask]
    /\ handles = {}
    /\ call = Idle
    /\ approval = NoApproval

StartsReview == cfg.enabled /\ ~Misconfigured(cfg) /\ env.token

\* Faulty: the tasks that have ended are kept, the others are forgotten.
Prune_inverted(v) == {w \in handles : ~Running(w)} \cup {v}

Prune(v) == {w \in handles : Running(w)} \cup {v}

\* A submission that is refused changes nothing here.
Submit ==
    /\ alive /\ session /\ content < MaxSubmits
    /\ content' = content + 1
    /\ cs' = "submitted"
    /\ IF StartsReview
       THEN /\ tasks' = [tasks EXCEPT ![content'] = [NoTask EXCEPT !.at = "asking"]]
            /\ handles' = Prune(content')
       ELSE UNCHANGED <<tasks, handles>>
    /\ UNCHANGED <<env, alive, session, reviews, call, approval>>

\* What is left to do once the provider has answered, or has not: a failure is
\* recorded without a score, or under the degraded policy not at all.
Recorded(score) == [at |-> "recording", score |-> score]
ProviderFailed == IF cfg.strict THEN Recorded(<<>>) ELSE [NoTask EXCEPT !.at = "over"]

Answer(v) ==
    /\ tasks[v].at = "asking"
    /\ \/ \* only a provider with a key answers
          /\ SelectProvider(env) = <<"set">>
          /\ \E verdict \in Verdict, findings \in SUBSET Severity :
               tasks' = [tasks EXCEPT ![v] = Recorded(<<ScoreFromVerdict(verdict, findings)>>)]
       \/ /\ SelectProvider(env) # <<>>
          /\ tasks' = [tasks EXCEPT ![v] = ProviderFailed]
    /\ UNCHANGED <<env, server, alive, handles, call>>

\* Faulty: nobody watches the clock.
ReviewTimeout_never(v) == FALSE /\ UNCHANGED vars

ReviewTimeout(v) ==
    /\ tasks[v].at = "asking"
    /\ tasks' = [tasks EXCEPT ![v] = ProviderFailed]
    /\ UNCHANGED <<env, server, alive, handles, call>>

\* handle_record_review: the session must be known and the model be named.
Accepts == session /\ cfg.model = "set"

RecordReview(v) ==
    /\ tasks[v].at = "recording"
    /\ tasks' = [tasks EXCEPT ![v].at = "over"]
    /\ \/ /\ Accepts
          /\ reviews' = Append(reviews, [tier |-> "deep", score |-> tasks[v].score, of |-> v])
       \/ (~Accepts \/ RpcFails) /\ UNCHANGED reviews
    /\ UNCHANGED <<env, alive, session, cs, content, handles, call, approval>>

\* A harness records its own review of what was submitted.
RecordLocal ==
    /\ session /\ content > 0
    /\ Len(SelectSeq(reviews, LAMBDA r : r.tier = "local")) < MaxLocal
    /\ reviews' = Append(reviews, [tier |-> "local", score |-> <<5>>, of |-> content])
    /\ UNCHANGED <<env, session, cs, content, approval, process>>

\* Drop for DkodMcp: the tasks in review_tasks are aborted.
McpExit ==
    /\ alive
    /\ alive' = FALSE
    /\ tasks' = [v \in Submission |->
                   IF v \in handles /\ Running(v) THEN [NoTask EXCEPT !.at = "aborted"] ELSE tasks[v]]
    /\ handles' = {}
    /\ call' = Idle
    /\ UNCHANGED <<env, server>>

McpStart ==
    /\ ~alive
    /\ alive' = TRUE
    /\ UNCHANGED <<env, server, tasks, handles, call>>

\* Thirty minutes without a call that touches the session.
Expire ==
    /\ session
    /\ session' = FALSE
    /\ UNCHANGED <<env, cs, content, reviews, approval, process>>

(***************************************************************************)
(* dk_approve.                                                             *)
(***************************************************************************)
Forward(reason, snapshot) ==
    call' = [at |-> "rpc", answer |-> "none", reason |-> reason, snapshot |-> snapshot]
Refuse(why) == call' = [Idle EXCEPT !.answer = why]

\* The reviews are fetched only where the gate needs them.
Fetches == cfg.enabled /\ ~Misconfigured(cfg)

\* force with the gate enabled.
BeginForced(reason) ==
    /\ alive /\ call.at = "idle" /\ cfg.enabled
    /\ IF ValidateOverrideReason(reason) = "Ok"
       THEN /\ Fetches => session
            /\ Forward("override", Snapshot(DeepReview))
       ELSE Refuse("override_reason")
    /\ UNCHANGED <<env, server, alive, tasks, handles>>

BeginApprove ==
    /\ alive /\ call.at = "idle"
    /\ Fetches => session
    /\ LET outcome == IF cfg.enabled THEN EvaluateGate(cfg, DeepReview) ELSE "pass"
       IN  IF outcome = "pass" THEN Forward("default", <<>>) ELSE Refuse(outcome)
    /\ UNCHANGED <<env, server, alive, tasks, handles>>

Approvable == {"submitted", "verifying", "rejected"}

\* handle_approve.  The reason goes into the row, the snapshot does not.
ApproveRpc ==
    /\ call.at = "rpc"
    /\ \/ /\ session /\ cs \in Approvable
          /\ cs' = "approved"
          /\ approval' = [how |-> "dk_approve", reason |-> call.reason, of |-> content]
          /\ Refuse("approved")
       \/ /\ (~session \/ cs \notin Approvable \/ RpcFails)
          /\ Refuse("rpc_failed")
          /\ UNCHANGED <<cs, approval>>
    /\ UNCHANGED <<env, session, content, reviews, alive, tasks, handles>>

\* VERIFY and its verdict, which does not ask the gate.
Verify ==
    /\ session /\ cs # "draft"
    /\ \E s \in {"verifying", "approved", "rejected"} :
         /\ cs' = s
         /\ approval' = IF s = "approved" THEN [NoApproval EXCEPT !.how = "verify", !.of = content]
                        ELSE approval
    /\ UNCHANGED <<env, session, content, reviews, process>>

Next ==
    \/ Submit \/ RecordLocal \/ Expire \/ McpExit \/ McpStart
    \/ \E v \in Submission : Answer(v) \/ ReviewTimeout(v) \/ RecordReview(v)
    \/ BeginApprove \/ ApproveRpc \/ Verify
    \/ \E reason \in {"none", "short", "long"} : BeginForced(reason)

\* The runtime polls the tasks and their timers; the provider may keep silent.
Fairness == \A v \in Submission : WF_vars(ReviewTimeout(v)) /\ WF_vars(RecordReview(v))

Spec == Init /\ [][Next]_vars /\ Fairness

(***************************************************************************)
(* Properties.                                                             *)
(***************************************************************************)
GoodEnough(r) == r.tier = "deep" /\ r.score # <<>> /\ Head(r.score) >= cfg.min

\* With the gate on, dk_approve has approved a changeset without an override on
\* record only if a deep review of that changeset with a sufficient score is
\* recorded, whatever was submitted, reviewed or restarted between the fetching
\* of the reviews and the approval (review_gate.rs evaluate_gate, approve.rs).
ApprovalIsEarned ==
    cfg.enabled /\ approval.how = "dk_approve" =>
        approval.reason = "override" \/ \E r \in ToSet(reviews) : GoodEnough(r)

\* No review runs on when the process that started it is gone: nobody could
\* stop it then (server.rs, Drop, and the pruning in dk_submit).
NoOrphanReview == ~alive => \A v \in Submission : ~Running(v)

RecordedFor(v) == \E r \in ToSet(reviews) : r.tier = "deep" /\ r.of = v

\* A review that dk_submit has started ends up on record, though the provider
\* may never answer, unless the process or the session ends first, the policy
\* says that a failed review is not recorded, or the model has no name
\* (run_background_review, build_record_review_request, record_review.rs).
StartedIsRecorded ==
    \A v \in Submission :
        tasks[v].at = "asking" ~>
            \/ RecordedFor(v) \/ tasks[v].at = "aborted"
            \/ tasks[v].at = "over" /\ (~session \/ ~cfg.strict \/ cfg.model # "set")

=============================================================================
