-------------------------- MODULE ReviewGateProofs --------------------------
(***************************************************************************)
(* The gate's promise for any environments, and any number of submissions  *)
(* and reviews: what dk_approve approves without an override has a deep    *)
(* review with a sufficient score on record.                               *)
(***************************************************************************)
EXTENDS ReviewGate, SequenceTheorems, WellFoundedInduction, TLAPS

Record == [tier : {"deep", "local"}, score : Option(Score), of : Submission]
OnRecord == \E i \in DOMAIN reviews : GoodEnough(reviews[i])

\* The parts of the state the argument is about have their types.
ReviewTypes ==
    /\ content \in 0..MaxSubmits
    /\ reviews \in Seq(Record)
    /\ tasks \in [Submission -> [at : {"none", "asking", "recording", "over", "aborted"},
                                 score : Option(Score)]]

\* The call under way has been let through by a review on record, or carries an
\* override; and so has the approval.
LetThrough ==
    cfg.enabled /\ call.at = "rpc" => call.reason = "override" \/ OnRecord
Approved ==
    cfg.enabled /\ approval.how = "dk_approve" => approval.reason = "override" \/ OnRecord

GateInv == ReviewTypes /\ LetThrough /\ Approved

\* A set of natural numbers that is not empty has a least element.
LEMMA LeastElement ==
    ASSUME NEW D \in SUBSET Nat, D # {}
    PROVE  \E i \in D : \A j \in D : i <= j
<1> DEFINE R == {p \in Nat \X Nat : p[1] < p[2]}
<1>1. IsWellFoundedOn(R, Nat)
  BY NatLessThanWellFounded DEF OpToRel, IsWellFoundedOn
<1>2. PICK i \in D : \A j \in D : <<j, i>> \notin R
  BY <1>1, WFMin
<1>3. ASSUME NEW j \in D PROVE i <= j
  <2>1. j \in Nat /\ i \in Nat /\ <<j, i>> \in Nat \X Nat
    OBVIOUS
  <2>2. ~(j < i)
    BY <1>2, <2>1
  <2> QED BY <2>1, <2>2
<1> QED BY <1>3

\* dk_approve's choice from the answer of REVIEW is a deep review on record.
LEMMA OldestIsDeep ==
    ASSUME ReviewTypes, DeepAt # {}
    PROVE  Oldest \in DOMAIN reviews /\ reviews[Oldest].tier = "deep"
<1>1. DeepAt \in SUBSET Nat
  BY DEF DeepAt, ReviewTypes
<1>2. \E i \in DeepAt : \A j \in DeepAt : i <= j
  BY <1>1, LeastElement
<1>3. Oldest \in DeepAt
  BY <1>2 DEF Oldest
<1> QED BY <1>3 DEF DeepAt

\* The gate lets a changeset through only for a sufficient deep review.
LEMMA PassMeansGood ==
    ASSUME ReviewTypes, EvaluateGate(cfg, DeepReview) = "pass"
    PROVE  OnRecord
<1>1. DeepReview # <<>> /\ Head(DeepReview).score # <<>>
      /\ ~(Head(Head(DeepReview).score) < cfg.min)
  BY DEF EvaluateGate
<1>2. DeepAt # {} /\ DeepReview = <<reviews[Oldest]>>
  BY <1>1 DEF DeepReview
<1>3. Oldest \in DOMAIN reviews /\ reviews[Oldest].tier = "deep"
  BY <1>2, OldestIsDeep
<1>4. reviews[Oldest] \in Record /\ Head(DeepReview) = reviews[Oldest]
  BY <1>2, <1>3 DEF ReviewTypes
<1>5. Head(reviews[Oldest].score) \in Int /\ cfg.min \in Int
  <2>1. reviews[Oldest].score \in Option(Score) /\ reviews[Oldest].score # <<>>
    BY <1>1, <1>4 DEF Record
  <2>2. PICK n \in Score : reviews[Oldest].score = <<n>>
    BY <2>1 DEF Option
  <2>3. cfg.min \in Int
    BY DEF cfg, GateConfig, Score
  <2> QED BY <2>2, <2>3 DEF Score
<1>6. GoodEnough(reviews[Oldest])
  BY <1>1, <1>3, <1>4, <1>5 DEF GoodEnough
<1> QED BY <1>3, <1>6 DEF OnRecord

\* Recording a review takes none off the record.
LEMMA RecordGrows ==
    ASSUME ReviewTypes, NEW r \in Record, reviews' = Append(reviews, r), OnRecord, env' = env
    PROVE  OnRecord'
<1>1. PICK i \in DOMAIN reviews : GoodEnough(reviews[i])
  BY DEF OnRecord
<1>2. i \in DOMAIN reviews' /\ reviews'[i] = reviews[i]
  BY <1>1, AppendProperties DEF ReviewTypes
<1>3. cfg' = cfg
  BY DEF cfg
<1> QED BY <1>1, <1>2, <1>3 DEF OnRecord, GoodEnough

(* The invariant holds at the start. *)
LEMMA GateInit == Init => GateInv
BY BoundsAssumption
   DEF Init, GateInv, ReviewTypes, LetThrough, Approved, Idle, NoApproval, NoTask, Option

\* The types survive every step.
LEMMA TypesStep ==
    ASSUME ReviewTypes, [Next]_vars
    PROVE  ReviewTypes'
<1> USE DEF ReviewTypes
<1>1. CASE Submit
  <2>1. content' \in 0..MaxSubmits
    BY <1>1, BoundsAssumption DEF Submit
  <2>2. tasks' \in [Submission -> [at : {"none", "asking", "recording", "over", "aborted"},
                                   score : Option(Score)]]
    BY <1>1 DEF Submit, NoTask, Option
  <2> QED BY <1>1, <2>1, <2>2 DEF Submit
<1>2. CASE RecordLocal
  <2>1. [tier |-> "local", score |-> <<5>>, of |-> content] \in Record
    BY <1>2, BoundsAssumption DEF RecordLocal, Record, Option, Score, Submission
  <2> QED BY <1>2, <2>1, AppendProperties DEF RecordLocal, process
<1>3. ASSUME NEW v \in Submission, Answer(v) PROVE ReviewTypes'
  <2> DEFINE Task == [at : {"none", "asking", "recording", "over", "aborted"},
                      score : Option(Score)]
  <2>1. \A verdict \in Verdict, findings \in SUBSET Severity :
           Recorded(<<ScoreFromVerdict(verdict, findings)>>) \in Task
    <3> TAKE verdict \in Verdict, findings \in SUBSET Severity
    <3>1. ScoreFromVerdict(verdict, findings) \in Score
      BY DEF ScoreFromVerdict, Verdict, Score
    <3> QED BY <3>1 DEF Recorded, Option
  <2>2. ProviderFailed \in Task
    BY DEF ProviderFailed, Recorded, NoTask, Option
  <2>3. PICK task \in Task : tasks' = [tasks EXCEPT ![v] = task]
    <3> HIDE DEF Task
    <3> QED BY <1>3, <2>1, <2>2 DEF Answer
  <2>4. content' = content /\ reviews' = reviews
    BY <1>3 DEF Answer, server
  <2>5. tasks' \in [Submission -> Task]
    BY <2>3
  <2> QED BY <2>4, <2>5
<1>4. ASSUME NEW v \in Submission, ReviewTimeout(v) PROVE ReviewTypes'
  <2>1. ProviderFailed \in [at : {"recording", "over"}, score : Option(Score)]
    BY DEF ProviderFailed, Recorded, NoTask, Option
  <2> QED BY <1>4, <2>1 DEF ReviewTimeout, server
<1>5. ASSUME NEW v \in Submission, RecordReview(v) PROVE ReviewTypes'
  <2>1. [tier |-> "deep", score |-> tasks[v].score, of |-> v] \in Record
    BY DEF Record
  <2>2. reviews' \in Seq(Record)
    BY <1>5, <2>1, AppendProperties DEF RecordReview
  <2>3. tasks' \in [Submission -> [at : {"none", "asking", "recording", "over", "aborted"},
                                   score : Option(Score)]]
    BY <1>5 DEF RecordReview
  <2>4. content' = content
    BY <1>5 DEF RecordReview
  <2> QED BY <2>2, <2>3, <2>4
<1>6. CASE McpExit
  BY <1>6 DEF McpExit, server, NoTask, Option
<1>7. CASE McpStart \/ Expire \/ BeginApprove \/ ApproveRpc \/ Verify \/ UNCHANGED vars
  BY <1>7 DEF McpStart, Expire, BeginApprove, ApproveRpc, Verify, vars, server, process
<1>8. ASSUME NEW reason \in {"none", "short", "long"}, BeginForced(reason) PROVE ReviewTypes'
  BY <1>8 DEF BeginForced, server
<1> QED BY <1>1, <1>2, <1>3, <1>4, <1>5, <1>6, <1>7, <1>8 DEF Next

\* Every step keeps what let the call through, and passes it on to the approval.
LEMMA GateStep ==
    ASSUME GateInv, [Next]_vars
    PROVE  GateInv'
<1> USE DEF GateInv
<1>1. ReviewTypes'
  BY TypesStep
<1>2. env' = env /\ cfg' = cfg
  BY DEF Next, Submit, RecordLocal, Expire, McpExit, McpStart, Answer, ReviewTimeout,
         RecordReview, BeginApprove, ApproveRpc, Verify, BeginForced, vars, cfg
<1>3. OnRecord => OnRecord'
  <2> SUFFICES ASSUME OnRecord PROVE OnRecord'
    OBVIOUS
  <2>1. ASSUME reviews' = reviews PROVE OnRecord'
    BY <1>2, <2>1 DEF OnRecord, GoodEnough
  <2>2. CASE RecordLocal
    <3>1. [tier |-> "local", score |-> <<5>>, of |-> content] \in Record
      BY <2>2, BoundsAssumption DEF RecordLocal, Record, Option, Score, Submission, ReviewTypes
    <3> QED BY <1>2, <2>2, <3>1, RecordGrows DEF RecordLocal
  <2>3. ASSUME NEW v \in Submission, RecordReview(v) PROVE OnRecord'
    <3>1. [tier |-> "deep", score |-> tasks[v].score, of |-> v] \in Record
      BY DEF Record, ReviewTypes
    <3> QED BY <1>2, <2>1, <2>3, <3>1, RecordGrows DEF RecordReview
  <2> QED BY <2>1, <2>2, <2>3
          DEF Next, Submit, Expire, McpExit, McpStart, Answer, ReviewTimeout,
              BeginApprove, ApproveRpc, Verify, BeginForced, vars, server
<1>4. CASE BeginApprove
  <2>1. UNCHANGED <<reviews, approval>>
    BY <1>4 DEF BeginApprove, server
  <2>2. Approved'
    BY <1>2, <1>3, <2>1 DEF Approved
  <2>3. LetThrough'
    <3> SUFFICES ASSUME cfg.enabled, call'.at = "rpc" PROVE OnRecord'
      BY <1>2 DEF LetThrough
    <3>1. EvaluateGate(cfg, DeepReview) = "pass"
      BY <1>4 DEF BeginApprove, Refuse, Idle
    <3> QED BY <3>1, PassMeansGood, <1>3
  <2> QED BY <1>1, <2>2, <2>3
<1>5. ASSUME NEW reason \in {"none", "short", "long"}, BeginForced(reason) PROVE GateInv'
  <2>1. UNCHANGED <<reviews, approval>>
    BY <1>5 DEF BeginForced, server
  <2>2. call'.at = "rpc" => call'.reason = "override"
    BY <1>5 DEF BeginForced, Forward, Refuse, Idle
  <2> QED BY <1>1, <1>2, <1>3, <2>1, <2>2 DEF LetThrough, Approved
<1>6. CASE ApproveRpc
  <2>1. LetThrough'
    BY <1>6 DEF ApproveRpc, Refuse, Idle, LetThrough
  <2>2. Approved'
    <3>1. CASE approval' = approval
      BY <1>2, <1>3, <3>1 DEF Approved
    <3>2. CASE approval' = [how |-> "dk_approve", reason |-> call.reason, of |-> content]
      BY <1>2, <1>3, <1>6, <3>2 DEF ApproveRpc, Approved, LetThrough
    <3> QED BY <1>6, <3>1, <3>2 DEF ApproveRpc
  <2> QED BY <1>1, <2>1, <2>2
<1>7. CASE McpExit
  BY <1>1, <1>2, <1>3, <1>7 DEF McpExit, Idle, server, LetThrough, Approved
<1>8. CASE Verify
  <2>1. approval' = approval \/ approval'.how = "verify"
    BY <1>8 DEF Verify, NoApproval
  <2> QED BY <1>1, <1>2, <1>3, <1>8, <2>1 DEF Verify, process, LetThrough, Approved
<1>9. ASSUME call' = call, approval' = approval PROVE GateInv'
  BY <1>1, <1>2, <1>3, <1>9 DEF LetThrough, Approved
<1> QED BY <1>4, <1>5, <1>6, <1>7, <1>8, <1>9
        DEF Next, Submit, RecordLocal, Expire, McpStart, Answer, ReviewTimeout,
            RecordReview, vars, server, process

\* With the gate on, an approval by dk_approve carries an override or rests on a
\* recorded deep review with a sufficient score (evaluate_gate, handle_approve).
THEOREM GateHolds == Spec => []ApprovalIsEarned
<1>1. GateInv => ApprovalIsEarned
  <2> SUFFICES ASSUME GateInv, OnRecord PROVE \E r \in ToSet(reviews) : GoodEnough(r)
    BY DEF GateInv, Approved, ApprovalIsEarned
  <2> QED BY DEF OnRecord, ToSet
<1> QED BY <1>1, GateInit, GateStep, PTL DEF Spec

\* Every task that runs can be aborted, and none is there when the process is not.
Abortable ==
    /\ \A v \in Submission : Running(v) => v \in handles
    /\ ~alive => handles = {}

\* A task only runs on if it ran before or has just been started.
LEMMA AbortableStep ==
    ASSUME ReviewTypes, Abortable, [Next]_vars
    PROVE  Abortable'
<1> USE DEF Abortable, Running
<1>1. CASE Submit
  <2>1. content + 1 \in Submission
    BY <1>1, BoundsAssumption DEF Submit, ReviewTypes, Submission
  <2>2. CASE StartsReview
    <3>1. handles' = {w \in handles : Running(w)} \cup {content + 1} /\ alive' = alive /\ alive
      BY <1>1, <2>2 DEF Submit, Prune
    <3>2. \A v \in Submission : v # content + 1 => tasks'[v] = tasks[v]
      BY <1>1, <2>2 DEF Submit, ReviewTypes
    <3> QED BY <3>1, <3>2
  <2>3. CASE ~StartsReview
    BY <1>1, <2>3 DEF Submit
  <2> QED BY <2>2, <2>3
<1>2. ASSUME NEW v \in Submission, Answer(v) \/ ReviewTimeout(v) \/ RecordReview(v)
      PROVE  Abortable'
  <2>1. Running(v) /\ UNCHANGED <<alive, handles>>
    BY <1>2 DEF Answer, ReviewTimeout, RecordReview
  <2>2. \A w \in Submission : w # v => tasks'[w].at = tasks[w].at
    BY <1>2 DEF Answer, ReviewTimeout, RecordReview, ReviewTypes
  <2> QED BY <2>1, <2>2
<1>3. CASE McpExit
  <2>1. \A v \in Submission : ~Running(v)'
    BY <1>3 DEF McpExit, ReviewTypes, NoTask
  <2> QED BY <1>3, <2>1 DEF McpExit
<1>4. CASE UNCHANGED <<alive, handles, tasks>>
  BY <1>4
<1>5. CASE McpStart
  BY <1>5 DEF McpStart
<1> QED BY <1>1, <1>2, <1>3, <1>4, <1>5
        DEF Next, RecordLocal, Expire, BeginForced, BeginApprove, ApproveRpc, Verify,
            vars, process

\* When the process that started them is gone no review runs (Drop for DkodMcp
\* and the pruning of review_tasks in dk_submit).
THEOREM NoOrphans == Spec => []NoOrphanReview
<1>1. Init => ReviewTypes /\ Abortable
  BY GateInit DEF GateInv, Init, Abortable, Running, NoTask
<1>2. ReviewTypes /\ Abortable /\ [Next]_vars => (ReviewTypes /\ Abortable)'
  BY TypesStep, AbortableStep
<1>3. ReviewTypes /\ Abortable => NoOrphanReview
  BY DEF Abortable, NoOrphanReview
<1> QED BY <1>1, <1>2, <1>3, PTL DEF Spec
=============================================================================
