------------------------- MODULE VerificationProofs -------------------------
(***************************************************************************)
(* What a verification promises, for any number of VERIFY calls, any       *)
(* workflows and any capacity of the two channels: an approval is earned   *)
(* by every required step, and the client is told of the run that was.     *)
(***************************************************************************)
EXTENDS Verification, SequenceTheorems, TLAPS

-----------------------------------------------------------------------------
(* Lists.                                                                  *)

\* The elements of two lists, one behind the other.
LEMMA Members ==
    ASSUME NEW T, NEW s \in Seq(T), NEW t \in Seq(T)
    PROVE  /\ s \o t \in Seq(T)
           /\ ToSet(s \o t) = ToSet(s) \cup ToSet(t)
           /\ ToSet(s) \subseteq T
<1>1. s \o t \in Seq(T) /\ ToSet(s) \subseteq T
  BY DEF ToSet
<1>2. DOMAIN (s \o t) = 1..(Len(s) + Len(t)) /\ DOMAIN s = 1..Len(s) /\ DOMAIN t = 1..Len(t)
      /\ Len(s) \in Nat /\ Len(t) \in Nat
  BY DEF ToSet
<1>3. ASSUME NEW x \in ToSet(s \o t) PROVE x \in ToSet(s) \cup ToSet(t)
  <2>1. PICK i \in 1..(Len(s) + Len(t)) : x = (s \o t)[i]
    BY <1>2, <1>3 DEF ToSet
  <2>2. CASE i <= Len(s)
    BY <1>2, <2>1, <2>2 DEF ToSet
  <2>3. CASE i > Len(s)
    <3>1. i - Len(s) \in DOMAIN t /\ x = t[i - Len(s)]
      BY <1>2, <2>1, <2>3
    <3> QED BY <3>1 DEF ToSet
  <2> QED BY <1>2, <2>1, <2>2, <2>3
<1>4. ASSUME NEW x \in ToSet(s) PROVE x \in ToSet(s \o t)
  <2>1. PICK i \in 1..Len(s) : x = s[i]
    BY <1>2, <1>4 DEF ToSet
  <2>2. i \in DOMAIN (s \o t) /\ x = (s \o t)[i]
    BY <1>2, <2>1
  <2> QED BY <2>2 DEF ToSet
<1>5. ASSUME NEW x \in ToSet(t) PROVE x \in ToSet(s \o t)
  <2>1. PICK i \in 1..Len(t) : x = t[i]
    BY <1>2, <1>5 DEF ToSet
  <2>2. Len(s) + i \in DOMAIN (s \o t) /\ x = (s \o t)[Len(s) + i]
    BY <1>2, <2>1
  <2> QED BY <2>2 DEF ToSet
<1> QED BY <1>1, <1>3, <1>4, <1>5

\* The head of one list moves to the end of the one before it.
LEMMA HandedOn ==
    ASSUME NEW T, NEW s \in Seq(T), NEW t \in Seq(T), t # <<>>
    PROVE  /\ Head(t) \in T /\ Tail(t) \in Seq(T) /\ Append(s, Head(t)) \in Seq(T)
           /\ Append(s, Head(t)) \o Tail(t) = s \o t
           /\ Head(t) \in ToSet(t)
<1>1. Head(t) \in T /\ Tail(t) \in Seq(T) /\ Append(s, Head(t)) \in Seq(T)
  OBVIOUS
<1>2. t = <<Head(t)>> \o Tail(t) /\ Append(s, Head(t)) = s \o <<Head(t)>>
  BY <1>1
<1>3. (s \o <<Head(t)>>) \o Tail(t) = s \o (<<Head(t)>> \o Tail(t))
  BY <1>1, ConcatAssociative
<1>4. Head(t) \in ToSet(t)
  BY DEF ToSet
<1> QED BY <1>1, <1>2, <1>3, <1>4

(* An element moved over from one channel to the next stays in place. *)
LEMMA HandedThrough ==
    \A r, s, t \in Seq(Result) :
        t # <<>> => (r \o Append(s, Head(t))) \o Tail(t) = (r \o s) \o t
<1> SUFFICES ASSUME NEW r \in Seq(Result), NEW s \in Seq(Result), NEW t \in Seq(Result),
                    t # <<>>
             PROVE  (r \o Append(s, Head(t))) \o Tail(t) = (r \o s) \o t
  OBVIOUS
<1>1. Append(s, Head(t)) \o Tail(t) = s \o t
      /\ Append(s, Head(t)) \in Seq(Result) /\ Tail(t) \in Seq(Result)
  BY HandedOn
<1>2. ASSUME NEW a \in Seq(Result), NEW b \in Seq(Result) PROVE (r \o a) \o b = r \o (a \o b)
  BY ConcatAssociative
<1>3. (r \o Append(s, Head(t))) \o Tail(t) = r \o (Append(s, Head(t)) \o Tail(t))
  BY <1>1, <1>2, Zenon
<1>4. r \o (s \o t) = (r \o s) \o t
  BY ConcatAssociative
<1> QED BY <1>1, <1>3, <1>4

\* A prefix, point by point.
LEMMA PrefixPoints ==
    ASSUME NEW T, NEW s \in Seq(T), NEW t \in Seq(T)
    PROVE  IsPrefix(s, t) <=> Len(s) <= Len(t) /\ \A i \in 1..Len(s) : s[i] = t[i]
<1>1. CASE Len(s) <= Len(t)
  <2>1. /\ SubSeq(s, 1, Len(s)) = [i \in 1..Len(s) |-> s[i]]
        /\ SubSeq(t, 1, Len(s)) = [i \in 1..Len(s) |-> t[i]]
    BY <1>1
  <2> QED BY <1>1, <2>1 DEF IsPrefix
<1>2. CASE ~(Len(s) <= Len(t))
  BY <1>2 DEF IsPrefix
<1> QED BY <1>1, <1>2

\* What prefixes survive: more behind the list, less in front, the parts of a
\* list, and one prefix of another.
LEMMA PrefixGrows ==
    ASSUME NEW T, NEW s \in Seq(T), NEW t \in Seq(T), NEW u \in Seq(T), IsPrefix(s, t)
    PROVE  IsPrefix(s, t \o u)
<1>1. Len(s) <= Len(t) /\ \A i \in 1..Len(s) : s[i] = t[i]
  BY PrefixPoints
<1>2. t \o u \in Seq(T) /\ Len(t \o u) = Len(t) + Len(u)
      /\ \A i \in 1..Len(t) : (t \o u)[i] = t[i]
  OBVIOUS
<1>3. Len(s) <= Len(t \o u) /\ \A i \in 1..Len(s) : s[i] = (t \o u)[i]
  BY <1>1, <1>2
<1> QED BY <1>2, <1>3, PrefixPoints

(* The first part of a prefix is a prefix. *)
LEMMA PrefixOfParts ==
    ASSUME NEW T, NEW s \in Seq(T), NEW t \in Seq(T), NEW u \in Seq(T), IsPrefix(s \o t, u)
    PROVE  IsPrefix(s, u)
<1>1. s \o t \in Seq(T) /\ Len(s \o t) = Len(s) + Len(t)
      /\ \A i \in 1..Len(s) : (s \o t)[i] = s[i]
  OBVIOUS
<1>2. Len(s \o t) <= Len(u) /\ \A i \in 1..Len(s \o t) : (s \o t)[i] = u[i]
  BY <1>1, PrefixPoints
<1>3. Len(s) <= Len(u) /\ \A i \in 1..Len(s) : s[i] = u[i]
  BY <1>1, <1>2
<1> QED BY <1>3, PrefixPoints

(* The first part of a concatenation is a prefix of it. *)
LEMMA FrontIsPrefix ==
    ASSUME NEW T, NEW s \in Seq(T), NEW t \in Seq(T)
    PROVE  IsPrefix(s, s \o t)
<1>1. s \o t \in Seq(T) /\ Len(s \o t) = Len(s) + Len(t)
      /\ \A i \in 1..Len(s) : (s \o t)[i] = s[i]
  OBVIOUS
<1>2. Len(s) <= Len(s \o t)
  BY <1>1
<1> QED BY <1>1, <1>2, PrefixPoints
-----------------------------------------------------------------------------
(* The inductive invariant.                                                *)

\* Every variable has its type, and the workflow is a list of lists.
Types ==
    /\ IsStageList(flow.stages)
    /\ cs \in CsState /\ by \in Call \cup {Operator}
    /\ at \in [Call -> {"idle", "load", "stage", "report", "verdict", "done"}]
    /\ client \in [Call -> {"reading", "gone", "ended"}]
    /\ passed \in [Call -> BOOLEAN]
    /\ stage \in [Call -> Nat]
    /\ run \in [Call -> Seq(Status \cup {"wait"})]
    /\ todo \in [Call -> Seq(Result)] /\ queue \in [Call -> Seq(Result)]
    /\ stream \in [Call -> Seq(Result)] /\ got \in [Call -> Seq(Result)]
    /\ log \in [Call -> Seq(Result)]

\* What each place of a call means: in a stage the workflow is valid, outside
\* it nothing is left to send, before it nothing has happened; after the
\* verdict the channel is empty, and the stream too once its client has ended.
Places(c) ==
    /\ at[c] \in {"stage", "report"} =>
         /\ stage[c] \in DOMAIN flow.stages
         /\ \A i \in DOMAIN flow.stages : StepsOf(i) # <<>>
    /\ at[c] = "stage" => DOMAIN run[c] = DOMAIN StepsOf(stage[c])
    /\ at[c] # "report" => todo[c] = <<>>
    /\ at[c] \in {"idle", "load"} =>
         /\ log[c] = <<>> /\ queue[c] = <<>> /\ stream[c] = <<>> /\ got[c] = <<>>
         /\ stage[c] = 1 /\ passed[c]
    /\ at[c] = "done" => queue[c] = <<>>
    /\ client[c] = "gone" => stream[c] = <<>>
    /\ client[c] = "ended" => at[c] = "done" /\ stream[c] = <<>>
    /\ Len(queue[c]) <= RunnerCap /\ Len(stream[c]) <= StreamCap

\* In a sequential stage the steps that have finished are the first ones.
InOrder(c) ==
    at[c] = "stage" /\ ~flow.stages[stage[c]].parallel =>
        \E n \in 0..Len(run[c]) : \A k \in DOMAIN run[c] : Finished(c, k) <=> k <= n

\* The log holds the results of steps that exist, of one step never two, and
\* of no stage to come; it is not empty once a stage has ended.
StepOfResult(r) == <<r.stage, r.step>>
Logged(c) ==
    /\ \A j \in DOMAIN log[c] : /\ log[c][j].stage \in DOMAIN flow.stages
                                /\ log[c][j].step \in DOMAIN StepsOf(log[c][j].stage)
    /\ \A i, j \in DOMAIN log[c] : i # j => StepOfResult(log[c][i]) # StepOfResult(log[c][j])
    /\ at[c] = "stage" => \A j \in DOMAIN log[c] : log[c][j].stage < stage[c]
    /\ at[c] = "report" => \A j \in DOMAIN log[c] : log[c][j].stage <= stage[c]
    /\ at[c] = "report" \/ (at[c] = "stage" /\ stage[c] > 1) => log[c] # <<>>
    /\ at[c] \in {"verdict", "done"} /\ passed[c] /\ log[c] = <<>> => flow.stages = <<>>

\* As long as nothing counts against the changeset, the required steps of the
\* stages behind it have passed, and those of the stage being reported have,
\* or a failure is still to be reported.
StagePassed(c, i) ==
    \A k \in DOMAIN StepsOf(i) :
        StepsOf(i)[k].required =>
            [stage |-> i, step |-> k, status |-> "pass"] \in ToSet(log[c])
FailureAhead(c) == \E r \in ToSet(todo[c]) : IsFailure(r)
Earned(c) ==
    passed[c] =>
      /\ at[c] = "stage" =>
           \A i \in DOMAIN flow.stages : i < stage[c] => StagePassed(c, i)
      /\ at[c] = "report" =>
           \A i \in DOMAIN flow.stages :
               i < stage[c] \/ (i = stage[c] /\ ~FailureAhead(c)) => StagePassed(c, i)
      /\ at[c] \in {"verdict", "done"} =>
           \A i \in DOMAIN flow.stages : StagePassed(c, i)

\* What has been sent to a client that has not left is the log without what is
\* still to be sent, or, when the workflow was cut off, a prefix of it.
Sent(c) == got[c] \o stream[c] \o queue[c]
Told(c) ==
    IF client[c] = "gone" THEN IsPrefix(got[c], log[c])
    ELSE /\ at[c] \notin {"verdict", "done"} \/ passed[c] => Sent(c) \o todo[c] = log[c]
         /\ IsPrefix(Sent(c), log[c])

\* Why a run that has not passed has not: a failure was sent, or the run was
\* cut off before its end.
Missing(c) ==
    \E i \in DOMAIN flow.stages : \E k \in DOMAIN StepsOf(i) :
        \A r \in ToSet(Sent(c)) : StepOfResult(r) # <<i, k>>
Explained(c) ==
    client[c] # "gone" =>
      /\ passed[c] => \A r \in ToSet(Sent(c)) : ~IsFailure(r)
      /\ ~passed[c] =>
           \/ \E r \in ToSet(Sent(c)) : IsFailure(r)
           \/ at[c] \in {"verdict", "done"} /\ (Sent(c) = <<>> \/ Missing(c))

\* The verdict that stands is that of a run that is over.
Concluded(c) ==
    by = c => at[c] = "done" /\ cs = (IF passed[c] THEN "approved" ELSE "rejected")

CallInv(c) ==
    Places(c) /\ InOrder(c) /\ Logged(c) /\ Earned(c) /\ Told(c) /\ Explained(c) /\ Concluded(c)
VerifyInv == Types /\ \A c \in Call : CallInv(c)
-----------------------------------------------------------------------------
(* What steps leave alone.                                                 *)

\* The part of the invariant about a run, when the run stands still.
LEMMA RunFrame ==
    ASSUME NEW c \in Call, InOrder(c), Logged(c), Earned(c), flow' = flow,
           at'[c] = at[c], stage'[c] = stage[c], run'[c] = run[c], todo'[c] = todo[c],
           passed'[c] = passed[c], log'[c] = log[c]
    PROVE  InOrder(c)' /\ Logged(c)' /\ Earned(c)'
<1>1. InOrder(c)'
  BY DEF InOrder, Finished
<1>2. Logged(c)'
  BY DEF Logged, StepsOf, StepOfResult
<1>3. \A i : StagePassed(c, i)' <=> StagePassed(c, i)
  BY DEF StagePassed, StepsOf
<1>4. FailureAhead(c)' <=> FailureAhead(c)
  BY DEF FailureAhead, IsFailure, Required, StepsOf
<1>5. Earned(c)'
  BY <1>3, <1>4 DEF Earned
<1> QED BY <1>1, <1>2, <1>5

\* The part about its client, when nothing new has been sent.
LEMMA ClientFrame ==
    ASSUME NEW c \in Call, Told(c), Explained(c), flow' = flow,
           at'[c] = at[c], todo'[c] = todo[c], passed'[c] = passed[c], log'[c] = log[c],
           (client'[c] = "gone") <=> (client[c] = "gone"),
           client[c] # "gone" => Sent(c)' = Sent(c),
           client[c] = "gone" => got'[c] = got[c]
    PROVE  Told(c)' /\ Explained(c)'
<1>1. Told(c)'
  BY DEF Told
<1>2. CASE client[c] = "gone"
  BY <1>1, <1>2 DEF Explained
<1>3. CASE client[c] # "gone"
  <2>1. \A r : IsFailure(r)' <=> IsFailure(r)
    BY DEF IsFailure, Required, StepsOf
  <2>2. Missing(c)' <=> Missing(c)
    BY <1>3 DEF Missing, StepsOf, StepOfResult
  <2> QED BY <1>1, <1>3, <2>1, <2>2 DEF Explained
<1> QED BY <1>1, <1>2, <1>3

\* A step of another call, of a handler or of nobody.
LEMMA CallFrame ==
    ASSUME NEW c \in Call, CallInv(c), flow' = flow,
           at'[c] = at[c], stage'[c] = stage[c], run'[c] = run[c], todo'[c] = todo[c],
           passed'[c] = passed[c], log'[c] = log[c], queue'[c] = queue[c],
           stream'[c] = stream[c], client'[c] = client[c], got'[c] = got[c],
           by' = c => by = c /\ cs' = cs
    PROVE  CallInv(c)'
<1>1. InOrder(c)' /\ Logged(c)' /\ Earned(c)'
  BY RunFrame DEF CallInv
<1>2. Sent(c)' = Sent(c)
  BY DEF Sent
<1>3. Told(c)' /\ Explained(c)'
  BY <1>2, ClientFrame DEF CallInv
<1>4. Places(c)'
  BY DEF CallInv, Places, StepsOf
<1>5. Concluded(c)'
  BY DEF CallInv, Concluded
<1> QED BY <1>1, <1>3, <1>4, <1>5 DEF CallInv

\* Whoever takes a step of a call leaves the other calls alone.
OtherCalls(c) ==
    \A d \in Call \ {c} :
        /\ at'[d] = at[d] /\ stage'[d] = stage[d] /\ run'[d] = run[d] /\ todo'[d] = todo[d]
        /\ passed'[d] = passed[d] /\ log'[d] = log[d] /\ queue'[d] = queue[d]
        /\ stream'[d] = stream[d] /\ client'[d] = client[d] /\ got'[d] = got[d]
        /\ by' = d => by = d /\ cs' = cs

(* A step of one call keeps the invariant of the others. *)
LEMMA StepOfOne ==
    ASSUME VerifyInv, NEW c \in Call, Types', flow' = flow, OtherCalls(c), CallInv(c)'
    PROVE  VerifyInv'
<1>1. ASSUME NEW d \in Call \ {c} PROVE CallInv(d)'
  <2>1. CallInv(d)
    BY DEF VerifyInv
  <2> QED BY <2>1, CallFrame DEF OtherCalls
<1> QED BY <1>1 DEF VerifyInv

(* The invariant holds at the start. *)
LEMMA VerifyInit == Init => VerifyInv
<1> SUFFICES ASSUME Init PROVE VerifyInv
  OBVIOUS
<1> USE CallAssumption, CapAssumption, ReposAssumption
<1>1. Types
  BY DEF Init, Types, CsState
<1>2. ASSUME NEW c \in Call PROVE CallInv(c)
  <2>1. /\ at[c] = "idle" /\ stage[c] = 1 /\ todo[c] = <<>> /\ passed[c] = TRUE
        /\ queue[c] = <<>> /\ stream[c] = <<>> /\ got[c] = <<>> /\ log[c] = <<>>
        /\ client[c] \in {"reading", "gone"} /\ by = Operator /\ by # c
    BY DEF Init
  <2>2. Places(c) /\ InOrder(c) /\ Earned(c) /\ Concluded(c) /\ Logged(c)
    BY <2>1 DEF Places, InOrder, Earned, Concluded, Logged
  <2>3. Sent(c) = <<>> /\ Sent(c) \o todo[c] = <<>>
    BY <2>1 DEF Sent
  <2>4. IsPrefix(<<>>, <<>>)
    BY DEF IsPrefix
  <2>5. Told(c) /\ Explained(c)
    BY <2>1, <2>3, <2>4 DEF Told, Explained, ToSet
  <2> QED BY <2>2, <2>5 DEF CallInv
<1> QED BY <1>1, <1>2 DEF VerifyInv
-----------------------------------------------------------------------------
(* The handler's loop and the client.                                      *)

\* The loop hands a result on to the stream, or drops it for a client that
\* has left.
LEMMA ForwardStep ==
    ASSUME VerifyInv, NEW c \in Call, Forward(c) PROVE VerifyInv'
<1>0. Types /\ CallInv(c)
  BY DEF VerifyInv
<1>1. /\ queue[c] \in Seq(Result) /\ stream[c] \in Seq(Result) /\ got[c] \in Seq(Result)
      /\ queue[c] # <<>>
  BY <1>0 DEF Types, Forward
<1>2. Head(queue[c]) \in Result /\ Tail(queue[c]) \in Seq(Result)
      /\ Append(stream[c], Head(queue[c])) \in Seq(Result)
  BY <1>1
<1>3. /\ queue'[c] = Tail(queue[c]) /\ client' = client /\ got' = got /\ flow' = flow
      /\ at' = at /\ stage' = stage /\ run' = run /\ todo' = todo /\ passed' = passed
      /\ log' = log /\ cs' = cs /\ by' = by
      /\ client[c] = "gone" => stream' = stream
      /\ client[c] # "gone" => /\ stream'[c] = Append(stream[c], Head(queue[c]))
                               /\ Len(stream[c]) < StreamCap
  BY <1>0 DEF Types, Forward, given, changeset, runner
<1>4. Types'
  <2>1. queue' \in [Call -> Seq(Result)] /\ stream' \in [Call -> Seq(Result)]
    BY <1>0, <1>2 DEF Types, Forward
  <2> QED BY <1>0, <1>3, <2>1 DEF Types
<1>5. OtherCalls(c)
  BY <1>0, <1>3 DEF Types, Forward, OtherCalls
<1>6. Places(c)'
  <2>0. Len(queue[c]) <= RunnerCap /\ RunnerCap \in Nat /\ StreamCap \in Nat
    BY <1>0, CapAssumption DEF CallInv, Places
  <2>1. Len(Tail(queue[c])) <= RunnerCap
    BY <1>1, <2>0
  <2>2. client[c] # "gone" => Len(stream'[c]) <= StreamCap
    <3>1. Len(Append(stream[c], Head(queue[c]))) = Len(stream[c]) + 1 /\ Len(stream[c]) \in Nat
      BY <1>1, <1>2
    <3> QED BY <1>3, <2>0, <3>1
  <2>3. at[c] \notin {"idle", "load"} /\ client[c] # "ended" /\ at[c] # "done"
    BY <1>0, <1>1 DEF CallInv, Places
  <2> QED BY <1>0, <1>3, <2>1, <2>2, <2>3 DEF CallInv, Places, StepsOf
<1>7. client[c] # "gone" => Sent(c)' = Sent(c)
  <2> SUFFICES ASSUME client[c] # "gone" PROVE Sent(c)' = Sent(c)
    OBVIOUS
  <2>1. (got[c] \o Append(stream[c], Head(queue[c]))) \o Tail(queue[c])
           = (got[c] \o stream[c]) \o queue[c]
    BY <1>1, HandedThrough, Zenon
  <2> QED BY <1>3, <2>1 DEF Sent
<1>8. InOrder(c)' /\ Logged(c)' /\ Earned(c)'
  BY <1>0, <1>3, RunFrame DEF CallInv
<1>9. Told(c)' /\ Explained(c)'
  BY <1>0, <1>3, <1>7, ClientFrame DEF CallInv
<1>10. Concluded(c)'
  BY <1>0, <1>3 DEF CallInv, Concluded
<1> QED BY <1>3, <1>4, <1>5, <1>6, <1>8, <1>9, <1>10, StepOfOne DEF CallInv

\* The client takes a result.
LEMMA ReceiveStep ==
    ASSUME VerifyInv, NEW c \in Call, Receive(c) PROVE VerifyInv'
<1>0. Types /\ CallInv(c)
  BY DEF VerifyInv
<1>1. /\ queue[c] \in Seq(Result) /\ stream[c] \in Seq(Result) /\ got[c] \in Seq(Result)
      /\ stream[c] # <<>> /\ client[c] = "reading"
  BY <1>0 DEF Types, Receive
<1>2. Head(stream[c]) \in Result /\ Tail(stream[c]) \in Seq(Result)
      /\ Append(got[c], Head(stream[c])) \in Seq(Result)
  BY <1>1
<1>3. /\ stream'[c] = Tail(stream[c]) /\ got'[c] = Append(got[c], Head(stream[c]))
      /\ client' = client /\ queue' = queue /\ flow' = flow
      /\ at' = at /\ stage' = stage /\ run' = run /\ todo' = todo /\ passed' = passed
      /\ log' = log /\ cs' = cs /\ by' = by
  BY <1>0 DEF Types, Receive, given, changeset, runner
<1>4. Types'
  <2>1. got' \in [Call -> Seq(Result)] /\ stream' \in [Call -> Seq(Result)]
    BY <1>0, <1>2 DEF Types, Receive
  <2> QED BY <1>0, <1>3, <2>1 DEF Types
<1>5. OtherCalls(c)
  BY <1>0, <1>3 DEF Types, Receive, OtherCalls
<1>6. Places(c)'
  <2>1. Len(Tail(stream[c])) <= StreamCap
    <3>1. Len(stream[c]) <= StreamCap /\ StreamCap \in Nat
      BY <1>0, CapAssumption DEF CallInv, Places
    <3> QED BY <1>1, <3>1
  <2>2. at[c] \notin {"idle", "load"}
    BY <1>0, <1>1 DEF CallInv, Places
  <2> QED BY <1>0, <1>1, <1>3, <2>1, <2>2 DEF CallInv, Places, StepsOf
<1>7. Sent(c)' = Sent(c)
  <2>1. Append(got[c], Head(stream[c])) \o Tail(stream[c]) = got[c] \o stream[c]
    BY <1>1, HandedOn
  <2> QED BY <1>3, <2>1 DEF Sent
<1>8. InOrder(c)' /\ Logged(c)' /\ Earned(c)'
  BY <1>0, <1>3, RunFrame DEF CallInv
<1>9. Told(c)' /\ Explained(c)'
  BY <1>0, <1>1, <1>3, <1>7, ClientFrame DEF CallInv
<1>10. Concluded(c)'
  BY <1>0, <1>3 DEF CallInv, Concluded
<1> QED BY <1>3, <1>4, <1>5, <1>6, <1>8, <1>9, <1>10, StepOfOne DEF CallInv

\* The stream has ended.
LEMMA EndOfStreamStep ==
    ASSUME VerifyInv, NEW c \in Call, EndOfStream(c) PROVE VerifyInv'
<1>0. Types /\ CallInv(c)
  BY DEF VerifyInv
<1>1. /\ client[c] = "reading" /\ at[c] = "done" /\ stream[c] = <<>> /\ client'[c] = "ended"
      /\ stream' = stream /\ got' = got /\ queue' = queue /\ flow' = flow
      /\ at' = at /\ stage' = stage /\ run' = run /\ todo' = todo /\ passed' = passed
      /\ log' = log /\ cs' = cs /\ by' = by
  BY <1>0 DEF Types, EndOfStream, given, changeset, runner
<1>2. Types'
  BY <1>0, <1>1 DEF Types, EndOfStream
<1>3. OtherCalls(c)
  BY <1>0, <1>1 DEF Types, EndOfStream, OtherCalls
<1>4. Places(c)'
  BY <1>0, <1>1 DEF CallInv, Places, StepsOf
<1>5. InOrder(c)' /\ Logged(c)' /\ Earned(c)'
  BY <1>0, <1>1, RunFrame DEF CallInv
<1>6. Told(c)' /\ Explained(c)'
  <2>1. Sent(c)' = Sent(c)
    BY <1>1 DEF Sent
  <2> QED BY <1>0, <1>1, <2>1, ClientFrame DEF CallInv
<1>7. Concluded(c)'
  BY <1>0, <1>1 DEF CallInv, Concluded
<1> QED BY <1>1, <1>2, <1>3, <1>4, <1>5, <1>6, <1>7, StepOfOne DEF CallInv

\* The client leaves, with what it has seen.
LEMMA LeaveStep ==
    ASSUME VerifyInv, NEW c \in Call, Leave(c) PROVE VerifyInv'
<1>0. Types /\ CallInv(c)
  BY DEF VerifyInv
<1>1. /\ client[c] = "reading" /\ stream'[c] = <<>> /\ client'[c] = "gone"
      /\ got' = got /\ queue' = queue /\ flow' = flow
      /\ at' = at /\ stage' = stage /\ run' = run /\ todo' = todo /\ passed' = passed
      /\ log' = log /\ cs' = cs /\ by' = by
  BY <1>0 DEF Types, Leave, given, changeset, runner
<1>2. Types'
  <2>1. stream' \in [Call -> Seq(Result)] /\ client' \in [Call -> {"reading", "gone", "ended"}]
    <3>1. <<>> \in Seq(Result)
      OBVIOUS
    <3> QED BY <1>0, <3>1 DEF Types, Leave
  <2> QED BY <1>0, <1>1, <2>1 DEF Types
<1>3. OtherCalls(c)
  BY <1>0, <1>1 DEF Types, Leave, OtherCalls
<1>4. Places(c)'
  <2>1. Len(<<>>) <= StreamCap
    BY CapAssumption
  <2> QED BY <1>0, <1>1, <2>1 DEF CallInv, Places, StepsOf
<1>5. InOrder(c)' /\ Logged(c)' /\ Earned(c)'
  BY <1>0, <1>1, RunFrame DEF CallInv
<1>6. IsPrefix(got[c], log[c])
  <2>1. /\ got[c] \in Seq(Result) /\ stream[c] \in Seq(Result) /\ queue[c] \in Seq(Result)
        /\ log[c] \in Seq(Result) /\ got[c] \o stream[c] \in Seq(Result)
    BY <1>0 DEF Types
  <2>2. IsPrefix((got[c] \o stream[c]) \o queue[c], log[c])
    BY <1>0, <1>1 DEF CallInv, Told, Sent
  <2>3. IsPrefix(got[c] \o stream[c], log[c])
    BY <2>1, <2>2, PrefixOfParts
  <2> QED BY <2>1, <2>3, PrefixOfParts
<1>7. Told(c)' /\ Explained(c)'
  BY <1>1, <1>6 DEF Told, Explained
<1>8. Concluded(c)'
  BY <1>0, <1>1 DEF CallInv, Concluded
<1> QED BY <1>1, <1>2, <1>3, <1>4, <1>5, <1>7, <1>8, StepOfOne DEF CallInv
-----------------------------------------------------------------------------
(* The changeset.                                                          *)

\* SUBMIT, APPROVE and MERGE set a state that is no verdict.
LEMMA OperatorStep ==
    ASSUME VerifyInv, Submit \/ Approve \/ Merge PROVE VerifyInv'
<1>1. /\ by' = Operator /\ cs' \in CsState /\ flow' = flow
      /\ at' = at /\ stage' = stage /\ run' = run /\ todo' = todo /\ passed' = passed
      /\ log' = log /\ queue' = queue /\ stream' = stream /\ client' = client /\ got' = got
  BY DEF Submit, Approve, Merge, SetState, CsState, given, runner, channels
<1>2. Types'
  BY <1>1 DEF VerifyInv, Types
<1>3. ASSUME NEW c \in Call PROVE CallInv(c)'
  <2>1. by' # c
    BY <1>1, CallAssumption
  <2> QED BY <1>1, <2>1, CallFrame DEF VerifyInv
<1> QED BY <1>2, <1>3 DEF VerifyInv

\* handle_verify begins.
LEMMA BeginStep ==
    ASSUME VerifyInv, NEW c \in Call, BeginVerify(c) PROVE VerifyInv'
<1>0. Types /\ CallInv(c)
  BY DEF VerifyInv
<1>1. /\ at[c] = "idle" /\ at'[c] = "load" /\ flow' = flow
      /\ stage' = stage /\ run' = run /\ todo' = todo /\ passed' = passed
      /\ log' = log /\ queue' = queue /\ stream' = stream /\ client' = client /\ got' = got
      /\ (cs' = "verifying" /\ by' = Operator) \/ (cs' = cs /\ by' = by)
  BY <1>0 DEF Types, BeginVerify, given, channels
<1>2. Types'
  BY <1>0, <1>1 DEF Types, BeginVerify, CsState
<1>3. OtherCalls(c)
  BY <1>0, <1>1, CallAssumption DEF Types, BeginVerify, OtherCalls
<1>4. Places(c)' /\ InOrder(c)' /\ Logged(c)' /\ Earned(c)'
  BY <1>0, <1>1 DEF CallInv, Places, InOrder, Logged, Earned, StepsOf, StepOfResult
<1>5. Sent(c)' = Sent(c) /\ Sent(c) = <<>>
  BY <1>0, <1>1 DEF CallInv, Places, Sent
<1>6. Told(c)' /\ Explained(c)'
  <2>1. Told(c)'
    BY <1>0, <1>1, <1>5 DEF CallInv, Told
  <2>2. passed'[c] /\ ToSet(Sent(c)') = {}
    BY <1>0, <1>1, <1>5 DEF CallInv, Places, ToSet
  <2> QED BY <2>1, <2>2 DEF Explained
<1>7. Concluded(c)'
  BY <1>0, <1>1, CallAssumption DEF CallInv, Concluded
<1> QED BY <1>1, <1>2, <1>3, <1>4, <1>6, <1>7, StepOfOne DEF CallInv

\* handle_verify ends: the verdict.
LEMMA ConcludeStep ==
    ASSUME VerifyInv, NEW c \in Call, Conclude(c) PROVE VerifyInv'
<1>0. Types /\ CallInv(c)
  BY DEF VerifyInv
<1>1. /\ at[c] = "verdict" /\ at'[c] = "done" /\ queue[c] = <<>> /\ flow' = flow
      /\ stage' = stage /\ run' = run /\ todo' = todo /\ passed' = passed
      /\ log' = log /\ queue' = queue /\ stream' = stream /\ client' = client /\ got' = got
  BY <1>0 DEF Types, Conclude, given, channels
<1>2. \/ by' = c /\ cs' = (IF passed[c] THEN "approved" ELSE "rejected")
      \/ by' = by /\ cs' = cs
  BY DEF Conclude
<1>3. Types'
  <2>1. by' \in Call \cup {Operator} /\ cs' \in CsState
    BY <1>0, <1>2 DEF Types, CsState
  <2> QED BY <1>0, <1>1, <2>1 DEF Types, Conclude
<1>4. OtherCalls(c)
  BY <1>0, <1>1, <1>2 DEF Types, Conclude, OtherCalls
<1>5. Places(c)' /\ InOrder(c)'
  BY <1>0, <1>1 DEF CallInv, Places, InOrder, StepsOf
<1>6. Logged(c)'
  BY <1>0, <1>1 DEF CallInv, Logged, StepsOf, StepOfResult
<1>7. Earned(c)'
  <2>1. \A i : StagePassed(c, i)' <=> StagePassed(c, i)
    BY <1>1 DEF StagePassed, StepsOf
  <2> QED BY <1>0, <1>1, <2>1 DEF CallInv, Earned
<1>8. Told(c)' /\ Explained(c)'
  <2>1. Sent(c)' = Sent(c)
    BY <1>1 DEF Sent
  <2>2. \A r : IsFailure(r)' <=> IsFailure(r)
    BY <1>1 DEF IsFailure, Required, StepsOf
  <2>3. Missing(c)' <=> Missing(c)
    BY <1>1, <2>1 DEF Missing, StepsOf, StepOfResult
  <2>4. Told(c)'
    BY <1>0, <1>1, <2>1 DEF CallInv, Told
  <2>5. Explained(c)'
    BY <1>0, <1>1, <2>1, <2>2, <2>3 DEF CallInv, Explained
  <2> QED BY <2>4, <2>5
<1>9. Concluded(c)'
  BY <1>0, <1>1, <1>2 DEF CallInv, Concluded
<1> QED BY <1>1, <1>3, <1>4, <1>5, <1>6, <1>7, <1>8, <1>9, StepOfOne DEF CallInv

-----------------------------------------------------------------------------
(* The runner.                                                             *)

\* The run ends before its last stage, and not well.
LEMMA CutOff ==
    ASSUME VerifyInv, NEW c \in Call, Return(c, FALSE), at[c] \in {"load", "stage", "report"},
           at[c] = "report" => todo[c] # <<>>
    PROVE  VerifyInv'
<1>0. Types /\ CallInv(c)
  BY DEF VerifyInv
<1>1. /\ at'[c] = "verdict" /\ ~passed'[c] /\ todo'[c] = <<>> /\ flow' = flow
      /\ stage' = stage /\ log' = log /\ cs' = cs /\ by' = by
      /\ queue' = queue /\ stream' = stream /\ client' = client /\ got' = got
  BY <1>0 DEF Types, Return, given, changeset, channels
<1>2. Types'
  <2>1. /\ run' \in [Call -> Seq(Status \cup {"wait"})] /\ todo' \in [Call -> Seq(Result)]
        /\ at' \in [Call -> {"idle", "load", "stage", "report", "verdict", "done"}]
        /\ passed' \in [Call -> BOOLEAN]
    BY <1>0 DEF Types, Return
  <2> QED BY <1>0, <1>1, <2>1 DEF Types
<1>3. OtherCalls(c)
  BY <1>0, <1>1 DEF Types, Return, OtherCalls
<1>4. Places(c)'
  BY <1>0, <1>1 DEF CallInv, Places, StepsOf
<1>5. InOrder(c)' /\ Earned(c)'
  BY <1>1 DEF InOrder, Earned
<1>6. Logged(c)'
  BY <1>0, <1>1 DEF CallInv, Logged, StepsOf, StepOfResult
<1>7. Sent(c)' = Sent(c)
  BY <1>1 DEF Sent
<1>8. Told(c)'
  BY <1>0, <1>1, <1>7 DEF CallInv, Told
<1>9. Explained(c)'
  <2> SUFFICES ASSUME client[c] # "gone", Sent(c) # <<>>, passed[c] PROVE Missing(c)
    <3>1. \A r : IsFailure(r)' <=> IsFailure(r)
      BY <1>1 DEF IsFailure, Required, StepsOf
    <3>2. Missing(c)' <=> Missing(c)
      BY <1>1, <1>7 DEF Missing, StepsOf, StepOfResult
    <3> QED BY <1>0, <1>1, <1>7, <3>1, <3>2 DEF CallInv, Explained
  <2>1. /\ Sent(c) \in Seq(Result) /\ todo[c] \in Seq(Result) /\ log[c] \in Seq(Result)
        /\ Sent(c) \o todo[c] = log[c]
    BY <1>0 DEF Types, Sent, CallInv, Told
  <2>2. at[c] # "load"
    BY <1>0 DEF CallInv, Places, Sent
  <2>3. CASE at[c] = "stage"
    <3>1. todo[c] = <<>> /\ Sent(c) = log[c]
      <4>1. todo[c] = <<>>
        BY <1>0, <2>3 DEF CallInv, Places
      <4>2. Sent(c) \o <<>> = Sent(c)
        BY <2>1
      <4> QED BY <2>1, <4>1, <4>2
    <3>2. \A r \in ToSet(Sent(c)) : r.stage # stage[c]
      <4>1. \A j \in DOMAIN log[c] : log[c][j].stage < stage[c] /\ log[c][j].stage \in Nat
        <5>1. \A j \in DOMAIN log[c] : log[c][j].stage < stage[c]
          BY <1>0, <2>3 DEF CallInv, Logged
        <5>2. \A j \in DOMAIN log[c] : log[c][j] \in Result
          BY <2>1
        <5> QED BY <5>1, <5>2 DEF Result
      <4> QED BY <1>0, <3>1, <4>1 DEF ToSet, Types
    <3>3. stage[c] \in DOMAIN flow.stages /\ 1 \in DOMAIN StepsOf(stage[c])
      BY <1>0, <2>3 DEF CallInv, Places, Types, IsStageList, IsList, StepsOf
    <3> QED BY <3>2, <3>3 DEF Missing, StepOfResult
  <2>4. CASE at[c] = "report"
    <3> DEFINE n == Len(Sent(c)) + 1
    <3>1. n \in DOMAIN log[c] /\ \A i \in 1..Len(Sent(c)) : i # n /\ i \in DOMAIN log[c]
                                                           /\ log[c][i] = Sent(c)[i]
      BY <2>1, <2>4
    <3>2. \A i \in 1..Len(Sent(c)) : StepOfResult(log[c][i]) # StepOfResult(log[c][n])
      BY <1>0, <3>1 DEF CallInv, Logged
    <3>3. /\ log[c][n].stage \in DOMAIN flow.stages
          /\ log[c][n].step \in DOMAIN StepsOf(log[c][n].stage)
      BY <1>0, <3>1 DEF CallInv, Logged
    <3> HIDE DEF n
    <3>4. ASSUME NEW r \in ToSet(Sent(c))
          PROVE  StepOfResult(r) # <<log[c][n].stage, log[c][n].step>>
      <4>1. PICK i \in 1..Len(Sent(c)) : r = Sent(c)[i]
        BY <2>1 DEF ToSet
      <4>2. r = log[c][i] /\ StepOfResult(log[c][i]) # StepOfResult(log[c][n])
        BY <3>1, <3>2, <4>1
      <4> QED BY <4>2 DEF StepOfResult
    <3> QED BY <3>3, <3>4 DEF Missing
  <2> QED BY <2>2, <2>3, <2>4
<1>10. Concluded(c)'
  BY <1>0, <1>1 DEF CallInv, Concluded
<1> QED BY <1>1, <1>2, <1>3, <1>4, <1>5, <1>6, <1>8, <1>9, <1>10, StepOfOne DEF CallInv

\* Nothing to check: the run passes without a stage.
LEMMA AutoApproveStep ==
    ASSUME VerifyInv, NEW c \in Call, AutoApprove(c) PROVE VerifyInv'
<1>0. Types /\ CallInv(c)
  BY DEF VerifyInv
<1>1. /\ at[c] = "load" /\ flow.stages = <<>>
      /\ at'[c] = "verdict" /\ passed'[c] /\ todo'[c] = <<>> /\ flow' = flow
      /\ stage' = stage /\ log' = log /\ cs' = cs /\ by' = by
      /\ queue' = queue /\ stream' = stream /\ client' = client /\ got' = got
  BY <1>0 DEF Types, AutoApprove, Return, given, changeset, channels
<1>2. Types'
  <2>1. /\ run' \in [Call -> Seq(Status \cup {"wait"})] /\ todo' \in [Call -> Seq(Result)]
        /\ at' \in [Call -> {"idle", "load", "stage", "report", "verdict", "done"}]
        /\ passed' \in [Call -> BOOLEAN]
    BY <1>0 DEF Types, AutoApprove, Return
  <2> QED BY <1>0, <1>1, <2>1 DEF Types
<1>3. OtherCalls(c)
  BY <1>0, <1>1 DEF Types, AutoApprove, Return, OtherCalls
<1>4. Places(c)' /\ InOrder(c)'
  BY <1>0, <1>1 DEF CallInv, Places, InOrder
<1>5. Logged(c)' /\ Earned(c)'
  BY <1>0, <1>1 DEF CallInv, Places, Logged, Earned, StepsOf, StepOfResult
<1>6. Sent(c)' = <<>> /\ Sent(c)' \o todo'[c] = <<>> /\ log'[c] = <<>>
  BY <1>0, <1>1 DEF CallInv, Places, Sent
<1>7. Told(c)' /\ Explained(c)'
  <2>1. IsPrefix(<<>>, <<>>) /\ ToSet(<<>>) = {}
    BY DEF IsPrefix, ToSet
  <2>2. got'[c] = <<>>
    BY <1>0, <1>1 DEF CallInv, Places
  <2> QED BY <1>1, <1>6, <2>1, <2>2 DEF Told, Explained
<1>8. Concluded(c)'
  BY <1>0, <1>1 DEF CallInv, Concluded
<1> QED BY <1>1, <1>2, <1>3, <1>4, <1>5, <1>7, <1>8, StepOfOne DEF CallInv
\* The steps of a stage that has not run.
LEMMA FreshStage ==
    ASSUME Types, NEW i \in DOMAIN flow.stages
    PROVE  /\ Fresh(i) \in Seq(Status \cup {"wait"})
           /\ DOMAIN Fresh(i) = DOMAIN StepsOf(i)
           /\ \A k \in DOMAIN Fresh(i) : Fresh(i)[k] = "wait"
<1>1. Len(StepsOf(i)) \in Nat /\ DOMAIN StepsOf(i) = 1..Len(StepsOf(i))
  BY DEF Types, IsStageList, IsList, StepsOf
<1>2. Fresh(i) = [k \in 1..Len(StepsOf(i)) |-> "wait"]
  BY <1>1 DEF Fresh
<1> QED BY <1>1, <1>2

\* What the conditions of a stage that begins hold for.
LEMMA StageBegins ==
    ASSUME Types, NEW c \in Call, flow' = flow, at'[c] = "stage",
           stage'[c] \in DOMAIN flow.stages, run'[c] = Fresh(stage'[c])
    PROVE  InOrder(c)' /\ DOMAIN run'[c] = DOMAIN StepsOf(stage'[c])
<1>1. /\ run'[c] \in Seq(Status \cup {"wait"})
      /\ DOMAIN run'[c] = DOMAIN StepsOf(stage'[c])
      /\ \A k \in DOMAIN run'[c] : run'[c][k] = "wait"
  BY FreshStage
<1>2. 0 \in 0..Len(run'[c]) /\ DOMAIN run'[c] = 1..Len(run'[c])
  BY <1>1
<1>3. \A k \in DOMAIN run'[c] : ~(run'[c][k] # "wait") /\ ~(k <= 0)
  BY <1>1, <1>2
<1> QED BY <1>1, <1>2, <1>3 DEF InOrder, Finished

\* The run begins.
LEMMA StartStep ==
    ASSUME VerifyInv, NEW c \in Call, StartWorkflow(c) PROVE VerifyInv'
<1>0. Types /\ CallInv(c)
  BY DEF VerifyInv
<1>1. /\ at[c] = "load" /\ at'[c] = "stage" /\ run'[c] = Fresh(1) /\ flow' = flow
      /\ stage' = stage /\ todo' = todo /\ passed' = passed
      /\ log' = log /\ cs' = cs /\ by' = by
      /\ queue' = queue /\ stream' = stream /\ client' = client /\ got' = got
  BY <1>0 DEF Types, StartWorkflow, given, changeset, channels
<1>2. /\ stage[c] = 1 /\ log[c] = <<>> /\ passed[c] /\ todo[c] = <<>>
      /\ got[c] = <<>> /\ stream[c] = <<>> /\ queue[c] = <<>>
  BY <1>0, <1>1 DEF CallInv, Places
<1>3. 1 \in DOMAIN flow.stages /\ \A i \in DOMAIN flow.stages : StepsOf(i) # <<>>
  <2>1. ValidWorkflow(flow)
    BY DEF StartWorkflow
  <2>2. IsList(flow.stages)
    BY <1>0 DEF Types, IsStageList
  <2>3. flow.stages # <<>> /\ \A i \in DOMAIN flow.stages : flow.stages[i].steps # <<>>
    BY <2>1 DEF ValidWorkflow, ToSet
  <2>4. 1 \in DOMAIN flow.stages
    BY <2>2, <2>3 DEF IsList
  <2> QED BY <2>3, <2>4 DEF StepsOf
<1>4. Types'
  <2>1. Fresh(1) \in Seq(Status \cup {"wait"})
    BY <1>0, <1>3, FreshStage
  <2>2. /\ run' \in [Call -> Seq(Status \cup {"wait"})]
        /\ at' \in [Call -> {"idle", "load", "stage", "report", "verdict", "done"}]
    BY <1>0, <2>1 DEF Types, StartWorkflow
  <2> QED BY <1>0, <1>1, <2>2 DEF Types
<1>5. OtherCalls(c)
  BY <1>0, <1>1 DEF Types, StartWorkflow, OtherCalls
<1>6. InOrder(c)' /\ DOMAIN run'[c] = DOMAIN StepsOf(1)
  BY <1>0, <1>1, <1>2, <1>3, StageBegins
<1>7. Places(c)'
  BY <1>0, <1>1, <1>2, <1>3, <1>6 DEF CallInv, Places, StepsOf
<1>8. Logged(c)'
  BY <1>0, <1>1, <1>2 DEF Logged
<1>9. Earned(c)'
  <2>1. \A i \in DOMAIN flow.stages : ~(i < 1)
    BY <1>0 DEF Types, IsStageList, IsList
  <2> QED BY <1>1, <1>2, <2>1 DEF Earned
<1>10. Told(c)' /\ Explained(c)'
  <2>1. Sent(c)' = Sent(c) /\ Sent(c) = <<>>
    BY <1>1, <1>2 DEF Sent
  <2>2. Told(c)'
    BY <1>0, <1>1, <2>1 DEF CallInv, Told
  <2>3. passed'[c] /\ ToSet(Sent(c)') = {}
    BY <1>1, <1>2, <2>1 DEF ToSet
  <2> QED BY <2>2, <2>3 DEF Explained
<1>11. Concluded(c)'
  BY <1>0, <1>1 DEF CallInv, Concluded
<1> QED
  BY <1>1, <1>4, <1>5, <1>6, <1>7, <1>8, <1>9, <1>10, <1>11, StepOfOne DEF CallInv

\* What a step may return is a status.
LEMMA OutcomesAreStatuses ==
    ASSUME NEW step, step.kind \in Kinds PROVE Outcomes(step) \subseteq Status
BY DEF Kinds, Outcomes, CommandOutcomes, SemanticOutcomes, AgentReviewOutcomes,
       HumanApproveOutcomes, LlmJudgeOutcomes, PytorchOutcomes, Status

\* A step finishes.
LEMMA FinishLemma ==
    ASSUME VerifyInv, NEW c \in Call, NEW k \in DOMAIN run[c], FinishStep(c, k)
    PROVE  VerifyInv'
<1>0. Types /\ CallInv(c)
  BY DEF VerifyInv
<1>1. PICK s \in Outcomes(Current(c)[k]) : run' = [run EXCEPT ![c][k] = s]
  BY DEF FinishStep
<1>2. /\ at[c] = "stage" /\ at' = at /\ flow' = flow /\ ~Finished(c, k) /\ MayRun(c, k)
      /\ stage' = stage /\ todo' = todo /\ passed' = passed
      /\ log' = log /\ cs' = cs /\ by' = by
      /\ queue' = queue /\ stream' = stream /\ client' = client /\ got' = got
  BY DEF FinishStep, given, changeset, channels
<1>3. s \in Status
  <2>1. stage[c] \in DOMAIN flow.stages /\ k \in DOMAIN StepsOf(stage[c])
    BY <1>0, <1>2 DEF CallInv, Places
  <2>2. Current(c)[k].kind \in Kinds
    BY <1>0, <2>1 DEF Types, IsStageList, Current, StepsOf
  <2> QED BY <1>1, <2>2, OutcomesAreStatuses
<1>4. /\ run[c] \in Seq(Status \cup {"wait"}) /\ run'[c] = [run[c] EXCEPT ![k] = s]
      /\ DOMAIN run[c] = 1..Len(run[c]) /\ Len(run[c]) \in Nat
  BY <1>0, <1>1 DEF Types
<1>5. run'[c] \in Seq(Status \cup {"wait"}) /\ Len(run'[c]) = Len(run[c])
      /\ DOMAIN run'[c] = DOMAIN run[c]
  BY <1>3, <1>4
<1>6. Types'
  <2>1. run' \in [Call -> Seq(Status \cup {"wait"})]
    BY <1>0, <1>1, <1>4, <1>5 DEF Types
  <2> QED BY <1>0, <1>2, <2>1 DEF Types
<1>7. OtherCalls(c)
  BY <1>0, <1>1, <1>2 DEF Types, OtherCalls
<1>8. Places(c)'
  BY <1>0, <1>2, <1>5 DEF CallInv, Places, StepsOf
<1>9. InOrder(c)'
  <2> SUFFICES ASSUME ~flow.stages[stage[c]].parallel
               PROVE  \E n \in 0..Len(run'[c]) :
                         \A j \in DOMAIN run'[c] : run'[c][j] # "wait" <=> j <= n
    BY <1>2 DEF InOrder, Finished
  <2>1. PICK n \in 0..Len(run[c]) : \A j \in DOMAIN run[c] : run[c][j] # "wait" <=> j <= n
    BY <1>0, <1>2 DEF CallInv, InOrder, Finished
  <2>2. \A j \in 1..(k - 1) : run[c][j] # "wait"
    BY <1>2 DEF MayRun, Finished
  <2>3. k \in 1..Len(run[c]) /\ ~(k <= n)
    BY <1>2, <1>4, <2>1 DEF Finished
  <2>4. n = k - 1
    <3>1. CASE n < k - 1
      <4>1. k - 1 \in DOMAIN run[c] /\ ~(k - 1 <= n) /\ k - 1 \in 1..(k - 1)
        BY <1>4, <2>3, <3>1
      <4> QED BY <2>1, <2>2, <4>1
    <3> QED BY <2>3, <3>1
  <2>5. \A j \in DOMAIN run'[c] : run'[c][j] # "wait" <=> j <= k
    <3>1. s # "wait"
      BY <1>3 DEF Status
    <3> QED BY <1>4, <1>5, <2>1, <2>3, <2>4, <3>1
  <2> QED BY <1>5, <2>3, <2>5
<1>10. Logged(c)' /\ Earned(c)'
  <2>1. \A i : StagePassed(c, i)' <=> StagePassed(c, i)
    BY <1>2 DEF StagePassed, StepsOf
  <2>2. Logged(c)'
    BY <1>0, <1>2 DEF CallInv, Logged, StepsOf, StepOfResult
  <2> QED BY <1>0, <1>2, <2>1, <2>2 DEF CallInv, Earned
<1>11. Told(c)' /\ Explained(c)'
  <2>1. Sent(c)' = Sent(c)
    BY <1>2 DEF Sent
  <2> QED BY <1>0, <1>2, <2>1, ClientFrame DEF CallInv
<1>12. Concluded(c)'
  BY <1>0, <1>2 DEF CallInv, Concluded
<1> QED
  BY <1>2, <1>6, <1>7, <1>8, <1>9, <1>10, <1>11, <1>12, StepOfOne DEF CallInv
\* When a stage is over, the steps that have finished are the first n; they are
\* all of them, or one that is required has failed.
LEMMA ResultsOfStage ==
    ASSUME Types, NEW c \in Call, Places(c), InOrder(c), at[c] = "stage", StageOver(c)
    PROVE  \E n \in 1..Len(run[c]) :
             /\ StageResults(c) = [k \in 1..n |-> [stage |-> stage[c], step |-> k,
                                                   status |-> run[c][k]]]
             /\ \A k \in 1..n : run[c][k] \in Status
             /\ n = Len(run[c]) \/ \E k \in 1..n : FailedRequired(c, k)
<1>1. run[c] \in Seq(Status \cup {"wait"}) /\ DOMAIN run[c] = 1..Len(run[c]) /\ Len(run[c]) \in Nat
  BY DEF Types
<1>2. 1 \in DOMAIN run[c]
  <2>1. stage[c] \in DOMAIN flow.stages /\ StepsOf(stage[c]) # <<>>
        /\ DOMAIN run[c] = DOMAIN StepsOf(stage[c])
    BY DEF Places
  <2>2. IsList(StepsOf(stage[c]))
    BY <2>1 DEF Types, IsStageList, StepsOf
  <2>3. Len(StepsOf(stage[c])) # 0
    BY <2>1, <2>2 DEF IsList
  <2> QED BY <2>1, <2>2, <2>3 DEF IsList
<1>3. \E n \in 1..Len(run[c]) :
         /\ \A k \in DOMAIN run[c] : Finished(c, k) <=> k <= n
         /\ n = Len(run[c]) \/ \E k \in 1..n : FailedRequired(c, k)
  <2>1. CASE \A k \in DOMAIN run[c] : Finished(c, k)
    <3>1. Len(run[c]) \in 1..Len(run[c]) /\ \A k \in DOMAIN run[c] : k <= Len(run[c])
      BY <1>1, <1>2
    <3> QED BY <2>1, <3>1
  <2>2. CASE ~flow.stages[stage[c]].parallel /\ \E k \in DOMAIN run[c] : FailedRequired(c, k)
    <3>1. PICK n \in 0..Len(run[c]) : \A k \in DOMAIN run[c] : Finished(c, k) <=> k <= n
      BY <2>2 DEF InOrder
    <3>2. PICK k \in DOMAIN run[c] : FailedRequired(c, k)
      BY <2>2
    <3>3. k <= n
      BY <3>1, <3>2 DEF FailedRequired
    <3>4. k \in 1..n /\ n \in 1..Len(run[c])
      BY <1>1, <3>3
    <3> QED BY <3>1, <3>2, <3>4
  <2> QED BY <2>1, <2>2 DEF StageOver
<1>4. PICK n \in 1..Len(run[c]) :
         /\ \A k \in DOMAIN run[c] : Finished(c, k) <=> k <= n
         /\ n = Len(run[c]) \/ \E k \in 1..n : FailedRequired(c, k)
  BY <1>3
<1>5. {j \in DOMAIN run[c] : Finished(c, j)} = 1..n
  BY <1>1, <1>4
<1>6. StageResults(c) = [k \in 1..n |-> [stage |-> stage[c], step |-> k, status |-> run[c][k]]]
  BY <1>5 DEF StageResults
<1>7. \A k \in 1..n : run[c][k] \in Status
  <2>1. \A k \in 1..n : k \in DOMAIN run[c] /\ run[c][k] # "wait"
    BY <1>1, <1>4 DEF Finished
  <2> QED BY <1>1, <2>1
<1> QED BY <1>4, <1>6, <1>7

\* A stage is over; its results are known.
LEMMA EndStageStep ==
    ASSUME VerifyInv, NEW c \in Call, EndStage(c) PROVE VerifyInv'
<1>0. Types /\ CallInv(c)
  BY DEF VerifyInv
<1> DEFINE R == StageResults(c)
<1>1. /\ at[c] = "stage" /\ at'[c] = "report" /\ todo'[c] = R /\ log'[c] = log[c] \o R
      /\ flow' = flow /\ stage' = stage /\ run' = run /\ passed' = passed
      /\ cs' = cs /\ by' = by
      /\ queue' = queue /\ stream' = stream /\ client' = client /\ got' = got
  BY <1>0 DEF Types, EndStage, given, changeset, channels
<1>2. /\ stage[c] \in DOMAIN flow.stages /\ stage[c] \in Nat /\ todo[c] = <<>>
      /\ DOMAIN run[c] = DOMAIN StepsOf(stage[c])
      /\ log[c] \in Seq(Result) /\ run[c] \in Seq(Status \cup {"wait"})
  BY <1>0, <1>1 DEF CallInv, Places, Types
<1>3. PICK n \in 1..Len(run[c]) :
        /\ R = [k \in 1..n |-> [stage |-> stage[c], step |-> k, status |-> run[c][k]]]
        /\ \A k \in 1..n : run[c][k] \in Status
        /\ n = Len(run[c]) \/ \E k \in 1..n : FailedRequired(c, k)
  BY <1>0, <1>1, ResultsOfStage DEF CallInv, EndStage
<1>4. /\ R \in Seq(Result) /\ Len(R) = n /\ DOMAIN R = 1..n /\ n \in Nat /\ n >= 1
      /\ \A k \in 1..n : /\ R[k].stage = stage[c] /\ R[k].step = k
                         /\ R[k].status = run[c][k] /\ k \in DOMAIN StepsOf(stage[c])
  <2>1. n \in Nat /\ n >= 1 /\ 1..n \subseteq DOMAIN run[c]
    BY <1>2
  <2>2. \A k \in 1..n : [stage |-> stage[c], step |-> k, status |-> run[c][k]] \in Result
    BY <1>2, <1>3, <2>1 DEF Result
  <2>3. R \in [1..n -> Result]
    BY <1>3, <2>2
  <2>4. R \in Seq(Result) /\ Len(R) = n
    BY <2>1, <2>3
  <2> QED BY <1>2, <1>3, <2>1, <2>4
<1> HIDE DEF R
<1>5. /\ log'[c] \in Seq(Result) /\ Len(log'[c]) = Len(log[c]) + n
      /\ DOMAIN log[c] = 1..Len(log[c]) /\ DOMAIN log'[c] = 1..(Len(log[c]) + n)
      /\ Len(log[c]) \in Nat
      /\ \A j \in 1..Len(log[c]) : log'[c][j] = log[c][j]
      /\ \A k \in 1..n : log'[c][Len(log[c]) + k] = R[k]
  <2>1. R \in Seq(Result) /\ Len(R) = n /\ n \in Nat
    BY <1>4
  <2>2. ASSUME NEW l \in Seq(Result)
        PROVE  /\ l \o R \in Seq(Result) /\ Len(l \o R) = Len(l) + n
               /\ DOMAIN l = 1..Len(l) /\ DOMAIN (l \o R) = 1..(Len(l) + n)
               /\ Len(l) \in Nat
               /\ \A j \in 1..Len(l) : (l \o R)[j] = l[j]
               /\ \A k \in 1..n : (l \o R)[Len(l) + k] = R[k]
    BY <2>1
  <2> QED BY <1>1, <1>2, <2>2
<1>6. \A j \in DOMAIN log'[c] :
         \/ j \in DOMAIN log[c] /\ log'[c][j] = log[c][j]
         \/ j \notin DOMAIN log[c] /\ log'[c][j].stage = stage[c]
            /\ log'[c][j].step = j - Len(log[c]) /\ log'[c][j].step \in DOMAIN StepsOf(stage[c])
  <2> TAKE j \in DOMAIN log'[c]
  <2>1. CASE j <= Len(log[c])
    BY <1>5, <2>1
  <2>2. CASE ~(j <= Len(log[c]))
    <3>1. j - Len(log[c]) \in 1..n /\ j = Len(log[c]) + (j - Len(log[c]))
          /\ j \notin DOMAIN log[c]
      BY <1>4, <1>5, <2>2
    <3>2. log'[c][j] = R[j - Len(log[c])]
      BY <1>5, <3>1
    <3> QED BY <1>4, <3>1, <3>2
  <2> QED BY <2>1, <2>2
<1>7. Types'
  <2>1. todo' \in [Call -> Seq(Result)] /\ log' \in [Call -> Seq(Result)]
        /\ at' \in [Call -> {"idle", "load", "stage", "report", "verdict", "done"}]
    BY <1>0, <1>1, <1>4, <1>5 DEF Types, EndStage
  <2> QED BY <1>0, <1>1, <2>1 DEF Types
<1>8. OtherCalls(c)
  BY <1>0, <1>1 DEF Types, EndStage, OtherCalls
<1>9. Places(c)' /\ InOrder(c)'
  BY <1>0, <1>1 DEF CallInv, Places, InOrder, StepsOf
<1>10. Logged(c)'
  <2>1. \A j \in DOMAIN log[c] :
           /\ log[c][j].stage \in DOMAIN flow.stages
           /\ log[c][j].step \in DOMAIN StepsOf(log[c][j].stage)
           /\ log[c][j].stage < stage[c] /\ log[c][j].stage \in Nat
    <3>1. \A j \in DOMAIN log[c] : log[c][j] \in Result
      BY <1>2
    <3> QED BY <1>0, <1>1, <3>1 DEF CallInv, Logged, Result
  <2>2. \A j \in DOMAIN log'[c] : /\ log'[c][j].stage \in DOMAIN flow.stages
                                  /\ log'[c][j].step \in DOMAIN StepsOf(log'[c][j].stage)
                                  /\ log'[c][j].stage <= stage[c]
    BY <1>2, <1>6, <2>1
  <2>3. ASSUME NEW i \in DOMAIN log'[c], NEW j \in DOMAIN log'[c], i # j
        PROVE  StepOfResult(log'[c][i]) # StepOfResult(log'[c][j])
    <3>1. CASE i \in DOMAIN log[c] /\ j \in DOMAIN log[c]
      <4>1. StepOfResult(log[c][i]) # StepOfResult(log[c][j])
        BY <1>0, <2>3, <3>1 DEF CallInv, Logged
      <4> QED BY <1>6, <3>1, <4>1
    <3>2. CASE i \notin DOMAIN log[c] /\ j \notin DOMAIN log[c]
      <4>1. log'[c][i].step = i - Len(log[c]) /\ log'[c][j].step = j - Len(log[c])
        BY <1>6, <3>2
      <4>2. log'[c][i].step # log'[c][j].step
        BY <1>5, <2>3, <4>1
      <4> QED BY <4>2 DEF StepOfResult
    <3>3. CASE (i \in DOMAIN log[c]) # (j \in DOMAIN log[c])
      <4>1. log'[c][i].stage # log'[c][j].stage
        BY <1>2, <1>6, <2>1, <3>3
      <4> QED BY <4>1 DEF StepOfResult
    <3> QED BY <3>1, <3>2, <3>3
  <2>4. log'[c] # <<>>
    BY <1>4, <1>5
  <2> QED BY <1>1, <2>2, <2>3, <2>4 DEF Logged, StepsOf, StepOfResult
<1>11. Earned(c)'
  <2>1. ToSet(log'[c]) = ToSet(log[c]) \cup ToSet(R)
    BY <1>1, <1>2, <1>4, Members
  <2>2. \A i : StagePassed(c, i) => StagePassed(c, i)'
    BY <1>1, <2>1 DEF StagePassed, StepsOf
  <2>3. ~FailureAhead(c)' => StagePassed(c, stage[c])'
    <3> SUFFICES ASSUME \A r \in ToSet(R) : ~IsFailure(r),
                        NEW k \in DOMAIN StepsOf(stage[c]), StepsOf(stage[c])[k].required
                 PROVE  [stage |-> stage[c], step |-> k, status |-> "pass"] \in ToSet(R)
      BY <1>1, <2>1 DEF FailureAhead, StagePassed, IsFailure, Required, StepsOf
    <3>1. \A j \in 1..n : StepsOf(stage[c])[j].required => run[c][j] = "pass"
      <4> TAKE j \in 1..n
      <4>1. R[j] \in ToSet(R)
        BY <1>4 DEF ToSet
      <4>2. ~IsFailure(R[j])
        BY <4>1
      <4> QED BY <1>4, <4>2 DEF IsFailure, Required
    <3>2. n = Len(run[c])
      BY <1>3, <3>1 DEF FailedRequired, Current
    <3>3. k \in 1..n
      BY <1>2, <3>2
    <3>4. R[k] = [stage |-> stage[c], step |-> k, status |-> "pass"]
      BY <1>3, <3>1, <3>3
    <3> QED BY <1>4, <3>3, <3>4 DEF ToSet
  <2>4. passed[c] => \A i \in DOMAIN flow.stages : i < stage[c] => StagePassed(c, i)
    BY <1>0, <1>1 DEF CallInv, Earned
  <2> QED BY <1>1, <2>2, <2>3, <2>4 DEF Earned
<1>12. Told(c)' /\ Explained(c)'
  <2>1. Sent(c)' = Sent(c) /\ Sent(c) \in Seq(Result) /\ got[c] \in Seq(Result)
    BY <1>0, <1>1 DEF Sent, Types
  <2>2. client[c] # "gone" => Sent(c) = log[c]
    <3>1. Sent(c) \o <<>> = Sent(c)
      BY <2>1
    <3> QED BY <1>0, <1>1, <1>2, <3>1 DEF CallInv, Told
  <2>3. Told(c)'
    <3>1. CASE client[c] = "gone"
      <4>1. IsPrefix(got[c], log[c])
        BY <1>0, <3>1 DEF CallInv, Told
      <4>2. IsPrefix(got[c], log[c] \o R)
        BY <1>2, <1>4, <2>1, <4>1, PrefixGrows
      <4> QED BY <1>1, <3>1, <4>2 DEF Told
    <3>2. CASE client[c] # "gone"
      <4>1. IsPrefix(Sent(c), Sent(c) \o R)
        BY <1>4, <2>1, FrontIsPrefix
      <4> QED BY <1>1, <2>1, <2>2, <3>2, <4>1 DEF Told
    <3> QED BY <3>1, <3>2
  <2>4. \A r : IsFailure(r)' <=> IsFailure(r)
    BY <1>1 DEF IsFailure, Required, StepsOf
  <2>5. Explained(c)'
    BY <1>0, <1>1, <2>1, <2>4 DEF CallInv, Explained
  <2> QED BY <2>3, <2>5
<1>13. Concluded(c)'
  BY <1>0, <1>1 DEF CallInv, Concluded
<1> QED
  BY <1>1, <1>7, <1>8, <1>9, <1>10, <1>11, <1>12, <1>13, StepOfOne DEF CallInv
\* A result counts, and is sent.
LEMMA ReportStep ==
    ASSUME VerifyInv, NEW c \in Call, Report(c) PROVE VerifyInv'
<1>0. Types /\ CallInv(c)
  BY DEF VerifyInv
<1> DEFINE h == Head(todo[c])
<1>1. /\ at[c] = "report" /\ todo[c] # <<>> /\ Len(queue[c]) < RunnerCap
      /\ todo'[c] = Tail(todo[c]) /\ queue'[c] = Append(queue[c], h)
      /\ passed'[c] <=> passed[c] /\ ~IsFailure(h)
      /\ flow' = flow /\ at' = at /\ stage' = stage /\ run' = run /\ log' = log
      /\ cs' = cs /\ by' = by /\ stream' = stream /\ client' = client /\ got' = got
  BY <1>0 DEF Types, Report, given, changeset
<1>2. /\ todo[c] \in Seq(Result) /\ queue[c] \in Seq(Result) /\ stream[c] \in Seq(Result)
      /\ got[c] \in Seq(Result) /\ log[c] \in Seq(Result)
  BY <1>0 DEF Types
<1>3. /\ h \in Result /\ Tail(todo[c]) \in Seq(Result) /\ Append(queue[c], h) \in Seq(Result)
      /\ Len(Append(queue[c], h)) = Len(queue[c]) + 1 /\ Len(queue[c]) \in Nat
  BY <1>1, <1>2
<1>4. ToSet(todo[c]) = {h} \cup ToSet(Tail(todo[c]))
  <2>1. todo[c] = <<h>> \o Tail(todo[c])
    BY <1>1, <1>2
  <2>2. <<h>> \in Seq(Result) /\ ToSet(<<h>>) = {h}
    BY <1>3 DEF ToSet
  <2>3. ToSet(<<h>> \o Tail(todo[c])) = ToSet(<<h>>) \cup ToSet(Tail(todo[c]))
    <3>1. \A s, t \in Seq(Result) : ToSet(s \o t) = ToSet(s) \cup ToSet(t)
      BY Members
    <3> QED BY <1>3, <2>2, <3>1, Zenon
  <2> QED BY <2>1, <2>2, <2>3
<1>5. Sent(c)' = Append(Sent(c), h) /\ Sent(c) \in Seq(Result) /\ Sent(c)' \in Seq(Result)
  <2>1. ASSUME NEW s \in Seq(Result), NEW t \in Seq(Result), NEW r \in Result
        PROVE  s \o Append(t, r) = Append(s \o t, r) /\ s \o t \in Seq(Result)
               /\ Append(s \o t, r) \in Seq(Result)
    OBVIOUS
  <2>2. got[c] \o stream[c] \in Seq(Result)
    BY <1>2
  <2>3. (got[c] \o stream[c]) \o Append(queue[c], h) = Append((got[c] \o stream[c]) \o queue[c], h)
        /\ (got[c] \o stream[c]) \o queue[c] \in Seq(Result)
        /\ Append((got[c] \o stream[c]) \o queue[c], h) \in Seq(Result)
    BY <1>2, <1>3, <2>1, <2>2, Zenon
  <2> HIDE DEF h
  <2> QED BY <1>1, <2>3 DEF Sent
<1>6. ToSet(Sent(c)') = ToSet(Sent(c)) \cup {h}
  <2>1. ASSUME NEW s \in Seq(Result), NEW r \in Result
        PROVE  ToSet(Append(s, r)) = ToSet(s) \cup {r}
    <3>1. <<r>> \in Seq(Result) /\ ToSet(<<r>>) = {r} /\ Append(s, r) = s \o <<r>>
      BY DEF ToSet
    <3>2. \A a, b \in Seq(Result) : ToSet(a \o b) = ToSet(a) \cup ToSet(b)
      BY Members
    <3> QED BY <3>1, <3>2, Zenon
  <2> QED BY <1>3, <1>5, <2>1, Zenon
<1>7. Append(Sent(c), h) \o Tail(todo[c]) = Sent(c) \o todo[c]
  <2>1. ASSUME NEW s \in Seq(Result), NEW t \in Seq(Result), t # <<>>
        PROVE  Append(s, Head(t)) \o Tail(t) = s \o t
    BY <2>1, HandedOn
  <2> QED BY <1>1, <1>2, <1>5, <2>1, Zenon
<1> HIDE DEF h
<1>8. Types'
  <2>1. todo' \in [Call -> Seq(Result)] /\ queue' \in [Call -> Seq(Result)]
    BY <1>0, <1>3 DEF Types, Report, h
  <2>2. passed' \in [Call -> BOOLEAN]
    BY <1>0 DEF Types, Report
  <2> QED BY <1>0, <1>1, <2>1, <2>2 DEF Types
<1>9. OtherCalls(c)
  BY <1>0, <1>1 DEF Types, Report, OtherCalls
<1>10. Places(c)'
  <2>1. Len(queue'[c]) <= RunnerCap
    BY <1>1, <1>3, CapAssumption
  <2> QED BY <1>0, <1>1, <2>1 DEF CallInv, Places, StepsOf
<1>11. InOrder(c)' /\ Logged(c)'
  <2>1. InOrder(c)'
    BY <1>1 DEF InOrder
  <2> QED BY <1>0, <1>1, <2>1 DEF CallInv, Logged, StepsOf, StepOfResult
<1>12. Earned(c)'
  <2>1. \A i : StagePassed(c, i)' <=> StagePassed(c, i)
    BY <1>1 DEF StagePassed, StepsOf
  <2>2. passed'[c] => (FailureAhead(c)' <=> FailureAhead(c))
    BY <1>1, <1>4 DEF FailureAhead, IsFailure, Required, StepsOf
  <2> QED BY <1>0, <1>1, <2>1, <2>2 DEF CallInv, Earned
<1>13. Told(c)'
  <2>1. CASE client[c] = "gone"
    BY <1>0, <1>1, <2>1 DEF CallInv, Told
  <2>2. CASE client[c] # "gone"
    <3>1. Sent(c)' \o todo'[c] = log[c]
      BY <1>0, <1>1, <1>5, <1>7, <2>2 DEF CallInv, Told
    <3>2. IsPrefix(Sent(c)', Sent(c)' \o todo'[c])
      BY <1>1, <1>3, <1>5, FrontIsPrefix
    <3> QED BY <1>1, <2>2, <3>1, <3>2 DEF Told
  <2> QED BY <2>1, <2>2
<1>14. Explained(c)'
  <2>1. \A r : IsFailure(r)' <=> IsFailure(r)
    BY <1>1 DEF IsFailure, Required, StepsOf
  <2>2. client[c] # "gone" =>
          /\ passed[c] => \A r \in ToSet(Sent(c)) : ~IsFailure(r)
          /\ ~passed[c] => \E r \in ToSet(Sent(c)) : IsFailure(r)
    BY <1>0, <1>1 DEF CallInv, Explained
  <2> QED BY <1>1, <1>6, <2>1, <2>2 DEF Explained
<1>15. Concluded(c)'
  BY <1>0, <1>1 DEF CallInv, Concluded
<1> QED
  BY <1>1, <1>8, <1>9, <1>10, <1>11, <1>12, <1>13, <1>14, <1>15, StepOfOne DEF CallInv

\* The next stage, or the end of the run.
LEMMA NextStageStep ==
    ASSUME VerifyInv, NEW c \in Call, NextStage(c) PROVE VerifyInv'
<1>0. Types /\ CallInv(c)
  BY DEF VerifyInv
<1>1. /\ at[c] = "report" /\ todo[c] = <<>>
      /\ flow' = flow /\ todo' = todo /\ passed' = passed /\ log' = log
      /\ cs' = cs /\ by' = by
      /\ queue' = queue /\ stream' = stream /\ client' = client /\ got' = got
  BY DEF NextStage, given, changeset, channels
<1>2. /\ stage[c] \in DOMAIN flow.stages /\ stage[c] \in Nat
      /\ DOMAIN flow.stages = 1..Len(flow.stages) /\ Len(flow.stages) \in Nat
      /\ \A i \in DOMAIN flow.stages : StepsOf(i) # <<>>
  BY <1>0, <1>1 DEF CallInv, Places, Types, IsStageList, IsList
<1>3. OtherCalls(c)
  BY <1>0, <1>1 DEF Types, NextStage, OtherCalls
<1>4. \A i : StagePassed(c, i)' <=> StagePassed(c, i)
  BY <1>1 DEF StagePassed, StepsOf
<1>5. passed[c] => \A i \in DOMAIN flow.stages : i <= stage[c] => StagePassed(c, i)
  <2>1. ~FailureAhead(c)
    BY <1>1 DEF FailureAhead, ToSet
  <2> QED BY <1>0, <1>1, <1>2, <2>1 DEF CallInv, Earned
<1>6. Sent(c)' = Sent(c)
  BY <1>1 DEF Sent
<1>7. at'[c] # "done" => Told(c)' /\ Explained(c)'
  <2>1. Told(c)'
    BY <1>0, <1>1, <1>6 DEF CallInv, Told
  <2>2. \A r : IsFailure(r)' <=> IsFailure(r)
    BY <1>1 DEF IsFailure, Required, StepsOf
  <2>3. Explained(c)'
    BY <1>0, <1>1, <1>6, <2>2 DEF CallInv, Explained
  <2> QED BY <2>1, <2>3
<1>8. Concluded(c)'
  BY <1>0, <1>1 DEF CallInv, Concluded
<1>9. log[c] # <<>> /\ \A j \in DOMAIN log[c] : log[c][j].stage <= stage[c]
  BY <1>0, <1>1 DEF CallInv, Logged
<1>10. CASE stage[c] < Len(flow.stages)
  <2>1. /\ at'[c] = "stage" /\ stage'[c] = stage[c] + 1 /\ run'[c] = Fresh(stage[c] + 1)
        /\ stage[c] + 1 \in DOMAIN flow.stages
    BY <1>0, <1>2, <1>10 DEF Types, NextStage
  <2>2. Types'
    <3>1. Fresh(stage[c] + 1) \in Seq(Status \cup {"wait"})
      BY <1>0, <2>1, FreshStage
    <3>2. /\ run' \in [Call -> Seq(Status \cup {"wait"})]
          /\ at' \in [Call -> {"idle", "load", "stage", "report", "verdict", "done"}]
          /\ stage' \in [Call -> Nat]
      <4>1. /\ at' = [at EXCEPT ![c] = "stage"] /\ stage' = [stage EXCEPT ![c] = @ + 1]
            /\ run' = [run EXCEPT ![c] = Fresh(stage[c] + 1)]
        BY <1>10 DEF NextStage
      <4>2. stage[c] + 1 \in Nat
        BY <1>2
      <4> QED BY <1>0, <3>1, <4>1, <4>2 DEF Types
    <3> QED BY <1>0, <1>1, <3>2 DEF Types
  <2>3. InOrder(c)' /\ DOMAIN run'[c] = DOMAIN StepsOf(stage'[c])
    BY <1>0, <1>1, <2>1, StageBegins
  <2>4. Places(c)'
    BY <1>0, <1>1, <1>2, <2>1, <2>3 DEF CallInv, Places, StepsOf
  <2>5. Logged(c)'
    <3>1. \A j \in DOMAIN log[c] : log[c][j].stage < stage[c] + 1
      <4>1. \A j \in DOMAIN log[c] : log[c][j].stage \in Nat
        <5>1. log[c] \in Seq(Result)
          BY <1>0 DEF Types
        <5>2. \A j \in DOMAIN log[c] : log[c][j] \in Result
          BY <5>1
        <5> QED BY <5>2 DEF Result
      <4> QED BY <1>2, <1>9, <4>1
    <3> QED BY <1>0, <1>1, <1>9, <2>1, <3>1 DEF CallInv, Logged, StepsOf, StepOfResult
  <2>6. Earned(c)'
    <3>1. passed[c] => \A i \in DOMAIN flow.stages : i < stage[c] + 1 => StagePassed(c, i)
      BY <1>2, <1>5
    <3> QED BY <1>1, <1>4, <2>1, <3>1 DEF Earned
  <2> QED
    BY <1>1, <1>3, <1>7, <1>8, <2>1, <2>2, <2>3, <2>4, <2>5, <2>6, StepOfOne DEF CallInv
<1>11. CASE ~(stage[c] < Len(flow.stages))
  <2>1. at'[c] = "verdict" /\ stage' = stage
    BY <1>0, <1>11 DEF Types, NextStage
  <2>2. Types'
    <3>1. /\ run' \in [Call -> Seq(Status \cup {"wait"})]
          /\ at' \in [Call -> {"idle", "load", "stage", "report", "verdict", "done"}]
      <4>1. at' = [at EXCEPT ![c] = "verdict"] /\ run' = [run EXCEPT ![c] = <<>>]
        BY <1>11 DEF NextStage
      <4>2. <<>> \in Seq(Status \cup {"wait"})
        OBVIOUS
      <4> QED BY <1>0, <4>1, <4>2 DEF Types
    <3> QED BY <1>0, <1>1, <2>1, <3>1 DEF Types
  <2>3. Places(c)' /\ InOrder(c)'
    BY <1>0, <1>1, <2>1 DEF CallInv, Places, InOrder, StepsOf
  <2>4. Logged(c)'
    BY <1>0, <1>1, <1>9, <2>1 DEF CallInv, Logged, StepsOf, StepOfResult
  <2>5. Earned(c)'
    <3>1. passed[c] => \A i \in DOMAIN flow.stages : StagePassed(c, i)
      BY <1>2, <1>5, <1>11
    <3> QED BY <1>1, <1>4, <2>1, <3>1 DEF Earned
  <2> QED
    BY <1>1, <1>3, <1>7, <1>8, <2>1, <2>2, <2>3, <2>4, <2>5, StepOfOne DEF CallInv
<1> QED BY <1>10, <1>11

-----------------------------------------------------------------------------
(* The theorems.                                                           *)

\* The invariant holds throughout.
THEOREM VerifyHolds == Spec => []VerifyInv
<1>1. VerifyInv /\ [Next]_vars => VerifyInv'
  <2> SUFFICES ASSUME VerifyInv, [Next]_vars PROVE VerifyInv'
    OBVIOUS
  <2>1. ASSUME NEW c \in Call, PrepareFails(c) \/ WorkflowTimeout(c) PROVE VerifyInv'
    BY <2>1, CutOff DEF PrepareFails, WorkflowTimeout
  <2>2. ASSUME NEW c \in Call, RunnerStep(c), ~PrepareFails(c) PROVE VerifyInv'
    BY <2>2, AutoApproveStep, StartStep, EndStageStep, ReportStep, NextStageStep DEF RunnerStep
  <2>3. ASSUME NEW c \in Call, NEW k \in DOMAIN run[c], FinishStep(c, k) PROVE VerifyInv'
    BY <2>3, FinishLemma
  <2>4. ASSUME NEW c \in Call,
               \/ BeginVerify(c) \/ Forward(c) \/ Conclude(c)
               \/ Receive(c) \/ EndOfStream(c) \/ Leave(c)
        PROVE  VerifyInv'
    BY <2>4, BeginStep, ForwardStep, ConcludeStep, ReceiveStep, EndOfStreamStep, LeaveStep
  <2>5. CASE Submit \/ Approve \/ Merge
    BY <2>5, OperatorStep
  <2>6. CASE UNCHANGED vars
    <3>1. /\ flow' = flow /\ cs' = cs /\ by' = by
          /\ at' = at /\ stage' = stage /\ run' = run /\ todo' = todo /\ passed' = passed
          /\ log' = log /\ queue' = queue /\ stream' = stream /\ client' = client /\ got' = got
      BY <2>6 DEF vars, given, changeset, runner, channels
    <3>2. Types'
      BY <3>1 DEF VerifyInv, Types
    <3>3. ASSUME NEW c \in Call PROVE CallInv(c)'
      BY <3>1, CallFrame DEF VerifyInv
    <3> QED BY <3>2, <3>3 DEF VerifyInv
  <2> QED BY <2>1, <2>2, <2>3, <2>4, <2>5, <2>6 DEF Next
<1> QED BY <1>1, VerifyInit, PTL DEF Spec

\* A verdict of approval is earned by every required step of every stage, and a
\* client that has read its stream to the end has seen the result of every step
\* that ran (scheduler.rs, verify.rs).
THEOREM ApprovalsAreSound == Spec => []ApprovalIsSound
<1>1. VerifyInv => ApprovalIsSound
  <2> SUFFICES ASSUME VerifyInv PROVE ApprovalIsSound
    OBVIOUS
  <2>1. ASSUME cs = "approved", by # Operator PROVE EveryRequiredPassed(by)
    <3>1. by \in Call
      BY <2>1 DEF VerifyInv, Types
    <3>2. at[by] = "done" /\ passed[by]
      BY <2>1, <3>1 DEF VerifyInv, CallInv, Concluded
    <3>3. \A i \in DOMAIN flow.stages : StagePassed(by, i)
      BY <3>1, <3>2 DEF VerifyInv, CallInv, Earned
    <3> QED BY <3>3 DEF StagePassed, EveryRequiredPassed
  <2>2. ASSUME NEW c \in Call, client[c] = "ended", passed[c] PROVE got[c] = log[c]
    <3>1. stream[c] = <<>> /\ queue[c] = <<>> /\ todo[c] = <<>>
      BY <2>2 DEF VerifyInv, CallInv, Places
    <3>2. got[c] \in Seq(Result) /\ Sent(c) \o todo[c] = log[c]
      BY <2>2 DEF VerifyInv, Types, CallInv, Told
    <3>3. \A s \in Seq(Result) : s \o <<>> = s
      OBVIOUS
    <3> QED BY <3>1, <3>2, <3>3, Zenon DEF Sent
  <2> QED BY <2>1, <2>2 DEF ApprovalIsSound, ApprovedIsEarned, ApprovalIsReported
<1> QED BY <1>1, VerifyHolds, PTL

\* The client is told of the run that was: in order, with nothing twice and
\* nothing left out in between; and when the summary of dk_verify is not the
\* verdict, the reason is one of the known ones (verify.rs, server.rs).
THEOREM ReportsAreSound == Spec => []ReportIsSound
<1>1. VerifyInv => TypeOK
  <2> SUFFICES ASSUME VerifyInv, NEW c \in Call
               PROVE  /\ at[c] \in {"stage", "report"} => stage[c] \in DOMAIN flow.stages
                      /\ ToSet(queue[c] \o stream[c] \o got[c] \o todo[c] \o log[c])
                           \subseteq Result
                      /\ Len(queue[c]) <= RunnerCap /\ Len(stream[c]) <= StreamCap
    BY DEF VerifyInv, Types, TypeOK
  <2>0. \A s \in Seq(Result) : ToSet(s) \subseteq Result
    BY DEF ToSet
  <2>1. queue[c] \o stream[c] \o got[c] \o todo[c] \o log[c] \in Seq(Result)
    BY DEF VerifyInv, Types
  <2>2. ToSet(queue[c] \o stream[c] \o got[c] \o todo[c] \o log[c]) \subseteq Result
    BY <2>0, <2>1, Zenon
  <2> QED BY <2>2 DEF VerifyInv, CallInv, Places
<1>2. VerifyInv => ReportIsTheRun
  <2> SUFFICES ASSUME VerifyInv, NEW c \in Call
               PROVE  /\ IsPrefix(got[c] \o stream[c], log[c])
                      /\ client[c] # "gone" => IsPrefix(Sent(c), log[c])
    BY DEF ReportIsTheRun, Sent
  <2>1. /\ got[c] \in Seq(Result) /\ stream[c] \in Seq(Result) /\ queue[c] \in Seq(Result)
        /\ log[c] \in Seq(Result) /\ got[c] \o stream[c] \in Seq(Result)
    BY DEF VerifyInv, Types
  <2>2. CASE client[c] = "gone"
    <3>1. stream[c] = <<>> /\ IsPrefix(got[c], log[c])
      BY <2>2 DEF VerifyInv, CallInv, Places, Told
    <3>2. got[c] \o <<>> = got[c]
      BY <2>1
    <3> QED BY <2>2, <3>1, <3>2
  <2>3. CASE client[c] # "gone"
    <3>1. IsPrefix(Sent(c), log[c])
      BY <2>3 DEF VerifyInv, CallInv, Told
    <3>2. IsPrefix((got[c] \o stream[c]) \o queue[c], log[c])
      BY <3>1 DEF Sent
    <3> QED BY <2>1, <3>1, <3>2, PrefixOfParts
  <2> QED BY <2>2, <2>3
<1>3. VerifyInv => OverallIsExplained
  <2> SUFFICES ASSUME VerifyInv, NEW c \in Call, client[c] = "ended", by = c
               PROVE  /\ (OverallPassed(c) /\ cs = "rejected") =>
                           \/ \E r \in ToSet(got[c]) : Required(r) /\ r.status \in {"timeout", "skip"}
                           \/ \E i \in DOMAIN flow.stages : \E k \in DOMAIN StepsOf(i) :
                                  \A r \in ToSet(got[c]) : <<r.stage, r.step>> # <<i, k>>
                      /\ (~OverallPassed(c) /\ cs = "approved") =>
                           \/ flow.stages = <<>>
                           \/ \E r \in ToSet(got[c]) : ~Required(r) /\ r.status = "fail"
    BY DEF OverallIsExplained
  <2>1. /\ at[c] = "done" /\ cs = (IF passed[c] THEN "approved" ELSE "rejected")
        /\ stream[c] = <<>> /\ queue[c] = <<>> /\ todo[c] = <<>>
    BY DEF VerifyInv, CallInv, Concluded, Places
  <2>2. Sent(c) = got[c] /\ got[c] \in Seq(Result) /\ Sent(c) \o <<>> = Sent(c)
    <3>1. got[c] \in Seq(Result)
      BY DEF VerifyInv, Types
    <3>2. \A s \in Seq(Result) : s \o <<>> = s
      OBVIOUS
    <3> QED BY <2>1, <3>1, <3>2, Zenon DEF Sent
  <2>3. \A r \in ToSet(got[c]) : r.status \in Status
    <3>1. \A s \in Seq(Result) : ToSet(s) \subseteq Result
      BY DEF ToSet
    <3>2. \A r \in ToSet(got[c]) : r \in Result
      BY <2>2, <3>1, Zenon
    <3> QED BY <3>2 DEF Result
  <2>4. ASSUME OverallPassed(c), ~passed[c]
        PROVE  \/ \E r \in ToSet(got[c]) : Required(r) /\ r.status \in {"timeout", "skip"}
               \/ \E i \in DOMAIN flow.stages : \E k \in DOMAIN StepsOf(i) :
                      \A r \in ToSet(got[c]) : <<r.stage, r.step>> # <<i, k>>
    <3>1. (\E r \in ToSet(got[c]) : IsFailure(r)) \/ got[c] = <<>> \/ Missing(c)
      BY <2>2, <2>4 DEF VerifyInv, CallInv, Explained
    <3>2. CASE \E r \in ToSet(got[c]) : IsFailure(r)
      BY <2>3, <2>4, <3>2 DEF OverallPassed, IsFailure, Status
    <3>3. CASE Missing(c)
      BY <2>2, <3>3 DEF Missing, StepOfResult
    <3> QED BY <2>4, <3>1, <3>2, <3>3 DEF OverallPassed
  <2>5. ASSUME ~OverallPassed(c), passed[c]
        PROVE  \/ flow.stages = <<>>
               \/ \E r \in ToSet(got[c]) : ~Required(r) /\ r.status = "fail"
    <3>1. log[c] = got[c]
      BY <2>1, <2>2, <2>5 DEF VerifyInv, CallInv, Told
    <3>2. CASE got[c] = <<>>
      BY <2>1, <2>5, <3>1, <3>2 DEF VerifyInv, CallInv, Logged
    <3>3. CASE \E r \in ToSet(got[c]) : r.status = "fail"
      <4>1. \A r \in ToSet(got[c]) : ~IsFailure(r)
        BY <2>2, <2>5 DEF VerifyInv, CallInv, Explained
      <4> QED BY <3>3, <4>1 DEF IsFailure
    <3> QED BY <2>5, <3>2, <3>3 DEF OverallPassed
  <2> QED BY <2>1, <2>4, <2>5
<1> QED BY <1>1, <1>2, <1>3, VerifyHolds, PTL DEF ReportIsSound

=============================================================================
