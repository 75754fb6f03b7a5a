----------------------------- MODULE ToolCalls -----------------------------
(***************************************************************************)
(* What an agent is told about its session.  The agent calls the engine    *)
(* through one of six clients: the dk-mcp bridge, the dk command line, the *)
(* Rust SDK, the SDK's programmatic tool calls, the Python SDK, or the     *)
(* engine's own tool operations.  Each client turns the engine's answer    *)
(* into words of its own, and dk-mcp also decides from it whether it still *)
(* lists the session.  Calls overlap, an answer may be lost after the      *)
(* engine did its work, and the engine strands, sweeps and expires         *)
(* sessions by itself.                                                     *)
(*                                                                         *)
(* One session, whose handlers take effect at once: how their steps        *)
(* interleave is the subject of SymbolLocks, Verification and              *)
(* WorkspaceMerge.  Other sessions appear as the locks, the newer          *)
(* changesets and the merges they put in this one's way.                   *)
(***************************************************************************)
EXTENDS Integers, FiniteSets

CONSTANTS
    Path,
    BasePath,    \* the paths in the base commit, a subset of Path
    Call         \* the calls the agent may have in flight

VARIABLES
    client,      \* what the agent calls the engine through
    ses,         \* the session in the engine
    landed,      \* the paths its changeset has put on main
    joined,      \* the agent was told that it is connected
    table,       \* dk-mcp lists the session
    known,       \* the paths the agent was told are written
    call,        \* the calls in flight
    lost         \* an answer that work was merged or a session over went missing (history)

vars == <<client, ses, landed, joined, table, known, call, lost>>

Common == {"connect", "context", "read", "write", "list", "status", "submit", "verify", "merge"}

Tools == [
    mcp |-> Common \cup {"pre-submit", "review", "push", "approve", "resolve", "close", "abandon"},
    cli |-> Common \cup {"pre-submit", "review", "approve"},
    sdk |-> Common \cup {"pre-submit", "review", "push", "approve", "resolve", "close"},
    programmatic |-> Common,
    python |-> {"connect", "context", "read", "write", "status", "submit"},
    ops |-> Common \cup {"finalize"}]

\* A call names paths: those to read or write, or the inline changes of a submit.
Change == {"none", "add", "modify", "delete"}
Named(k) == {p \in Path : k.arg[p] # "none"}
Nothing == [p \in Path |-> "none"]
OnePath == {[Nothing EXCEPT ![p] = "modify"] : p \in Path}
Additions == [Path -> {"none", "add"}]
Changes == [Path -> Change]
Arguments(tool) ==
    CASE tool \in {"read", "write"} -> OnePath
      [] tool = "resolve" -> OnePath \cup {Nothing}
      [] tool = "submit" /\ client = "cli" -> Additions
      [] tool = "submit" /\ client \in {"sdk", "programmatic", "python"} -> Changes
      [] OTHER -> {Nothing}

Step == {"pass", "fail", "optional fail", "timeout"}
Effects == {"overlay", "rows", "status", "commit", "end"}

Idle == [at |-> "idle", tool |-> "none", arg |-> Nothing, knew |-> {}, answer |-> "none",
         shown |-> {}, steps |-> {}, did |-> {}, after |-> "none"]

Status == {"none", "draft", "submitted", "verifying", "approved", "rejected", "merged"}
Life == {"none", "live", "stranded", "abandoned", "swept", "closed", "expired"}

TypeOK ==
    /\ client \in DOMAIN Tools
    /\ ses.life \in Life /\ ses.status \in Status
    /\ {ses.overlay, ses.rows, landed, known} \subseteq SUBSET Path
    /\ {joined, table, lost} \subseteq BOOLEAN
    /\ \A c \in Call :
        /\ call[c].at \in {"idle", "sent", "answered"}
        /\ call[c].tool \in Tools[client] \cup {"none"}
        /\ call[c].arg \in [Path -> Change]
        /\ call[c].knew \cup call[c].shown \subseteq Path
        /\ call[c].did \subseteq Effects /\ call[c].steps \subseteq Step
        /\ call[c].after \in Status

Init ==
    /\ client \in DOMAIN Tools
    /\ ses = [life |-> "none", status |-> "none", overlay |-> {}, rows |-> {}]
    /\ landed = {} /\ joined = FALSE /\ table = FALSE /\ known = {} /\ lost = FALSE
    /\ call = [c \in Call |-> Idle]

-----------------------------------------------------------------------------
(* The engine.  An outcome is the session after the call, what the call    *)
(* put on main, and the answer; a handler is the set of its outcomes.      *)

Answered(e, a) == [ses |-> e, lands |-> {}, answer |-> a, shown |-> {}, steps |-> {}]
Says(a) == Answered(ses, a)

\* validate_session: the session manager knows the session.
Valid == ses.life \notin {"none", "closed", "expired"}

\* The workspace is in memory.
Live == ses.life = "live"

Refused == Says("refused")

Connect ==
    {Says("error"), Answered([ses EXCEPT !.life = "live", !.status = "draft"], "connected")}

\* handle_file_write: a lock or a newer changeset is in the way, or the file
\* is written; then only a warning is logged when its row is not.
FileWrite(ps) ==
    {Says("locked"), Says("stale"), Says("error")}
        \cup {Answered([ses EXCEPT !.overlay = @ \cup ps, !.rows = @ \cup rs], "hash") :
                rs \in {{}, ps}}

\* The inline changes go to the overlay one by one, the whole overlay to the
\* changeset.
Applied(w) == [ses EXCEPT !.overlay = @ \cup w, !.rows = @ \cup ses.overlay \cup w]
Sent(w) == [Applied(w) EXCEPT !.status = "submitted"]

\* handle_submit: only after that an error is answered.
Submit(arg) ==
    LET fit == {p \in Path : \/ arg[p] = "add"
                             \/ arg[p] = "modify" /\ p \in BasePath \cup ses.overlay}
        bad == {p \in Path : arg[p] = "modify"} \ fit
        deletes == {p \in Path : arg[p] = "delete"}
    IN  IF ses.overlay \cup fit \cup bad \cup deletes = {} THEN {Says("rejected")}
        ELSE {Answered(Applied(w), a) : w \in SUBSET fit, a \in {"rejected", "error"}}
                \cup IF bad = {} THEN {Answered(Sent(fit), a) : a \in {"accepted", "error"}}
                     ELSE {}

\* The Python SDK sends no changeset id, and the handler asks for one first.
SubmitUnnamed == {Refused}

\* The verdict on a run with these steps, of which at most one is taken here;
\* the runner may also fail itself.
Runs == {s \in SUBSET Step : Cardinality(s) <= 1}
Verdict(s) == IF s \cap {"fail", "timeout"} = {} THEN "approved" ELSE "rejected"

\* handle_verify: the steps are streamed, the verdict is recorded.
Verify ==
    {[Answered([ses EXCEPT !.status = Verdict(s)], "ran") EXCEPT !.steps = s] :
        s \in Runs}
        \cup {Answered([ses EXCEPT !.status = "rejected"], "ran")}

\* handle_approve.
Approve ==
    IF ses.status \in {"submitted", "verifying", "rejected"}
    THEN {Says("error"), Answered([ses EXCEPT !.status = "approved"], "approved")}
    ELSE {Refused}

\* handle_resolve: a manual resolution goes to the overlay only; whether the
\* changeset went back to submitted is not looked at.
Resolve(ps) ==
    LET e == [ses EXCEPT !.overlay = @ \cup ps]
    IN  IF ses.status = "merged" \/ (ps # {} /\ ~Live) THEN {Refused}
        ELSE {Answered(e, "resolved")}
                \cup IF ses.status \in {"draft", "submitted", "verifying", "rejected"}
                     THEN {Answered([e EXCEPT !.status = "submitted"], "resolved")}
                     ELSE {}

\* handle_merge: the commit is on main before the changeset says so.
Merge ==
    IF ses.status # "approved" THEN {Refused}
    ELSE IF ses.overlay = {} THEN {Says("error")}
    ELSE {Says("conflicts"), Says("error"),
          [Says("error") EXCEPT !.lands = ses.overlay],
          [Answered([ses EXCEPT !.status = "merged"], "merged") EXCEPT !.lands = ses.overlay]}

Close == {Answered([ses EXCEPT !.life = "closed"], "closed")}

Abandon ==
    CASE ses.life \in {"abandoned", "swept"} -> {Says("abandoned")}
      [] ses.life = "stranded" ->
            {Says("error"),
             Answered([ses EXCEPT !.life = "abandoned",
                                  !.status = IF @ = "merged" THEN @ ELSE "rejected"],
                      "abandoned")}
      [] OTHER -> {Refused}

\* Mutant: a file counts as written only once its row is.
FileRead_rows(ps) ==
    IF ps \subseteq BasePath \cup ses.overlay
    THEN {[Says("content") EXCEPT !.shown = ps \cap ses.rows]} ELSE {Refused}

\* handle_file_read tags the file that is in the overlay, handle_file_list
\* every such path; handle_get_session_status lists them.
FileRead(ps) ==
    IF ps \subseteq BasePath \cup ses.overlay
    THEN {[Says("content") EXCEPT !.shown = ps \cap ses.overlay]} ELSE {Refused}
FileList == {[Says("listing") EXCEPT !.shown = ses.overlay]}
SessionStatus == {[Says("listing") EXCEPT !.shown = ses.overlay]}

\* handle_push checks the branch name and leaves the push to the layer around
\* the engine; the context, the pre-submit check and the reviews are reports.
Push == {Refused, Says("report")}
Context == {Says("error"), Says("report")}
PreSubmitCheck == {Says("error"), Says("report")}
Review == {Refused, Says("error"), Says("report")}

\* The protocol's handlers behind the checks they start with: for these a
\* known session is enough, the others need its workspace.
Unguarded == {"review", "approve", "resolve", "close", "abandon"}
Served(tool, arg, ps) ==
    IF tool = "connect" THEN Connect
    ELSE IF ~Valid \/ (~Live /\ tool \notin Unguarded) THEN {Refused}
    ELSE CASE tool = "submit" /\ client = "python" -> SubmitUnnamed
           [] tool = "submit" /\ client # "python" -> Submit(arg)
           [] tool = "write" -> FileWrite(ps)
           [] tool = "verify" -> Verify        [] tool = "merge" -> Merge
           [] tool = "read" -> FileRead(ps)    [] tool = "list" -> FileList
           [] tool = "status" -> SessionStatus [] tool = "push" -> Push
           [] tool = "context" -> Context      [] tool = "review" -> Review
           [] tool = "pre-submit" -> PreSubmitCheck
           [] tool = "approve" -> Approve      [] tool = "resolve" -> Resolve(ps)
           [] tool = "close" -> Close          [] tool = "abandon" -> Abandon

\* The tool operations of dk-engine know no sessions, locks or stale views,
\* and do not undo what came before a step that fails.
ToolConnect ==
    LET e == [ses EXCEPT !.life = "live", !.status = "draft"]
    IN  {Says("error"), Answered(e, "error"), Answered(e, "connected")}

ToolContext == {Says("error"), Says("report")}

ToolReadFile(ps) == FileRead(ps)

ToolWriteFile(ps) ==
    LET e == [ses EXCEPT !.overlay = @ \cup ps]
    IN  {Says("error"), Answered(e, "error"), Answered([e EXCEPT !.rows = @ \cup ps], "hash")}

ToolSubmit == {Says("error"), Answered([ses EXCEPT !.status = "submitted"], "accepted")}

ToolSessionStatus == {[Says("listing") EXCEPT !.shown = ses.overlay]}
ToolListFiles == {[Says("listing") EXCEPT !.shown = ses.overlay]}

ToolVerifyPrepare ==
    {Says("error")}
        \cup {Answered([ses EXCEPT !.status = "verifying"], a) : a \in {"error", "prepared"}}

ToolVerifyFinalize ==
    {Says("error")}
        \cup {Answered([ses EXCEPT !.status = v], "finalized") : v \in {"approved", "rejected"}}

ToolMerge ==
    IF ses.status # "approved" THEN {Refused}
    ELSE IF ses.overlay = {} THEN {Says("error")}
    ELSE LET landing == [Says("error") EXCEPT !.lands = ses.overlay]
         IN  {Says("conflicts"), Says("error"), landing,
              [landing EXCEPT !.ses.status = "merged", !.answer = "merged"]}

ToolServed(tool, ps) ==
    CASE tool = "connect" -> ToolConnect
      [] tool = "submit" -> ToolSubmit
      [] tool = "finalize" -> ToolVerifyFinalize
      [] Live /\ tool = "context" -> ToolContext
      [] Live /\ tool = "write" -> ToolWriteFile(ps)
      [] Live /\ tool = "read" -> ToolReadFile(ps)
      [] Live /\ tool = "list" -> ToolListFiles
      [] Live /\ tool = "status" -> ToolSessionStatus
      [] Live /\ tool = "verify" -> ToolVerifyPrepare
      [] Live /\ tool = "merge" -> ToolMerge
      [] OTHER -> {Refused}

-----------------------------------------------------------------------------
(* The clients.  From the answer to its call k the agent hears a word and   *)
(* sees paths, and dk-mcp lists the session further or not.                *)

Hears(word) == [word |-> word, sees |-> {}, lists |-> table]
Sees(word, ps) == [Hears(word) EXCEPT !.sees = ps]
Forgets(word) == [Hears(word) EXCEPT !.lists = FALSE]

\* An answer that is an error is a failure in every client.
Errors == {"refused", "error"}

\* dk-mcp.  An entry is made when the session is there, taken out when it was
\* merged, closed or abandoned.
dk_connect(k) == [Hears("connected") EXCEPT !.lists = TRUE]

\* The tool prints its own entry even when the engine tells it nothing.
dk_status(k) == IF k.answer \in Errors THEN Hears("unavailable") ELSE Sees("listing", k.shown)

dk_context(k) == Hears("report")
dk_file_read(k) == Sees("content", k.shown)
dk_file_list(k) == Sees("listing", k.shown)

\* Mutant: only a stale write counts as refused.
dk_file_write_stale(k) == Hears(IF k.answer = "stale" THEN "stale" ELSE "wrote")

\* No hash and some warning is a rejection, by the warning's prefix a stale
\* one; no hash and no warning is a rejection too.
dk_file_write(k) ==
    CASE k.answer = "hash" -> Hears("wrote")
      [] k.answer = "stale" -> Hears("stale")
      [] k.answer \notin {"hash", "stale"} -> Hears("locked")

\* No changes are sent along, the files are in the overlay.
dk_submit(k) == Hears(k.answer)

\* A step that timed out is no failure, optional or not.
dk_verify(k) ==
    CASE k.steps = {} -> Hears("no results")
      [] k.steps # {} /\ k.steps \cap {"fail", "optional fail"} = {} -> Hears("passed")
      [] OTHER -> Hears("failed steps")

\* Mutant: the session is given up with its first conflict.
dk_merge_gives_up(k) == Forgets(k.answer)
dk_merge(k) == IF k.answer = "merged" THEN Forgets("merged") ELSE Hears("conflicts")

\* Behind the review gate, which is ReviewGate's.
dk_approve(k) == Hears("approved")
dk_resolve(k) == Hears("resolved")
dk_push(k) == Hears("report")

dk_close(k) == Forgets("closed")
dk_review(k) == Hears("report")
dk_pre_submit_check(k) == Hears("report")
dk_abandon(k) == Forgets("abandoned")

Mcp(k) ==
    CASE k.tool = "status" -> dk_status(k)
      [] k.tool # "status" /\ k.answer \in Errors -> Hears("failed")
      [] k.tool = "connect" -> dk_connect(k)      [] k.tool = "context" -> dk_context(k)
      [] k.tool = "read" -> dk_file_read(k)       [] k.tool = "write" -> dk_file_write(k)
      [] k.tool = "list" -> dk_file_list(k)       [] k.tool = "submit" -> dk_submit(k)
      [] k.tool = "verify" -> dk_verify(k)        [] k.tool = "merge" -> dk_merge(k)
      [] k.tool = "approve" -> dk_approve(k)      [] k.tool = "resolve" -> dk_resolve(k)
      [] k.tool = "push" -> dk_push(k)            [] k.tool = "close" -> dk_close(k)
      [] k.tool = "review" -> dk_review(k)        [] k.tool = "abandon" -> dk_abandon(k)
      [] k.tool = "pre-submit" -> dk_pre_submit_check(k)

\* The command line: each command connects anew, prints and exits with 0.
\* file_write_cmd prints "Written." whatever the hash, verify_cmd no verdict.
context_cmd(k) == Hears("report")
submit_cmd(k) == Hears(k.answer)
verify_cmd(k) == Hears("steps")
merge_cmd(k) == Hears(k.answer)
file_read_cmd(k) == Sees("content", k.shown)
file_write_cmd(k) == Hears("wrote")
file_list_cmd(k) == Sees("listing", k.shown)
pre_submit_cmd(k) == Hears("report")
approve_cmd(k) == Hears("approved")
review_cmd(k) == Hears("report")
status_cmd(k) == Sees("listing", k.shown)

Cli(k) ==
    CASE k.answer \in Errors -> Hears("failed")
      [] k.tool = "connect" -> Hears("connected") [] k.tool = "context" -> context_cmd(k)
      [] k.tool = "submit" -> submit_cmd(k)       [] k.tool = "verify" -> verify_cmd(k)
      [] k.tool = "merge" -> merge_cmd(k)         [] k.tool = "read" -> file_read_cmd(k)
      [] k.tool = "write" -> file_write_cmd(k)    [] k.tool = "list" -> file_list_cmd(k)
      [] k.tool = "pre-submit" -> pre_submit_cmd(k)
      [] k.tool = "approve" -> approve_cmd(k)     [] k.tool = "review" -> review_cmd(k)
      [] k.tool = "status" -> status_cmd(k)

\* The SDK's Session hands the answer to its caller: the steps of a run, the
\* files with their tags, the hash and the warnings of a write.
SessionFiles(k) ==
    CASE k.tool \in {"read", "list", "status"} -> Sees(k.answer, k.shown)
      [] k.tool = "write" -> Hears(IF k.answer = "hash" THEN "wrote" ELSE k.answer)
      [] k.tool = "verify" -> Hears("steps")
      [] k.tool \in {"merge", "pre-submit"} -> Hears(k.answer)
SessionDecisions(k) == Hears(k.answer)

Sdk(k) ==
    CASE k.answer \in Errors -> Hears("failed")
      [] k.answer \notin Errors /\ k.tool \in {"connect", "context", "submit", "push", "approve",
                                              "resolve", "close", "review"} -> SessionDecisions(k)
      [] OTHER -> SessionFiles(k)

\* dispatch_tool turns what Session answers into JSON: of a write the hash but
\* no warnings, of a run whether every required step is "passed", a word the
\* engine never sends.
DispatchedFiles(k) ==
    IF k.tool = "write" /\ k.answer # "hash" THEN Hears("no hash") ELSE Sdk(k)
DispatchedVerify(k) ==
    Hears(IF k.steps \subseteq {"optional fail"} THEN "passed" ELSE "failed steps")

Programmatic(k) ==
    CASE k.answer \in Errors -> Hears("failed")
      [] k.answer \notin Errors /\ k.tool = "verify" -> DispatchedVerify(k)
      [] OTHER -> DispatchedFiles(k)

\* The Python SDK hands over the hash of a write but no warnings, in its
\* session as in its own dispatch_tool.
python_session(k) ==
    IF k.tool = "write" THEN Hears(IF k.answer = "hash" THEN "wrote" ELSE "no hash")
    ELSE Sees(k.answer, k.shown)
Python(k) == IF k.answer \in Errors THEN Hears("failed") ELSE python_session(k)

\* A caller of the tool operations has their results.
Ops(k) ==
    CASE k.answer \in Errors -> Hears("failed")
      [] k.answer = "hash" -> Hears("wrote")
      [] OTHER -> Sees(k.answer, k.shown)

Heard(k) ==
    CASE client = "mcp" -> Mcp(k)  [] client = "cli" -> Cli(k)  [] client = "sdk" -> Sdk(k)
      [] client = "programmatic" -> Programmatic(k)  [] client = "ops" -> Ops(k)
      [] client = "python" -> Python(k)

-----------------------------------------------------------------------------
\* What an agent may call: the first CONNECT, then what its client lets it.
\* dk-mcp looks the session up in its table, except for dk_abandon.
MayCall(tool) ==
    IF tool = "connect"
    THEN ses.life = "none" /\ \A c \in Call : call[c].tool # "connect"
    ELSE IF client = "mcp" THEN table \/ (tool = "abandon" /\ joined)
    ELSE joined

\* The SDK's methods take the session for themselves (&mut self).
Alone == client \in {"sdk", "programmatic"}

Ask(c) ==
    /\ \A d \in Call : (d = c \/ Alone) => call[d].at = "idle"
    /\ \E tool \in Tools[client] :
        /\ MayCall(tool)
        /\ \E arg \in Arguments(tool) :
            call' = [call EXCEPT ![c] = [Idle EXCEPT !.at = "sent", !.tool = tool,
                                                     !.arg = arg, !.knew = known]]
    /\ UNCHANGED <<client, ses, landed, joined, table, known, lost>>

Difference(o) ==
    {x \in {"overlay", "rows", "status"} : o.ses[x] # ses[x]}
        \cup {x \in {"commit"} : o.lands # {}}
        \cup {x \in {"end"} : o.ses.life # ses.life /\ o.ses.life # "live"}

\* A commit on main and the end of a session are remembered of every call,
\* the smaller changes of those that did not succeed.
Vital == {"commit", "end"}
Refusals == {"refused", "locked", "stale", "conflicts", "rejected"}

\* Of a call that failed only that is kept, and what it did all the same.
Returned(k, o) ==
    IF o.answer \in Errors
    THEN [Idle EXCEPT !.at = "answered", !.answer = o.answer, !.did = Difference(o)]
    ELSE [k EXCEPT !.at = "answered", !.answer = o.answer, !.shown = o.shown, !.steps = o.steps,
                   !.did = IF o.answer \in Refusals THEN Difference(o)
                           ELSE Difference(o) \cap Vital,
                   !.after = IF o.answer \in {"accepted", "approved", "merged", "ran"}
                             THEN o.ses.status ELSE "none"]

Serve(c) ==
    /\ call[c].at = "sent"
    /\ \E o \in IF client = "ops" THEN ToolServed(call[c].tool, Named(call[c]))
                ELSE Served(call[c].tool, call[c].arg, Named(call[c])) :
        /\ ses' = o.ses
        /\ landed' = landed \cup o.lands
        /\ call' = [call EXCEPT ![c] = Returned(@, o)]
    /\ UNCHANGED <<client, joined, table, known, lost>>

\* The request or the answer is lost; a call inside the engine loses neither.
Lose(c) ==
    /\ client # "ops" /\ call[c].at \in {"sent", "answered"}
    /\ call' = [call EXCEPT ![c] = Idle]
    /\ lost' = (lost \/ (table /\ call[c].did \cap Vital # {}))
    /\ UNCHANGED <<client, ses, landed, joined, table, known>>

\* The agent hears of its call; of a write it knows that it was made.
Hear(c) ==
    /\ call[c].at = "answered"
    /\ LET heard == Heard(call[c])
       IN  /\ joined' = (joined \/ heard.word = "connected")
           /\ table' = (client = "mcp" /\ heard.lists)
           /\ known' = known \cup IF \/ heard.word = "wrote" /\ client # "cli"
                                     \/ heard.word = "resolved"
                                  THEN Named(call[c]) ELSE {}
           /\ lost' = (lost \/ (table /\ heard.word = "failed" /\ call[c].did \cap Vital # {}))
    /\ call' = [call EXCEPT ![c] = Idle]
    /\ UNCHANGED <<client, ses, landed>>

\* The engine by itself: an idle workspace is stranded, a stranded one swept,
\* and a session nobody touches expires (the tool operations have none).
Strand ==
    /\ ses.life = "live"
    /\ ses' = [ses EXCEPT !.life = "stranded"]

Sweep ==
    /\ ses.life = "stranded"
    /\ ses' = [ses EXCEPT !.life = "swept",
                          !.status = IF @ = "merged" THEN @ ELSE "rejected"]

Expire ==
    /\ client # "ops" /\ ses.life \in {"live", "stranded"}
    /\ ses' = [ses EXCEPT !.life = "expired"]

Tend ==
    /\ Strand \/ Sweep \/ Expire
    /\ UNCHANGED <<client, landed, joined, table, known, call, lost>>

Next ==
    \/ \E c \in Call : Ask(c) \/ Serve(c) \/ Lose(c) \/ Hear(c)
    \/ Tend

Spec == Init /\ [][Next]_vars

-----------------------------------------------------------------------------
\* What the words of an answer promise: the written paths are in the overlay,
\* an accepted changeset was submitted, a merge is on main, a closed or
\* abandoned session is over, and "passed" is an approval unless a required
\* step timed out.  Not so for the command line, which prints "Written." for
\* refused writes, nor for dispatch_tool, which passes a run that failed before
\* its first step.
Kept(k) ==
    LET told == Heard(k).word IN
    /\ told = "wrote" /\ client # "cli" => Named(k) \subseteq ses.overlay
    /\ told = "resolved" => Named(k) \subseteq ses.overlay
    /\ told = "accepted" => k.after = "submitted"
    /\ told = "approved" => k.after = "approved"
    /\ told = "merged" => k.after = "merged" /\ "commit" \in k.did
    /\ told = "closed" => ses.life = "closed"
    /\ told = "abandoned" => ses.life \in {"abandoned", "swept", "closed"}
    /\ told = "passed" => \/ k.after = "approved" \/ "timeout" \in k.steps
                          \/ client = "programmatic" /\ k.steps = {}

\* What an agent is told was done was done, and still is when it hears of it,
\* whatever overtook the call.
SuccessIsDone == \A c \in Call : call[c].at = "answered" => Kept(call[c])

\* A call that was refused changed nothing: a write stopped by a lock or a
\* newer changeset, a conflicting merge, any precondition.  A rejected submit
\* leaves the changeset's status alone, but not its files.
RefusalChangesNothing ==
    \A c \in Call :
        /\ call[c].answer \in {"refused", "locked", "stale", "conflicts"} => call[c].did = {}
        /\ call[c].answer = "rejected" => call[c].did \subseteq {"overlay", "rows"}

\* No write an agent was told of is missing from what it is told later: a
\* path it knew to be written when it called is tagged when it reads or lists
\* it, and is part of what is accepted or merged.
Carried(k) ==
    LET heard == Heard(k) IN
    /\ heard.word = "content" => k.knew \cap Named(k) \subseteq heard.sees
    /\ heard.word = "listing" => k.knew \subseteq heard.sees
    /\ heard.word = "accepted" => k.knew \subseteq ses.rows
    /\ heard.word = "merged" => k.knew \subseteq landed
WorkIsCarried == \A c \in Call : call[c].at = "answered" => Carried(call[c])

\* dk-mcp forgets a session it connected only when its work was merged or it
\* is over.
ForgottenIsOver ==
    client = "mcp" /\ joined /\ ~table =>
        landed # {} \/ ses.life \in {"closed", "abandoned", "swept"}

\* A session dk-mcp still lists has neither been merged nor ended by a call,
\* unless that call's answer is on its way, was an error or was lost.
RememberedIsLive ==
    table /\ (landed # {} \/ ses.life \in {"closed", "abandoned"}) =>
        \/ lost
        \/ \E c \in Call : call[c].at = "answered" /\ call[c].did \cap Vital # {}
=============================================================================
