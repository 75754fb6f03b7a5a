-------------------------- MODULE MCPipelineChecks --------------------------
(***************************************************************************)
(* Bounded inputs: up to three calls among three symbols, two of them in   *)
(* changed files; all versions of two functions; all sources of up to five *)
(* lines; all marker files in a root and a directory; all commands with    *)
(* all sets of four paths.                                                 *)
(***************************************************************************)
EXTENDS PipelineChecks

Symbol(id, name, file, public, result, parent) ==
    [id |-> id, name |-> name, file |-> file, fn |-> TRUE, public |-> public,
     result |-> result, parent |-> parent]

Nodes == {"a", "b", "c"}
Ids == {<<n>> : n \in Nodes}
CallLists == UNION {[1..n -> Ids \X Ids] : n \in 0..3}
CallContexts ==
    {[repo |-> [db |-> {Symbol(<<n>>, n, IF n = "c" THEN "g" ELSE "f", TRUE, TRUE, <<>>) : n \in Nodes},
                calls |-> calls,
                tree |-> [f \in {"f"} |-> {Symbol(<<n, "new">>, n, "f", TRUE, TRUE, <<>>) : n \in {"a", "b"}}],
                lines |-> [f \in {"f"} |-> <<{"unwrap"}>>]],
      files |-> {"f"}] : calls \in CallLists}

Versions == {<<>>} \cup (BOOLEAN \X BOOLEAN)
Both(p, q, Id(_)) ==
    {Symbol(Id(n), n, "f", v[1], v[2], Id("impl")) :
        <<n, v>> \in {<<m, w>> \in {<<"p", p>>, <<"q", q>>} : w # <<>>}}
ApiContexts ==
    {[repo |-> [db |-> Both(p, q, LAMBDA n : <<n>>), calls |-> <<<<<<"q">>, <<"p">>>>>>,
                tree |-> [f \in {"f"} |-> Both(p2, q2, LAMBDA n : <<n, "new">>)],
                lines |-> [f \in {"f"} |-> <<IF unsafe THEN {"unsafe"} ELSE {}>>]],
      files |-> {"f"}] :
        p \in Versions, q \in Versions, p2 \in Versions, q2 \in Versions, unsafe \in BOOLEAN}

MCContexts == CallContexts \cup ApiContexts

Lines == {{"fn", "open"}, {"fn"}, {"branch", "open"}, {"branch", "close"},
          {"close", "leads"}, {"branch", "open", "close", "leads"}}
MCSources == {[lines |-> s] : s \in UNION {[1..n -> Lines] : n \in 0..5}}

Markers == {"Cargo.toml", "package.json", "bun.lock", "pyproject.toml",
            "requirements.txt", "go.mod"}
MCTrees == {[dirs |-> <<[name |-> <<>>, has |-> r], [name |-> <<"web">>, has |-> d]>>] :
               r \in SUBSET Markers, d \in SUBSET Markers}

Paths == {<<"crates", "core", "lib.rs">>, <<"crates", Odd, "lib.rs">>,
          <<"src", "app", "main.ts">>, <<"tests", "test_app.py">>}
Commands == {Command(w, a, why) :
                w \in {"cargo test", "cargo fmt", "bun test", "pytest", "npm run lint", "make"},
                a \in {<<>>, <<"--all">>}, why \in {{}, {"denied prefix"}}}
MCFlows ==
    {[flow |-> [stages |-> <<[parallel |-> FALSE,
                              steps |-> <<Step("command", c, 60, TRUE, aware, <<>>)>>]>>,
                timeout |-> 600, allowed |-> allowed],
      files |-> files] :
        c \in Commands, aware \in BOOLEAN, allowed \in {{}, {"make"}}, files \in SUBSET Paths}

Said == {"approve", "reject", "needs_iteration", "error"}
MCJudgements == {[answers |-> a, max |-> m] : a \in [1..3 -> Said], m \in 1..3}
=============================================================================
