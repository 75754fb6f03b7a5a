--------------------------- MODULE MCVerification ---------------------------
(***************************************************************************)
(* Repositories for TLC: a sequential and a parallel stage with required   *)
(* and optional steps of every kind, a pipeline stored in the database, a  *)
(* detected one, a broken file, an empty repository and a pipeline with    *)
(* commands of its own.                                                    *)
(***************************************************************************)
EXTENDS Verification

CONSTANTS c1, c2

StepOf(kind, required) == Step(kind, Plain("cargo test"), 60, required, TRUE, <<>>)
Sequential(steps) == [parallel |-> FALSE, steps |-> steps]
Parallel(steps) == [parallel |-> TRUE, steps |-> steps]
Yaml(stages, allowed) ==
    [file |-> "parsed", yaml |-> [stages |-> stages, timeout |-> 600, allowed |-> allowed],
     db |-> <<>>, dirs |-> <<>>]
Root(has) == <<[name |-> <<>>, has |-> has]>>
NoFile(db, dirs) == [file |-> "absent", yaml |-> NoStages, db |-> db, dirs |-> dirs]

MCRepos ==
    { Yaml(<<Sequential(<<StepOf("command", TRUE)>>),
             Parallel(<<StepOf("semantic", FALSE)>>)>>, {}),
      Yaml(<<Parallel(<<StepOf("llm-judge", TRUE), StepOf("pytorch-ci", TRUE)>>)>>, {}),
      Yaml(<<Sequential(<<Step("command", Plain("make"), 60, TRUE, FALSE, <<>>)>>)>>, {"make"}),
      Yaml(<<>>, {}),
      NoFile(<<[kind |-> "human-approve", command |-> Plain("echo "), required |-> TRUE]>>,
             Root({})),
      NoFile(<<>>, Root({"Cargo.toml"})),
      NoFile(<<>>, Root({})) }

MCFileSets == {{<<"crates", "dk-core", "lib.rs">>}}
=============================================================================
