---------------------------- MODULE MCReviewGate ----------------------------
(***************************************************************************)
(* Environments for TLC.                                                   *)
(***************************************************************************)
EXTENDS ReviewGate

Env(openrouter, anthropic, minScore, policy, model) ==
    [flag |-> "1", openrouter |-> openrouter, anthropic |-> anthropic, minScore |-> minScore,
     policy |-> policy, model |-> model, token |-> TRUE]

Usual == Env("unset", "set", 0, "strict", "set")

\* The usual one; a degraded policy; no model; no key; a stray empty key; no
\* token; the gate off.
MCEnvs ==
    { Usual,
      Env("set", "set", 3, "degraded", "set"),
      Env("unset", "set", 5, "strict", "unset"),
      Env("unset", "empty", 4, "strict", "set"),
      Env("empty", "set", 4, "strict", "set"),
      [Usual EXCEPT !.token = FALSE],
      [Usual EXCEPT !.flag = "0"] }
=============================================================================
