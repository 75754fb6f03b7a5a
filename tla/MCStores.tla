------------------------------ MODULE MCStores ------------------------------
(***************************************************************************)
(* The claims in Valkey, the session store and the clients agents call     *)
(* through share no state, so a behaviour exercises one of them, chosen at *)
(* the start.                                                              *)
(*                                                                         *)
(* Two sessions, a key in each of two repositories and two sweeps; one     *)
(* session with two requests and timeouts of one and two ticks; two calls  *)
(* at a time about one new file.                                           *)
(***************************************************************************)
EXTENDS Stores, Sequences, TLC

CONSTANTS
    session1, session2, symbol1, symbol2, repo1, repo2, sweeper1, sweeper2,
    id1, caller1, caller2,
    path1, call1, call2

VARIABLE mode

RepoOfKey == symbol1 :> repo1 @@ symbol2 :> repo2

claims == <<lock, listed, sweep, disturbed>>
sessions == <<backend, timeout, idle, left, snapshot, call, removed, saves, troubled>>
calls == <<client, ses, landed, joined, bridged, known, tool_call, unheard>>
storesVars == <<claims, sessions, calls, mode>>

StoresInit ==
    /\ Init /\ S!Init /\ T!Init
    /\ mode \in {"claims", "sessions", "calls"}
    /\ mode # "sessions" => backend = "memory" /\ timeout = 1
    /\ mode # "calls" => client = "ops"

ClaimsStep == mode = "claims" /\ Next /\ UNCHANGED <<sessions, calls, mode>>
SessionsStep == mode = "sessions" /\ S!Next /\ UNCHANGED <<claims, calls, mode>>
CallsStep == mode = "calls" /\ T!Next /\ UNCHANGED <<claims, sessions, mode>>

StoresNext == ClaimsStep \/ SessionsStep \/ CallsStep

StoresSpec == StoresInit /\ [][StoresNext]_storesVars

\* The keys, with their repositories.
Mirrored == symbol1 :> symbol2 @@ symbol2 :> symbol1 @@ repo1 :> repo2 @@ repo2 :> repo1

Interchangeable ==
    Permutations({session1, session2}) \cup Permutations({sweeper1, sweeper2})
        \cup Permutations({call1, call2}) \cup {Mirrored}
=============================================================================
