------------------------------- MODULE Stores -------------------------------
(***************************************************************************)
(* What stands beside the engine and shares no state with it: the claims   *)
(* kept in Valkey, the session store, and the clients agents call through. *)
(* What each of them promises; the promises of the claim tracker are in    *)
(* its module.                                                             *)
(***************************************************************************)
EXTENDS ValkeyClaims, Integers

CONSTANTS
    Id, Caller, Timeouts,              \* the session store
    Path, BasePath, Call               \* the clients

\* A server's timeout is a positive number of ticks, and one of them is the
\* largest (SessionConfig).
ASSUME TimeoutsAssumption ==
    /\ Timeouts \subseteq Nat \ {0}
    /\ \E t \in Timeouts : \A u \in Timeouts : t >= u

VARIABLES
    backend, timeout, idle, left, snapshot, call, removed, saves, troubled,
    client, ses, landed, joined, bridged, known, tool_call, unheard

S == INSTANCE SessionStore
T == INSTANCE ToolCalls WITH call <- tool_call, lost <- unheard, table <- bridged

-----------------------------------------------------------------------------
\* A session that ends stays ended, can be resumed from its snapshot, and by
\* nobody else after that (session.rs, session_redis.rs).
SessionsAreSound == S!TypeOK /\ S!HandedOnce /\ S!RemovedStaysRemoved /\ S!EndedIsResumable

\* What an agent is told was done was done, and what was refused changed
\* nothing, through whichever client it calls.
WordsAreTrue == T!SuccessIsDone /\ T!RefusalChangesNothing

\* No write an agent was told of is missing from what it is told later.
WorkIsCarried == T!WorkIsCarried

\* dk-mcp forgets a session only when its work was merged or it is over, and
\* lists one that is over only if it has not heard so (server.rs).
TableIsSound == T!TypeOK /\ T!ForgottenIsOver /\ T!RememberedIsLive
=============================================================================
