---------------------------- MODULE ClaimTracker ----------------------------
(***************************************************************************)
(* The symbol-claim table of dk-engine's LocalClaimTracker: for every      *)
(* symbol, the sessions that claim it.  A symbol stands for one            *)
(* (repository, file, qualified name) triple, and the DashMap of vectors   *)
(* of claims for a function from symbols to sets of sessions: a vector     *)
(* never holds two claims of one session on one name, and nothing depends  *)
(* on the order of its entries.  What a claim carries besides its session  *)
(* (agent name, kind, time stamp) is reported back to callers, never       *)
(* tested, and is left out.                                                *)
(*                                                                         *)
(* Every operation below runs under the shard guard of the entry it        *)
(* touches, so the modules that use it apply one operator per step.        *)
(***************************************************************************)
EXTENDS FiniteSets

CONSTANTS
    Session,   \* session ids
    Symbol     \* (repository, file, qualified name) triples

Claims == [Symbol -> SUBSET Session]

NoClaims == [x \in Symbol |-> {}]

HeldBy(claims, s) == {x \in Symbol : s \in claims[x]}

\* The sessions whose claims make acquire_lock answer SymbolLocked.
OtherHolders(claims, x, s) == claims[x] \ {s}

CanAcquire(claims, x, s) == OtherHolders(claims, x, s) = {}

\* Mutant: every acquisition counts as fresh.
IsFresh_always(claims, x, s) == TRUE

\* AcquireOutcome::Fresh, as opposed to ReAcquired.
IsFresh(claims, x, s) == s \notin claims[x]

\* Non-blocking: records the claim whoever else claims the symbol.
RecordClaim(claims, x, s) == [claims EXCEPT ![x] = @ \cup {s}]

\* Mutant: the lock is recorded before the other claimants are looked at.
AcquireLock_records(claims, x, s) == RecordClaim(claims, x, s)

\* Mutant: the caller replaces whoever holds the symbol.
AcquireLock_takesOver(claims, x, s) == [claims EXCEPT ![x] = {s}]

\* What acquire_lock leaves behind: refused, the table is unchanged.
AcquireLock(claims, x, s) ==
    IF CanAcquire(claims, x, s) THEN RecordClaim(claims, x, s) ELSE claims

ReleaseLock(claims, x, s) == [claims EXCEPT ![x] = @ \ {s}]

\* release_locks for the session's repository; clear_session is the same
\* sweep over every repository, and a session belongs to one.
ReleaseLocks(claims, s) == [x \in Symbol |-> claims[x] \ {s}]

CheckConflicts(claims, s, names) ==
    {x \in names : ~CanAcquire(claims, x, s)}

AllConflicts(claims, s) == CheckConflicts(claims, s, HeldBy(claims, s))

\* No symbol has two claimants.
Exclusive(claims) == \A x \in Symbol : \A s, t \in claims[x] : s = t

=============================================================================
