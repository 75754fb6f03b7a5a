----------------------------- MODULE LockService -----------------------------
(***************************************************************************)
(* What agents are promised of symbol locks: every symbol has at most one  *)
(* owner, a free symbol is granted to one session, and a symbol changes    *)
(* hands only by being given up first -- no session takes a lock away from *)
(* another.  SymbolLocks implements this specification.                    *)
(***************************************************************************)
CONSTANTS Session, Symbol, NoSession

VARIABLE owner

Init == owner = [x \in Symbol |-> NoSession]

Grant(x, s) ==
    /\ owner[x] = NoSession
    /\ owner' = [owner EXCEPT ![x] = s]

\* A session gives up some of what it owns: one symbol when a write is
\* rolled back, all of them when it submits or merges.
GiveUp(s, X) ==
    /\ \A x \in X : owner[x] = s
    /\ owner' = [x \in Symbol |-> IF x \in X THEN NoSession ELSE owner[x]]

Next == \E s \in Session :
            \/ \E x \in Symbol : Grant(x, s)
            \/ \E X \in SUBSET Symbol : GiveUp(s, X)

Spec == Init /\ [][Next]_owner

=============================================================================
