---------------------------- MODULE MCSymbolLocks ----------------------------
(***************************************************************************)
(* Agents a and b, and one file f with the symbols x and y.  Two symbols   *)
(* are what a write needs to be refused after it has locked something.     *)
(***************************************************************************)
EXTENDS SymbolLocks, TLC

CONSTANTS a, b, x, y, f

OneFile == (x :> f) @@ (y :> f)

OneSymbol == (x :> f)

\* One request of each agent at a time: the slot bears the agent's name.
Serial == (a :> a) @@ (b :> b)

Agents == {p @@ q : p \in Permutations({a, b}), q \in Permutations({x, y})}
=============================================================================
