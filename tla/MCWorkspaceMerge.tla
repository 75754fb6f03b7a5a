-------------------------- MODULE MCWorkspaceMerge --------------------------
(***************************************************************************)
(* A parsed file with a symbol x and room for a symbol y, and a name for a *)
(* file of another kind that does not exist yet.  Agent p removes x or     *)
(* adds y, agent q rewrites x or adds y, and they write the other file     *)
(* alike or differently: every pair of changes to one file that merges     *)
(* and every kind that conflicts.                                          *)
(***************************************************************************)
EXTENDS WorkspaceMerge, TLC

CONSTANTS p, q, p1, q1, f, g, x, y, t, u

Holding(textOfX, textOfY) == (x :> textOfX) @@ (y :> textOfY)

OneFile == (f :> Holding(t, NoText)) @@ (g :> NoFile)

Rewritten == Holding(u, NoText)
Removed == Holding(NoText, NoText)
Extended == Holding(t, t)

Drafts ==
    (p :> ((f :> {Removed, Extended}) @@ (g :> {Rewritten})))
       @@ (q :> ((f :> {Rewritten, Extended}) @@ (g :> {Rewritten, Extended})))

OneEach == (p1 :> p) @@ (q1 :> q)
=============================================================================
