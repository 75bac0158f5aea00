----------------------------- MODULE MCSessions -----------------------------
(***************************************************************************)
(* Sessions for TLC: two tabs, each with page requests and a logout.       *)
(***************************************************************************)
EXTENDS Sessions, TLC

CONSTANTS t1, t2, p1, p2, c1, c2, x1, x2

\* A free slot is as good as another, so CHOOSE in Slot keeps the symmetry.
Symmetry == Permutations(Tabs) \union Permutations(Pages) \union Permutations(Calls)
                \union Permutations(RowIds)
=============================================================================
