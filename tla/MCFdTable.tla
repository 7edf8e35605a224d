----------------------------- MODULE MCFdTable -----------------------------
(***************************************************************************)
(* FdTable with an empty, a one-page and a two-page file.                  *)
(***************************************************************************)
EXTENDS FdTable, TLC

CONSTANTS e, a, b, h1, h2, h3

FilePages == [n \in {e, a, b} |-> CASE n = e -> 0 [] n = a -> 1 [] n = b -> 2]

HandleSymmetry == Permutations({h1, h2, h3})
=============================================================================
