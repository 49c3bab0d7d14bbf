----------------------------- MODULE MCErrorFlow -----------------------------
(***************************************************************************)
(* Two error objects and one variable make every comparison between        *)
(* identities go both ways.  Nothing distinguishes the two errors.  In C++ *)
(* functions nest and calls occur anywhere, which makes many more trees.   *)
(***************************************************************************)
EXTENDS ErrorFlow, TLC

MCMaxNesting == [l \in {"C", "C++"} |-> IF l = "C" THEN 3 ELSE 2]

Symmetric == Permutations(Error)
=============================================================================
