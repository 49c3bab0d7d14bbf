--------------------------- MODULE MCFunctionMemory ---------------------------
(***************************************************************************)
(* Units that use one table each: the tables share nothing but the stack   *)
(* and the end of the visit.  Each table gets one identity more than it    *)
(* has slots.  In C++ a cursor less may be open.                           *)
(***************************************************************************)
EXTENDS FunctionMemory, TLC

EnvironmentCalls ==
  {[NoCall EXCEPT !.invalidates = TRUE]}
    \cup {[NoCall EXCEPT !.borrower = v] : v \in Var}
    \cup {[NoCall EXCEPT !.invalidates = TRUE, !.borrower = v] : v \in Var}

OtherCalls ==
  {[NoCall EXCEPT !.resolves = TRUE]}
    \cup {[NoCall EXCEPT !.checks = p] : p \in Path}
    \cup {[NoCall EXCEPT !.uncertain = f, !.operation = o] :
             f \in Callee, o \in Operation \cup {None}}
    \cup {[NoCall EXCEPT !.uncertain = f, !.resolves = TRUE] : f \in Callee}

MCMaxNesting == [l \in {"C", "C++"} |-> IF l = "C" THEN 3 ELSE 2]

Renamings == Permutations(Owner) \cup Permutations(Var)

MCPrograms == {[calls |-> {}, owners |-> Owner],
               [calls |-> EnvironmentCalls, owners |-> {}],
               [calls |-> OtherCalls, owners |-> {}]}
=============================================================================
