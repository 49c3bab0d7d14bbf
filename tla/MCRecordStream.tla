--------------------------- MODULE MCRecordStream ---------------------------
(***************************************************************************)
(* Three small units.  The first is a C++ function with a class inside it, *)
(* whose method comes between calls of the function, and enumerations in   *)
(* one another.  The second holds calls in every position and from every   *)
(* origin, with more macro expansions than fit the first array.  The third *)
(* is the second without detailed preprocessing.                           *)
(***************************************************************************)
EXTENDS RecordStream

Plain(kind, parent) ==
  [kind |-> kind, parent |-> parent, admitted |-> TRUE, named |-> TRUE, defined |-> TRUE,
   moved |-> FALSE, parens |-> TRUE, range |-> 0,
   tokens |-> << >>, role |-> "none", usr |-> 0]

Nested ==
  [detailed |-> TRUE, expansions |-> << >>,
   places |->
     << Plain("diagnostic", 0),
        [Plain("diagnostic", 0) EXCEPT !.named = FALSE],
        Plain("file", 0),
        [Plain("file", 0) EXCEPT !.admitted = FALSE],
        Plain("include", 0),
        [Plain("include", 0) EXCEPT !.named = FALSE],
        Plain("macro definition", 0),
        Plain("function", 0),
          Plain("parameter", 8),
          Plain("compound", 8),
            Plain("type", 10),
              Plain("function", 11),
                Plain("compound", 12),
                  Plain("call", 13),
            Plain("variable", 10),
            Plain("return", 10),
              Plain("call", 16),
                Plain("reference", 17),
        [Plain("function", 0) EXCEPT !.admitted = FALSE],
          Plain("result use", 19),
        Plain("enum", 0),
          Plain("enumerator", 21),
            [Plain("enum", 22) EXCEPT !.named = FALSE],
              Plain("enumerator", 23),
            Plain("enum", 22),
              Plain("enumerator", 25),
          Plain("enumerator", 21) >>]

Call(parent, range) == [Plain("call", parent) EXCEPT !.range = range]
Declared(usr, role) == [Plain("function", 0) EXCEPT !.usr = usr, !.role = role, !.defined = FALSE]

Calls ==
  [detailed |-> TRUE,
   expansions |-> << [range |-> 1, system |-> FALSE], [range |-> 7, system |-> TRUE],
                     [range |-> 2, system |-> FALSE] >>,
   places |->
     << Plain("macro expansion", 0),
        Plain("function", 0),
          Plain("compound", 2),
            [Call(3, 3) EXCEPT !.role = "positive", !.tokens = <<10, 12>>],
              Plain("unexposed", 4),
                [Call(5, 4) EXCEPT !.role = "positive", !.tokens = <<12>>],
            Plain("assignment", 3),
              [Plain("binary", 7) EXCEPT !.tokens = <<20, 21>>],
                [Plain("binary", 8) EXCEPT !.tokens = <<18>>],
                Call(8, 2),
                [Call(8, 5) EXCEPT !.moved = TRUE],
                [Call(8, 6) EXCEPT !.parens = FALSE],
              Plain("unexposed", 7),
                [Call(13, 8) EXCEPT !.role = "negative", !.tokens = <<30>>],
            Plain("label", 3),
              Call(15, 7),
            Call(3, 9),
            Plain("member", 3),
        Declared(101, "positive"), Declared(102, "negative"),
        Declared(103, "positive"), Declared(0, "negative"), Declared(102, "negative") >>]

MCUnits == << Nested, Calls, [Calls EXCEPT !.detailed = FALSE] >>
=============================================================================
