--------------------------- MODULE MCPathAdmission ---------------------------
(***************************************************************************)
(* Instances of PathAdmission.  "include/x.h" is a relative spelling that  *)
(* names a project file from one build directory, a vendored one from the  *)
(* other, and "gone.h" exists in only one of them.  The hashes make three  *)
(* paths collide and one of them wrap round the end of every table.        *)
(***************************************************************************)
EXTENDS PathAdmission

MCPath == {"include/x.h", "gone.h", "/p/a.c", "/usr/b.h", "/p/c.c"}
MCDir  == {"/p/build", "/v/build"}
MCName == {"p", "v", "usr", "build", "include", "a.c", "b.h", "c.c", "x.h", "gone.h"}

File(path, dir) ==
  CASE path = "include/x.h" /\ dir = "/p/build" -> <<"p", "build", "include", "x.h">>
    [] path = "include/x.h" /\ dir = "/v/build" -> <<"v", "build", "include", "x.h">>
    [] path = "gone.h" /\ dir = "/p/build" -> <<"p", "build", "gone.h">>
    [] path = "gone.h" /\ dir = "/v/build" -> "unresolved"
    [] path = "/p/a.c" -> <<"p", "a.c">>
    [] path = "/p/c.c" -> <<"p", "c.c">>
    [] path = "/usr/b.h" -> <<"usr", "b.h">>

MCRealPath == [question \in MCPath \X MCDir |-> File(question[1], question[2])]

ProjectRoot == {<<"p">>}

MCHash == [path \in MCPath |-> CASE path = "include/x.h" -> 7
                                 [] path = "gone.h" -> 7
                                 [] path = "/p/a.c" -> 7
                                 [] path = "/usr/b.h" -> 0
                                 [] path = "/p/c.c" -> 3]
=============================================================================
