---------------------------- MODULE MCScanDriver ----------------------------
(***************************************************************************)
(* A small project: a directory with a source, a header, a text file, a    *)
(* nested directory and a build directory that is skipped, and a source    *)
(* named on its own; or a database that lists two admitted sources with    *)
(* different build directories, a foreign one and a header.  In one        *)
(* version of the tree a link leads from the nested directory back up.     *)
(***************************************************************************)
EXTENDS ScanOfUnits

MCNode == {"project", "a.c", "a.h", "notes", "nested", "b.c", "build-gcc", "c.c",
           "main.c", "foreign.c"}
MCKind == [n \in MCNode |-> CASE n \in {"project", "nested", "build-gcc"} -> "directory"
                              [] n \in {"a.c", "b.c", "c.c", "main.c", "foreign.c"} -> "source"
                              [] n = "a.h" -> "header"
                              [] n = "notes" -> "other"]
MCChildren == [n \in MCNode |-> CASE n = "project" -> {"a.c", "a.h", "nested", "build-gcc"}
                                  [] n = "nested" -> {"b.c", "notes"}
                                  [] n = "build-gcc" -> {"c.c"}
                                  [] OTHER -> {}]
MCSkipped == {"build-gcc"}
MCPaths == <<"project", "notes", "main.c">>
MCCommands == <<"a.c", "foreign.c", "main.c", "a.h">>
MCBuildDir == [n \in MCNode |-> IF n = "main.c" THEN "out" ELSE "build-gcc"]
MCAdmitted == {"a.c", "a.h", "b.c", "main.c"}

\* A link in the nested directory that leads back to the project.
LinkChildren == [MCChildren EXCEPT !["nested"] = {"project"}, !["project"] = {"a.c", "nested"}]
MCTrees == {MCChildren, LinkChildren}

=============================================================================
