--------------------------- MODULE AdmissionRules ---------------------------
(***************************************************************************)
(* Which files the analysis reports on.  A path is admitted when the file  *)
(* it names lies under one of the roots the caller asked for; the name is  *)
(* resolved against the working directory of the process, which the scan   *)
(* changes for each compile command.                                       *)
(*                                                                         *)
(* A resolved file is the sequence of its name components, so "/" is the   *)
(* empty sequence and "/a/b" is <<"a", "b">>.                              *)
(***************************************************************************)
EXTENDS Naturals, Sequences

CONSTANTS
  Path,        \* the spellings of files the scan asks about
  NoPath,      \* the null or empty path, never in Path
  Dir,         \* the working directories the scan moves between
  Name,        \* the components of resolved files
  Unresolved,  \* realpath's NULL
  RealPath,    \* [Path \X Dir -> Seq(Name) \cup {Unresolved}]
  Roots        \* options->paths after normalisation by realpath

ASSUME PathAssumption == NoPath \notin Path
ASSUME RealPathAssumption ==
  /\ DOMAIN RealPath = Path \X Dir
  /\ \A p \in Path, d \in Dir :
        RealPath[p, d] = Unresolved \/ RealPath[p, d] \in Seq(Name)
ASSUME RootsAssumption == Roots \subseteq Seq(Name)

(***************************************************************************)
(* The comparison the code makes on text: the root's characters, then the  *)
(* end of the string or a separator.  The text of the root directory ends  *)
(* in the separator itself, so only "/" passes the test against it.        *)
(***************************************************************************)
MatchesRoot(file, root) ==
  IF root = << >>
  THEN file = << >>
  ELSE Len(root) <= Len(file) /\ SubSeq(file, 1, Len(root)) = root

Resolves(path, dir) == RealPath[path, dir] # Unresolved

Verdict(path, dir) ==
  /\ Resolves(path, dir)
  /\ \E root \in Roots : MatchesRoot(RealPath[path, dir], root)

=============================================================================
