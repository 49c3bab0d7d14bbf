-------------------------- MODULE ProjectDiscovery --------------------------
(***************************************************************************)
(* p101_c_facts_find_clang_compile_database: the database of the build     *)
(* directory that .last-build-dir names, if a clang build was the last     *)
(* one, and otherwise the database of build-clang.                         *)
(*                                                                         *)
(* The answer goes into the caller's buffer.  snprintf reports a failure   *)
(* of its own, but a path that does not fit is cut off without an error:   *)
(* what the buffer then holds names some other file, or none.              *)
(***************************************************************************)
EXTENDS Naturals, FiniteSets

VARIABLES
  given,   \* whether the caller gave a directory and a buffer
  line,    \* what .last-build-dir says: "clang", "other" or "nothing"
  fits,    \* the databases whose path fits the buffer
  files,   \* the paths that can be read
  pc,      \* where the call stands
  path,    \* the caller's buffer
  opens,   \* streams opened
  closes,  \* streams closed
  found,   \* found
  err,     \* whether the error object holds an error
  late     \* whether that error was closing the stream

input == <<given, line, fits, files>>
vars == <<input, pc, path, opens, closes, found, err, late>>

Database == {"named", "fallback"}
Empty == [database |-> "none", whole |-> TRUE]
Path == [database : Database, whole : BOOLEAN]

Init ==
  /\ given \in BOOLEAN
  /\ line \in {"clang", "other", "nothing"}
  /\ fits \in SUBSET Database
  /\ files \in SUBSET Path
  /\ pc = "begin"
  /\ path = Empty
  /\ opens = 0
  /\ closes = 0
  /\ found = FALSE
  /\ err = FALSE
  /\ late = FALSE

Raise == err' = TRUE

\* p101_snprintf of a database's path into the buffer.
Format(database) == path' = [database |-> database, whole |-> database \in fits]

-----------------------------------------------------------------------------
\* Missing arguments, or the path of .last-build-dir cannot be formatted.
BeginFails ==
  /\ pc = "begin"
  /\ Raise
  /\ pc' = "done"
  /\ UNCHANGED <<input, path, opens, closes, found, late>>

NoLastBuild ==
  /\ pc = "begin" /\ given
  /\ pc' = "fallback"
  /\ UNCHANGED <<input, path, opens, closes, found, err, late>>

OpenFails ==
  /\ pc = "begin" /\ given
  /\ Raise
  /\ pc' = "done"
  /\ UNCHANGED <<input, path, opens, closes, found, late>>

Open ==
  /\ pc = "begin" /\ given
  /\ opens' = opens + 1
  /\ pc' = "read"
  /\ UNCHANGED <<input, path, closes, found, err, late>>

\* Faults: an operator named after a mistake (CloseAfterErrorAtExit,
\* CloseWithoutAsking, ReturnUncleared) is the definition that follows it with
\* the mistake in it.
\* The stream is closed without a look at how that went.
ReadFails ==
  /\ pc = "read"
  /\ Raise
  /\ closes' = closes + 1
  /\ pc' = "done"
  /\ UNCHANGED <<input, path, opens, found, late>>

ReadNoClangBuild ==
  /\ pc = "read" /\ line # "clang"
  /\ pc' = "close"
  /\ UNCHANGED <<input, path, opens, closes, found, err, late>>

FormatNamedFails ==
  /\ pc = "read" /\ line = "clang"
  /\ Raise
  /\ pc' = "close"
  /\ UNCHANGED <<input, path, opens, closes, found, late>>

CheckNamed ==
  /\ pc = "read" /\ line = "clang"
  /\ Format("named")
  /\ found' = (path' \in files)
  /\ pc' = "close"
  /\ UNCHANGED <<input, opens, closes, err, late>>

CloseAfterErrorAtExit ==
  /\ pc = "close" /\ err
  /\ pc' = "done"
  /\ UNCHANGED <<input, path, opens, closes, found, err, late>>

CloseAfterError ==
  /\ pc = "close" /\ err
  /\ closes' = closes + 1
  /\ pc' = "done"
  /\ UNCHANGED <<input, path, opens, found, err, late>>

CloseWithoutAsking ==
  /\ pc = "close" /\ ~ err
  /\ closes' = closes + 1
  /\ err' \in BOOLEAN
  /\ late' = err'
  /\ pc' = IF found THEN "done" ELSE "fallback"
  /\ UNCHANGED <<input, path, opens, found>>

\* fclose may fail once the database is found; the answer stands.
Close ==
  /\ pc = "close" /\ ~ err
  /\ closes' = closes + 1
  /\ err' \in BOOLEAN
  /\ late' = err'
  /\ pc' = IF err' \/ found THEN "done" ELSE "fallback"
  /\ UNCHANGED <<input, path, opens, found>>

FormatFallbackFails ==
  /\ pc = "fallback"
  /\ Raise
  /\ pc' = "done"
  /\ UNCHANGED <<input, path, opens, closes, found, late>>

CheckFallback ==
  /\ pc = "fallback"
  /\ Format("fallback")
  /\ found' = (path' \in files)
  /\ pc' = "done"
  /\ UNCHANGED <<input, opens, closes, err, late>>

ReturnUncleared ==
  /\ pc = "done"
  /\ pc' = "returned"
  /\ UNCHANGED <<input, path, opens, closes, found, err, late>>

Return ==
  /\ pc = "done"
  /\ path' = IF found THEN path ELSE Empty
  /\ pc' = "returned"
  /\ UNCHANGED <<input, opens, closes, found, err, late>>

Next ==
  \/ BeginFails \/ NoLastBuild \/ OpenFails \/ Open \/ ReadFails \/ ReadNoClangBuild
  \/ FormatNamedFails \/ CheckNamed \/ CloseAfterError \/ Close
  \/ FormatFallbackFails \/ CheckFallback \/ Return

Spec == Init /\ [][Next]_vars

-----------------------------------------------------------------------------
(* Properties.                                                             *)

(* The stream is closed once on every way through the call, whether or not *)
(* an error is pending, and never twice.                                   *)
TypeOK ==
  /\ pc \in {"begin", "read", "close", "fallback", "done", "returned"}
  /\ path \in Path \cup {Empty}
  /\ opens \in 0 .. 1 /\ closes \in 0 .. opens
  /\ pc \in {"fallback", "done", "returned"} => closes = opens
  /\ {found, err, late} \subseteq BOOLEAN

(* The caller's buffer holds a path exactly when the call says it does,    *)
(* and then one that could be read a moment ago.                           *)
AnswerIsInTheBuffer ==
  pc = "returned" => IF found THEN path \in files ELSE path = Empty

(* No answer is searched for, let alone found, after an error; only the    *)
(* closing of the stream may fail behind an answer.                        *)
ErrorsEndTheSearch ==
  pc = "returned" /\ found /\ err => late /\ path.database = "named"

(* "p101_c_facts_find_clang_compile_database(local_env, local_error,       *)
(* directory, tiny, sizeof(tiny))" is asserted to be false                 *)
(* (test/test_facts.c): a database whose path does not fit the buffer is   *)
(* not found, so what is found is the whole path of a database.            *)
FoundPathsFit == pc = "returned" /\ found => path.whole

=============================================================================
