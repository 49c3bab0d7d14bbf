----------------------------- MODULE ScanDriver -----------------------------
(***************************************************************************)
(* How p101_c_analysis_scan walks the translation units it was asked       *)
(* about: the commands of a compilation database, or the roots and the     *)
(* directories below them, and scan_source for each file it finds.         *)
(*                                                                         *)
(* Every call that can fail may fail here.  The C functions share one      *)
(* result: a function that returns false makes its caller break off and    *)
(* return false too, and none starts a callee once its own is false, so    *)
(* the local variables called result are one variable, ok.                 *)
(*                                                                         *)
(* What libclang and the visitor do inside one translation unit is reduced *)
(* to records handed to the observer and errors raised on the way.         *)
(* ScanOfUnits puts the visits of UnitContract in their place.             *)
(***************************************************************************)
EXTENDS Naturals, Sequences, FiniteSets

CONSTANTS
  Node,        \* files and directories under the roots
  Kind,        \* [Node -> {"directory", "source", "header", "other"}]
  Trees,       \* SUBSET [Node -> SUBSET Node], what the directories may hold
  Skipped,     \* the nodes whose last name component should_skip_directory lists
  Paths,       \* Seq(Node), the normalised roots
  Commands,    \* Seq(Node), the sources the compilation database lists
  BuildDir,    \* [Node -> directory of the source's compile command]
  Admitted,    \* the listed sources that lie under a root; all are absolute
  Home,        \* where the process starts
  NoDirectory, \* a null or empty directory
  MaxDepth,    \* how deep a path may nest before stat refuses it
  MaxRecords   \* bound: records observed in one translation unit

ASSUME KindAssumption ==
  /\ Kind \in [Node -> {"directory", "source", "header", "other"}]
  /\ Trees \subseteq [Node -> SUBSET Node]
  /\ Skipped \subseteq Node /\ Admitted \subseteq Node
\* getcwd answers with a path that is neither null nor empty.
ASSUME HomeAssumption == Home # NoDirectory
ASSUME WorkAssumption ==
  /\ Paths \in Seq(Node) /\ Commands \in Seq(Node)
  /\ MaxRecords \in Nat /\ MaxDepth \in Nat

VARIABLES
  entries,    \* the entries of each directory; nobody writes to them meanwhile
  options,    \* the caller's options and whether they are well formed
  pc,         \* where the scan stands
  next,       \* the command or root to take next
  stack,      \* the scan_directory calls in progress, innermost first
  streams,    \* how many DIR streams are open
  unit,       \* the file scan_source works on and its directory
  cwd,        \* the process's working directory
  saved,      \* previous_directory once scan_source has left it
  stopped,    \* the scan context's stopped
  records,    \* how many records the current unit has produced
  ok,         \* the result variables of the functions in progress
  err,        \* whether the error object holds an error
  refusals,   \* where the observer has returned false: "visit", "failed parse"
  unparsed,   \* whether clang has failed to parse some unit
  attempted,  \* the files handed to clang_parseTranslationUnit2
  returned    \* what p101_c_analysis_scan returned

walkVars == <<next, stack, streams>>
unitVars == <<unit, saved, stopped, records>>
history  == <<refusals, unparsed, attempted>>
input == <<entries, options>>
vars == <<input, pc, walkVars, unitVars, cwd, ok, err, history, returned>>

Top == stack[1]

Init ==
  /\ entries \in Trees
  /\ options \in [valid : BOOLEAN, database : BOOLEAN, headers : BOOLEAN,
                  keepGoing : BOOLEAN]
  /\ pc = "begin"
  /\ next = 1
  /\ stack = << >>
  /\ streams = 0
  /\ unit = [file |-> NoDirectory, dir |-> NoDirectory]
  /\ cwd = Home
  /\ saved = NoDirectory
  /\ stopped = FALSE
  /\ records = 0
  /\ ok = TRUE
  /\ err = FALSE
  /\ refusals = {}
  /\ unparsed = FALSE
  /\ attempted = {}
  /\ returned = FALSE

-----------------------------------------------------------------------------
(* Shared pieces.                                                          *)

\* A call fails and leaves its error in the error object.
Raise == err' = TRUE

\* A callee is done: its caller goes on, or breaks off when it returned false.
Resume(frames, result) ==
  /\ ok' = result
  /\ pc' = CASE options.database -> "commands"
             [] ~ options.database /\ frames = << >> -> "paths"
             [] ~ options.database /\ frames # << >> ->
                  IF result THEN "read" ELSE "close"

\* emit_record: what the observer may do with a record.
Observe(outcome, where) ==
  /\ outcome \in {"continue", "refuse", "raise"}
  /\ err' = (err \/ outcome = "raise")
  /\ refusals' = IF outcome = "refuse" THEN refusals \cup {where} ELSE refusals

\* scan_source goes back to previous_directory, if it left it.  With an error
\* already pending the call may or may not move the process.
LeaveDirectory ==
  /\ saved' = NoDirectory
  /\ \/ saved = NoDirectory /\ UNCHANGED <<cwd, err>>
     \/ saved # NoDirectory /\ cwd' = saved /\ UNCHANGED err
     \/ saved # NoDirectory /\ UNCHANGED cwd /\ Raise

-----------------------------------------------------------------------------
(* p101_c_analysis_scan                                                    *)

BeginFails ==
  /\ pc = "begin"
  /\ Raise
  /\ ok' = FALSE
  /\ pc' = "return"
  /\ UNCHANGED <<input, walkVars, unitVars, cwd, history, returned>>

Begin ==
  /\ pc = "begin"
  /\ options.valid
  /\ pc' = IF options.database THEN "database" ELSE "paths"
  /\ UNCHANGED <<input, walkVars, unitVars, cwd, ok, err, history, returned>>

NextPath ==
  /\ pc = "paths" /\ ok /\ next <= Len(Paths)
  /\ next' = next + 1

PathStatFails ==
  /\ NextPath
  /\ Raise
  /\ ok' = FALSE
  /\ UNCHANGED <<input, pc, stack, streams, unitVars, cwd, history, returned>>

PathIsDirectory ==
  /\ NextPath
  /\ Kind[Paths[next]] = "directory"
  /\ unit' = [file |-> Paths[next], dir |-> NoDirectory]
  /\ pc' = "open"
  /\ UNCHANGED <<input, stack, streams, saved, stopped, records, cwd, ok, err,
                 history, returned>>

PathIsUnit ==
  /\ NextPath
  /\ Kind[Paths[next]] \in {"source", "header"}
  /\ unit' = [file |-> Paths[next], dir |-> NoDirectory]
  /\ pc' = "source"
  /\ UNCHANGED <<input, stack, streams, saved, stopped, records, cwd, ok, err,
                 history, returned>>

PathIsOther ==
  /\ NextPath
  /\ Kind[Paths[next]] = "other"
  /\ UNCHANGED <<input, pc, stack, streams, unitVars, cwd, ok, err, history, returned>>

PathsDone ==
  /\ pc = "paths"
  /\ ~ ok \/ next > Len(Paths)
  /\ pc' = "return"
  /\ UNCHANGED <<input, walkVars, unitVars, cwd, ok, err, history, returned>>

Return ==
  /\ pc = "return"
  /\ returned' = (ok /\ ~ err)
  /\ pc' = "done"
  /\ UNCHANGED <<input, walkVars, unitVars, cwd, ok, err, history>>

-----------------------------------------------------------------------------
(* scan_compile_database                                                   *)

DatabaseFails ==
  /\ pc = "database"
  /\ Raise
  /\ ok' = FALSE
  /\ pc' = "return"
  /\ UNCHANGED <<input, walkVars, unitVars, cwd, history, returned>>

LoadDatabase ==
  /\ pc = "database"
  /\ pc' = "commands"
  /\ UNCHANGED <<input, walkVars, unitVars, cwd, ok, err, history, returned>>

NextCommand ==
  /\ pc = "commands" /\ ok /\ next <= Len(Commands)
  /\ next' = next + 1

\* The command could not be copied, or an error was pending before it was.
CommandFails ==
  /\ NextCommand
  /\ Raise
  /\ ok' = FALSE
  /\ UNCHANGED <<input, pc, stack, streams, unitVars, cwd, history, returned>>

\* The admission raises an error and answers no, which skips the command.
CommandAdmissionFails ==
  /\ NextCommand
  /\ ~ err
  /\ Raise
  /\ UNCHANGED <<input, pc, stack, streams, unitVars, cwd, ok, history, returned>>

CommandSkipped ==
  /\ NextCommand
  /\ ~ err
  /\ Commands[next] \notin Admitted \/ Kind[Commands[next]] # "source"
  /\ UNCHANGED <<input, pc, stack, streams, unitVars, cwd, ok, err, history, returned>>

CommandScanned ==
  /\ NextCommand
  /\ ~ err
  /\ Commands[next] \in Admitted /\ Kind[Commands[next]] = "source"
  /\ unit' = [file |-> Commands[next], dir |-> BuildDir[Commands[next]]]
  /\ pc' = "source"
  /\ UNCHANGED <<input, stack, streams, saved, stopped, records, cwd, ok, err,
                 history, returned>>

CommandsDone ==
  /\ pc = "commands"
  /\ ~ ok \/ next > Len(Commands)
  /\ pc' = "return"
  /\ UNCHANGED <<input, walkVars, unitVars, cwd, ok, err, history, returned>>

-----------------------------------------------------------------------------
(* scan_directory                                                          *)

OpenFails ==
  /\ pc = "open"
  /\ Raise
  /\ Resume(stack, FALSE)
  /\ UNCHANGED <<input, walkVars, unitVars, cwd, history, returned>>

Open ==
  /\ pc = "open"
  /\ stack' = <<[dir |-> unit.file, left |-> entries[unit.file]]>> \o stack
  /\ streams' = streams + 1
  /\ pc' = "read"
  /\ UNCHANGED <<input, next, unitVars, cwd, ok, err, history, returned>>

\* readdir fails, or an error was pending when it returned.
ReadFails ==
  /\ pc = "read"
  /\ Raise
  /\ ok' = FALSE
  /\ pc' = "close"
  /\ UNCHANGED <<input, walkVars, unitVars, cwd, history, returned>>

ReadEnd ==
  /\ pc = "read" /\ ~ err
  /\ Top.left = {}
  /\ pc' = "close"
  /\ UNCHANGED <<input, walkVars, unitVars, cwd, ok, err, history, returned>>

\* Faults.  An operator named after a definition and a mistake (NextEntryAgain)
\* is that definition with the mistake in it; no other definition uses it.
NextEntryAgain(e) ==
  /\ pc = "read" /\ ~ err
  /\ e \in Top.left
  /\ UNCHANGED stack

\* readdir hands out the entries in an order of its own.
NextEntry(e) ==
  /\ pc = "read" /\ ~ err
  /\ e \in Top.left
  /\ stack' = [stack EXCEPT ![1].left = @ \ {e}]

EntryFailsUnclosed(e) ==
  /\ NextEntry(e)
  /\ e \notin Skipped
  /\ Raise
  /\ ok' = FALSE
  /\ pc' = "paths"
  /\ UNCHANGED <<input, next, streams, unitVars, cwd, history, returned>>

\* The path is too long or stat fails, which it does when links nest too deep.
EntryFails(e) ==
  /\ NextEntry(e)
  /\ e \notin Skipped
  /\ Raise
  /\ ok' = FALSE
  /\ pc' = "close"
  /\ UNCHANGED <<input, next, streams, unitVars, cwd, history, returned>>

EntryIsDirectory(e) ==
  /\ NextEntry(e)
  /\ e \notin Skipped
  /\ Kind[e] = "directory" /\ Len(stack) < MaxDepth
  /\ unit' = [file |-> e, dir |-> NoDirectory]
  /\ pc' = "open"
  /\ UNCHANGED <<input, next, streams, saved, stopped, records, cwd, ok, err,
                 history, returned>>

IsUnit(e) == Kind[e] = "source" \/ (options.headers /\ Kind[e] = "header")

\* The name is looked at before stat tells a directory from a file.
EntryIsUnit(e) ==
  /\ NextEntry(e)
  /\ e \notin Skipped
  /\ IsUnit(e)
  /\ unit' = [file |-> e, dir |-> Top.dir]
  /\ pc' = "source"
  /\ UNCHANGED <<input, next, streams, saved, stopped, records, cwd, ok, err,
                 history, returned>>

EntryIgnored(e) ==
  /\ NextEntry(e)
  /\ e \in Skipped \/ (Kind[e] # "directory" /\ ~ IsUnit(e))
  /\ UNCHANGED <<input, pc, next, streams, unitVars, cwd, ok, err, history, returned>>

CloseTwice ==
  /\ pc = "close"
  /\ stack' = Tail(stack)
  /\ \/ streams' = streams - 1 /\ UNCHANGED err
     \/ streams' = streams - 2 /\ Raise
  /\ Resume(stack', ok /\ ~ err')
  /\ UNCHANGED <<input, next, unitVars, cwd, history, returned>>

\* closedir fails before the call takes effect and is tried once more; an
\* error pending from earlier makes it report failure, but closes the stream.
Close ==
  /\ pc = "close"
  /\ streams' = streams - 1
  /\ stack' = Tail(stack)
  /\ \/ UNCHANGED err
     \/ Raise
  /\ Resume(stack', ok /\ ~ err')
  /\ UNCHANGED <<input, next, unitVars, cwd, history, returned>>

-----------------------------------------------------------------------------
(* scan_source                                                             *)

\* An argument could not be formatted, the directory could not be entered,
\* or an error was pending: nothing is parsed and nothing is left behind.
SourceFails ==
  /\ pc = "source"
  /\ Raise
  /\ IF err /\ unit.dir # NoDirectory THEN cwd' \in {cwd, unit.dir}
                                      ELSE UNCHANGED cwd
  /\ Resume(stack, FALSE)
  /\ UNCHANGED <<input, walkVars, unitVars, history, returned>>

Enter ==
  /\ pc = "source" /\ ~ err
  /\ saved' = IF unit.dir # NoDirectory THEN cwd ELSE NoDirectory
  /\ cwd' = IF unit.dir # NoDirectory THEN unit.dir ELSE cwd
  /\ pc' = "parse"
  /\ UNCHANGED <<input, walkVars, unit, stopped, records, ok, err, history, returned>>

\* The diagnostic's own context is thrown away, and with it what the observer
\* answered.
ParseFails(outcome) ==
  /\ pc = "parse"
  /\ Observe(outcome, "failed parse")
  /\ unparsed' = TRUE
  /\ attempted' = attempted \cup {unit.file}
  /\ pc' = "leave failed parse"
  /\ UNCHANGED <<input, walkVars, unitVars, cwd, ok, returned>>

Parse ==
  /\ pc = "parse"
  /\ attempted' = attempted \cup {unit.file}
  /\ stopped' = FALSE
  /\ records' = 0
  /\ pc' = "visit"
  /\ UNCHANGED <<input, walkVars, unit, saved, cwd, ok, err, refusals, unparsed,
                 returned>>

\* A diagnostic, an inclusion or a cursor is reported.  A visit that has been
\* stopped may still report the rest of the cursor at hand.
Record(outcome) ==
  /\ pc = "visit" /\ records < MaxRecords
  /\ records' = records + 1
  /\ Observe(outcome, "visit")
  /\ stopped' = (stopped \/ outcome = "refuse" \/ err')
  /\ UNCHANGED <<input, pc, walkVars, unit, saved, cwd, ok, unparsed,
                 attempted, returned>>

\* Something the visit calls raises an error; not every place that does so
\* also stops the visit.
VisitFails ==
  /\ pc = "visit"
  /\ Raise
  /\ stopped' \in {stopped, TRUE}
  /\ UNCHANGED <<input, pc, walkVars, unit, saved, records, cwd, ok, history, returned>>

VisitDoneUnlessError ==
  /\ pc = "visit"
  /\ ok' = ~ err
  /\ pc' = "leave"
  /\ UNCHANGED <<input, walkVars, unitVars, cwd, err, history, returned>>

VisitDone ==
  /\ pc = "visit"
  /\ ok' = (~ stopped /\ ~ err)
  /\ pc' = "leave"
  /\ UNCHANGED <<input, walkVars, unitVars, cwd, err, history, returned>>

\* The result was taken before the directory is left.
Leave ==
  /\ pc = "leave"
  /\ LeaveDirectory
  /\ Resume(stack, ok)
  /\ UNCHANGED <<input, walkVars, unit, stopped, records, history, returned>>

LeaveFailedParseInPlace ==
  /\ pc = "leave failed parse"
  /\ saved' = NoDirectory
  /\ Resume(stack, options.keepGoing /\ ~ err)
  /\ UNCHANGED <<input, walkVars, unit, stopped, records, cwd, err, history, returned>>

LeaveFailedParse ==
  /\ pc = "leave failed parse"
  /\ LeaveDirectory
  /\ Resume(stack, options.keepGoing /\ ~ err')
  /\ UNCHANGED <<input, walkVars, unit, stopped, records, history, returned>>

Done == pc = "done" /\ UNCHANGED vars

Outcome == {"continue", "refuse", "raise"}

WalkPaths == PathStatFails \/ PathIsDirectory \/ PathIsUnit \/ PathIsOther \/ PathsDone
WalkCommands == CommandFails \/ CommandAdmissionFails \/ CommandSkipped
                \/ CommandScanned \/ CommandsDone
WalkDirectory ==
  \/ OpenFails \/ Open \/ ReadFails \/ ReadEnd \/ Close
  \/ \E e \in Node :
       EntryFails(e) \/ EntryIsDirectory(e) \/ EntryIsUnit(e) \/ EntryIgnored(e)
ScanUnit ==
  \/ SourceFails \/ Enter \/ Parse \/ VisitFails \/ VisitDone \/ Leave \/ LeaveFailedParse
  \/ \E outcome \in Outcome : ParseFails(outcome) \/ Record(outcome)

Step ==
  \/ BeginFails \/ Begin \/ Return
  \/ DatabaseFails \/ LoadDatabase
  \/ WalkPaths \/ WalkCommands \/ WalkDirectory \/ ScanUnit

Next == Step \/ Done

Safety == Init /\ [][Next]_vars

\* The scan is one thread of straight-line C; its caller waits for it.
Spec == Safety /\ WF_vars(Step)

-----------------------------------------------------------------------------
(* Properties.                                                             *)

TypeOK ==
  /\ entries \in Trees
  /\ options \in [valid : BOOLEAN, database : BOOLEAN, headers : BOOLEAN,
                  keepGoing : BOOLEAN]
  /\ pc \in {"begin", "database", "commands", "paths", "open", "read", "close",
             "source", "parse", "visit", "leave", "leave failed parse",
             "return", "done"}
  /\ next \in Nat /\ streams \in Nat /\ records \in 0 .. MaxRecords
  /\ stack \in Seq([dir : Node, left : SUBSET Node])
  /\ {ok, err, stopped, unparsed, returned} \subseteq BOOLEAN
  /\ refusals \subseteq {"visit", "failed parse"}
  /\ attempted \subseteq Node

(* A relative source of the next command, and the working directory of the *)
(* caller after the scan, mean what they did at the start: unless an error *)
(* is reported, scan_source is back where it was whenever it has returned, *)
(* whether its unit was parsed, refused or could not be parsed.            *)
HomeBetweenUnits ==
  ~ err /\ pc \notin {"parse", "visit", "leave", "leave failed parse"} => cwd = Home

(* Each open DIR stream belongs to a scan_directory call in progress, and  *)
(* none survives the scan: scan_directory closes on every way out.         *)
StreamsBelongToCalls ==
  /\ streams = Len(stack)
  /\ pc \in {"paths", "commands", "return", "done"} => streams = 0

Directory == {n \in Node : Kind[n] = "directory"}

\* The directories a walk from the roots leads to: those in every set that holds
\* the roots and, with a directory, the directories in it that are not skipped.
LeadsOn(S) ==
  /\ \A i \in DOMAIN Paths : Paths[i] \in Directory => Paths[i] \in S
  /\ \A d \in S : (entries[d] \ Skipped) \cap Directory \subseteq S

DirectoriesBelow == {d \in Directory : \A S \in SUBSET Directory : LeadsOn(S) => d \in S}

(* The files a scan with these options has to parse.                       *)
Wanted ==
  IF options.database
  THEN {n \in Admitted : Kind[n] = "source" /\ \E i \in DOMAIN Commands : Commands[i] = n}
  ELSE {n \in Node :
          \/ Kind[n] \in {"source", "header"} /\ \E i \in DOMAIN Paths : Paths[i] = n
          \/ IsUnit(n) /\ n \notin Skipped /\ \E d \in DirectoriesBelow : n \in entries[d]}

\* Whether the scan has a reason to return false.
Failed ==
  \/ err
  \/ "visit" \in refusals
  \/ unparsed /\ ~ options.keepGoing

(* "counts.stop = true; TEST_ASSERT_FALSE(p101_c_analysis_scan(...))"      *)
(* (test/test_analysis.c): a scan whose observer returns false fails.      *)
RefusalFailsTheScan == pc = "done" /\ refusals # {} => ~ returned

=============================================================================
