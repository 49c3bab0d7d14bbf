# A formal model of lib_c_facts

`lib_c_facts` reads C and C++ projects with libclang and hands the facts it
finds (functions, calls, includes, notes on error handling, ...) to an
observer, and it parses the tab-separated `P101FACT` lines those facts are
printed as. This directory holds TLA+ modules translated from its four source
files, TLC configurations that check them on small instances, and proofs that
hold for every instance: of every safety property that the runs check, of the
three refinements, and of the composition of the scan with the units it visits. Paths below are relative to the repository; line
numbers are those of the modelled commit.

To check: `tlc -config PathAdmission.cfg MCPathAdmission`, and likewise for the
other rows of "The runs"; `tlapm PathAdmissionProofs.tla`, and likewise for the
other modules whose name ends in `Proofs`.

## 1. The system

One call of `p101_c_analysis_scan` is one thread of C that runs from start to
end; nothing in the library is concurrent and nothing is persisted. What makes
it hard is elsewhere: every wrapper call may fail and leaves its error in a
shared object, one mutable context is saved and put back around every node of
a tree of any shape, the process's working directory is moved between units,
fixed buffers and tables cut off silently, and the observer may refuse any
record.

| Part | State it keeps | Operations | Hard about it |
| --- | --- | --- | --- |
| Path admission cache (`analysis.c` 345-534) | hash table, count and capacity in the session; working directory of the process | `path_is_admitted`, `path_admission_cache_reserve`, `path_admission_cache_destroy` | probing, growth, failure half way, staleness |
| Scan driver (`analysis.c` 4328-4488, 5306-5691) | the walk over roots, directories or compile commands, DIR streams, `previous_directory`, `stopped`, `result` | `p101_c_analysis_scan`, `scan_compile_database`, `scan_directory`, `scan_source` | two signals of failure, many ways out, recursion |
| Argument filter (`analysis.c` 4053-4330) | `parse_arguments`, `argument_index`, `has_sysroot` | the loop of `scan_source` over one compile command | values that look like options, the array's end |
| Visitor: error-flow notes (`analysis.c` 2806-2905, 3100-3250, 3261-3493) | pending, checked and result identities, conditional depth, `inside_return` in `scan_context` | `visit_cursor`, `emit_cursor_record` | what is put back after each kind of node |
| Visitor: tables of one function (`analysis.c` 1622-1711, 1809-1842, 2770-2799, 4756-5014) | environment borrows, checked path, uncertain progress, signal bindings | notes on borrows, TOCTOU, retries, signals | capacity of 16, truncation, invalidation order |
| Visitor: macro expansion ranges (`analysis.c` 2185-2294) | a growing array for one unit | collect, look up | growth and its failure |
| Visitor: records and notes (`analysis.c` 536-2574, 2576-3260, 4490-4677, 4887-5263) | `current_function`, `current_enum` and `stopped` in `scan_context` | `emit_record`, `emit_note`, classification of AST nodes | which record stops the visit, which scope it names |
| Mutation candidates (`analysis.c` 3727-4036) | none | one candidate of an operator or call | which token, and which predicate to swap for |
| Fact line parser (`facts.c` 60-321, 623-732) | the fact under construction | `p101_c_fact_parse_line` | columns and counts written by hand |
| Names of kinds, notes, statuses, mutations (`facts.c` 324-621, `analysis.c` 5693-5756) | none | constant tables and their inverse | none; every entry is tested |
| Compile command lookup (`compile_command.c`) | one entry's copies, libclang objects | `p101_c_facts_with_compile_command` | partial copies, error pending while the search goes on |
| Project discovery (`project.c`) | the stream of `.last-build-dir`, the caller's buffer | `p101_c_facts_find_clang_compile_database` | nine ways out, cut paths |

Outside: libclang, the `p101_*` wrappers and libc are modelled by how `src/`
uses them (a call succeeds, or fails and leaves an error); the build files,
Unity and the generated fault tests are not modelled.

How the parts meet:

- The scan driver calls the admission cache for each command
  (`analysis.c:5534`), and the visitor calls it for each cursor and inclusion.
  The cache lives in the session and outlives units; the working directory its
  relative paths depend on is moved by `scan_source` between units.
- The driver passes each file through the argument filter, parses it, and runs
  the visitor over it with a fresh `scan_context`. The visitor reports through
  `emit_record` to the caller's observer; a refusal sets `stopped`, a failed
  wrapper call sets the error object, and the driver must hear both.
- `compile_command.c` and `project.c` are used by callers before a scan, and
  `facts.c` by readers of what a scan printed.

What makes each part correct:

- *Admission cache*: the table is always a complete open-addressing table, no
  entry is lost in growth, no probe runs for ever, no failure leaves it half
  changed, and seen from outside it is a memo of verdicts.
- *Scan driver*: nothing is parsed after a failure; true means every wanted
  file was parsed and all it owes the observer was handed over; false has a
  cause; streams and the working directory are given back on every way out; the
  walk ends.
- *Argument filter*: libclang reads the command as the compiler would, minus
  what is not admitted; no option is torn from its value; one system root.
- *Records and notes*: an error or a refusal is heard before the next cursor's
  record; true means that every admitted declaration, call, macro, file and
  serious diagnostic was handed over; a record names the function and
  enumeration it lies in; a call is blamed for its position by where it stands
  in the source and by nothing else.
- *Mutation candidates*: one per operator and call, no token twice, and a
  predicate is only swapped for one that can be meant.
- *Error-flow notes*: a note says of the program what its text claims, judged
  by an account of what really happened in the function.
- *Tables of one function*: a note that rests on something met earlier rests on
  something that happened, in this function, and still holds; nothing is
  forgotten while there is room.
- *Fact parser*: no column beyond the line's is read; accepted facts hold the
  documented columns, all of them converted.
- *Compile command lookup*: one complete command is shown, everything is
  freed, and a failure has a reason.
- *Project discovery*: the stream is closed, the buffer agrees with the
  answer, and no answer comes after an error.

## 2. The modules

Each module starts with what it leaves out. An operator named after another
definition and a mistake (`PlaceTwice`, `LeaveFailedParseInPlace`) is that
definition as a plausible bug would have it; no specification uses it, and
substituting it for the definition shows that the property named beside it in
`PROJECT.json` can fail. A module whose name ends in `Proofs` extends the module
it is named after with an inductive invariant, lemmas and theorems; section 4
says what they are.

### PathAdmission, AdmissionRules, AdmissionMemo, MCPathAdmission, PathAdmissionProofs

`AdmissionRules` holds the question itself: what `realpath` makes of a path in
a directory, and whether that lies under a root at a component boundary
(`analysis.c` 468-492). `AdmissionMemo` is the abstract specification: a set
of recorded verdicts; ask, recall, decide, refuse, forget.

`PathAdmission` is the table. `table`, `capacity` and `count` are the session's
fields; a free slot is an entry whose path is `NoPath`. A call of
`path_is_admitted` is several steps, with `pc` naming the loop or call it
stands at: `Call` computes the home slot, `LookupNext`/`LookupHit`/`LookupMiss`
are the first loop, `Resolve` and `ResolveFails` the `realpath` and the root
comparison, `ReserveEnough`/`ReserveGrow`/`ReserveFails` the load test and
`calloc`, `RehashSkip`/`RehashEntry`/`PlaceNext`/`Place`/`RehashDone` the two
nested loops of the rehash, `Copy`/`CopyFails` the `copy_text`, and
`InsertNext`/`Insert` the last loop. `Destroy` ends the session and
`ChangeDirectory` is `scan_source` moving the process between calls. The mask
`capacity - 1` is written as a remainder: capacities are powers of two, because
the first is 64 and each growth doubles. The overflow test on `capacity * 2` is
one of the ways `ReserveFails` covers.

### ScanDriver, ScanOfUnits, ScanContract, MCScanDriver, ScanDriverProofs

The C functions break off when their callee returns false and none starts a
callee once its own `result` is false, so the locals called `result` are one
variable `ok`; the error object is `err`, and is separate. `stack` holds the
`scan_directory` calls in progress with the entries `readdir` has not handed
out yet, `streams` counts open DIR streams, `saved` is `previous_directory`,
`stopped` and `records` belong to the unit's context. Each call that can fail
has a failing action (`OpenFails`, `ReadFails`, `EntryFails`, `SourceFails`,
`ParseFails`, `VisitFails`, ...). `Record(outcome)` lets the observer accept,
refuse, or be cut short by an error. `Resume` is the return to whichever caller
is waiting. `refusals`, `unparsed` and `attempted` are history variables for
the properties. `ScanContract` is the abstract specification: what a caller may
rely on with no walk in sight. `DirectoriesBelow`, which says what the roots
lead to, is the least set closed under "the entries that are not skipped", so
that directory links may form circles. What happens inside a unit is left as loose as can be:
records, refusals and errors in any order, and an end at any time.

`ScanOfUnits` composes the driver with the units it visits. It extends
`ScanDriver` and takes `UnitContract` as an instance with which it shares
`stopped` (a field of the scan context) and `err` (the error object); the other
variables of the unit (`owed`, `heard`, `place`, `result`) are its own. A step
inside a visit is a step of both: `ReportRecord` is a record of the driver and
a report of the unit, `FailInUnit` a failing call in both, `EndUnit` the end of
the visit as the contract has it. `StartUnit` gives the unit a fresh context
with any set of places that owe a record, and `LeaveUnit` drops it. `told` is a
history variable: the files of which nothing is owed any more. Of a file that
clang cannot parse nothing is owed when the caller asked to keep going. The
three levels meet here: `RecordStream` is shown to keep `UnitContract`, and the
driver with units that do so is shown to keep `ScanContract`. The driver's own
theorems are about `Safety` (of `ScanDriver`), which the composed specification
`ScanSpec` implies (`UnitsFitTheScan`).

### RecordStream, UnitContract, MCRecordStream, RecordStreamProofs

`RecordStream` is `scan_source` from the parsed unit to its result:
diagnostics, files, macro expansions, then the cursors, each by `visit_cursor`
around `emit_cursor_record`. A unit is a tree of places in the order in which
libclang presents them (`Presented`): the diagnostics and files, which hold
nothing, then each cursor with what lies below it before the next one beside
it. The long function
`emit_cursor_record` is written as data: `Steps` maps a kind of place to the
sequence of what it hands over, each step a record (`Note`, `Own`), several
(`Roles`), or a call that can only fail (`Try`), with the question the code
asks before it: nothing (`"always"`), whether the visit is stopped (`"asked"`),
or whether the group the step stands in was entered (`"inside"`). The actions
`Emit`, `Omit` and `StepFails` carry a step out; `EmitRecord` is `emit_record`,
which alone makes a pending error a stop. Whether a note applies is open, but
for the records a place owes, `CALL_NOT_ISOLATED` and the mutations, whose
conditions are modelled (`Due`, `Covered`, `Isolated`, `OnlyWithRole`,
`FirstCandidate`). `Known` is the tally that `semantic_role_function_name` keeps
of the functions with a role; one without an identity is overlooked by it
(`analysis.c` 1103-1149). `Enter`, `EnterFunctionFails`, `EnterEnumFails` and `Leave`
are the saves and restores of `visit_cursor`; `Grow`, `GrowFails` and `Collect`
the array of macro expansions. `heard`, `blamed`, `mutated` and `last` are
history variables.

`UnitContract` is the abstract specification: what the observer of one unit,
and the scan around it, may rely on, with neither tree nor programs in sight. A
record stops the unit when it is refused or when an error is pending behind it;
another failure may or may not; no place is taken up once the unit is stopped;
and the two ways to end ask both `stopped` and `err`.

### ErrorFlow, MCErrorFlow, ErrorFlowProofs

`flow` is the part of `scan_context` the error-flow notes use; identities are
abstract, and the source offset that says when a pending result is complete is
the flag `passed`. `stack` holds the `visit_cursor` calls in progress with what
each saved. Entering a node is `EnterFunction`, `EnterConditional`,
`EnterReturn` or `EnterCall`, the leaves are `Goto`, `Reference` and `Assign`,
and `Leave` puts back what `visit_cursor` puts back for the node's kind. Any
tree may arise. `history` is an account, kept by the model and not by the code,
of what happened in the function: the last call that took an error on the
straight path, what has been queried since, and which results are owed a query.
It is what the notes are judged by. The language of the unit is a variable:
only C++ nests functions and has calls outside them.

### FunctionMemory, MCFunctionMemory, FunctionMemoryProofs

`bindings` and `bound` are the array and the count of the signal-action
bindings: a function starts by setting the count to zero, so places keep what
the function before wrote. `borrows` is the used part of `environment_borrows`;
the offset `invalidated_after` is the depth of the call the pointer is invalid
behind, and 0 once that call is over. `path` and `progress` are the checked
path and the uncertain call. `EnterCall` is what `emit_cursor_record` does to
these tables for one call in the order of the code (end the borrows, take one,
check a path, resolve, become uncertain); which of these a call does is its
role, a record of `Call`. `Bind` is `remember_signal_action_binding`, and
`BindFails` its failing copy, after the place was counted. Cursors are met in
preorder; `history` is the account in the order of evaluation, in which a call
takes effect when it is left. A borrow for which the two orders disagree is
`crossed`, and no property speaks of it. `Retries`, `ReportsBorrow` and
`Registered` are the conditions of the code for its notes.

### ArgumentFilter, FactParse, CompileCommand, ProjectDiscovery

`ArgumentFilterProofs`, `FactParseProofs` and `CompileCommandProofs` hold the
proofs about the first three, and the last of them those about
`ProjectDiscovery`, taken as an instance.

`ArgumentFilter` reduces spellings to the classes the loop distinguishes
(skipped, ignored with a value, semantic with a value, semantic alone, other);
an argument in `passed` carries where it came from. Any class may stand
anywhere, so an option's value may look like an option. `ReadAsValue` is a
compiler's reading of the command: an argument is a value if the one before it
takes one and is not a value itself.

`FactParse` reduces a line to its kind, its number of fields, whether tag and
version are right, and which columns are ill formed; a fact records for each
attribute the column it was read from. The table of `Own(kind)` is the switch
of `p101_c_fact_parse_line`, made a sequence of reads, so that a failing
conversion stops half way as it does in the code.

`CompileCommand` has one action per call that can fail; `held` is the set of
allocated blocks and `open` the libclang objects. `ProjectDiscovery` follows
the call through `.last-build-dir`, the close, and the `build-clang` fallback;
a path is which database it names and whether it is whole or cut off.

## 3. The runs

| Run | Instance and bounds | What it shows |
| --- | --- | --- |
| `path_admission` | 5 paths (3 with one home, 1 that wraps, 1 elsewhere), 2 directories, one root, first capacity 2 | two growths, wrap-around, chains of three, a relative path that means two files, every failure; the inductive invariant, refinement of `AdmissionMemo`, every call returns |
| `scan_driver` | 10 nodes, with or without a directory link back to the top, 3 roots or 4 commands, every set of options, depth 4; units of 2 places, every set of which may owe a record, and 2 records | contract of the scan with its units, working directory, streams, termination, with any call failing at any moment |
| `error_flow` | 2 errors, 1 result variable, trees nesting 3 deep in C and 2 in C++ | the notes are true and, for chains of two calls in a row, complete |
| `record_stream` | 3 units: nested functions and enumerations of C++ (27 places); calls in every position with 2 of 3 macro expansions collected (22 places), with and without detailed preprocessing; first capacity 1, at most 2 | refinement of `UnitContract`, scopes, isolation, mutations, with every record accepted, refused or cut short, and any call failing |
| `function_memory` | 3 signal actions, 3 variables, 2 places; 2 paths, 2 callees, 2 operations; trees nesting 3 deep in C and 2 in C++ | what is reported of the tables is true, and complete while there is room |
| `argument_filter` | commands of up to 5 arguments over 8 classes, 1 extra argument, array of 4 | the filter agrees with a compiler's reading of the command, and what happens at the array's end |
| `fact_parse` | every kind, 0 to 16 fields, up to one ill-formed column | accepted facts are the documented ones |
| `compile_command` | databases of up to 3 entries with up to 2 arguments | no leak, one complete command, explained failures |
| `project_discovery` | every content of the file, readable paths and failing call | stream, buffer and answer agree |
| `stale_verdict` | as `path_admission` | violated: section 6 |
| `refusal_fails` | as `scan_driver` | violated: section 6 |
| `cut_path` | as `project_discovery` | violated: section 6 |

Why the bounds are enough:

- *Cache.* The loops compare positions on a cycle, so what matters is that
  probes collide, wrap, stop at a free slot, and meet a growth in between.
  Capacities 2, 4 and 8 with five paths give all of it; the proofs cover the
  rest, the real first capacity of 64 included.
- *Driver.* One call can fail at any of its steps, so the interesting cases are
  combinations of where one is (nested directory, command with a build
  directory, a root that is a file) and what fails. Every file class, a skipped
  directory and a foreign source occur. Two places and two records in a unit
  allow a refusal after an accepted record, a place that is passed over, and a
  record of a place after an error at the one before. A unit that has used up
  its records or places and still owes one can only fail; the proofs hold for
  all values of both bounds. The depth of 4 at which `stat` gives up stands for
  the system's limit on path length or links; any depth that lets the link be
  followed shows the same.
- *Records.* A unit is fixed, and every way through it is explored. Together
  the units have each kind of place, admitted and not, with and without a name;
  a method inside a function between calls of that function; a named, an
  unnamed and a sibling enumeration inside an enumeration; calls alone, behind
  wrappers, in an assignment, in an operator, in another call, and from each
  kind of macro; nested operators that share a token; a role declared twice by
  one function and a role of two functions. One growth fills the array of
  ranges; capacity 1 makes the second range need it. A step that may repeat
  repeats without bound.
- *Error flow.* Three open cursors let a call, a query or a return sit in a
  conditional of a function; siblings are not bounded, so sequences of calls
  are as long as they like. C++ needs one level less to put a function inside
  something. Two errors and one variable make every comparison of identities
  go both ways.
- *Tables of one function.* A unit of the run uses one table (the tables share
  only the stack), and each has one identity more than places: the full table,
  one place written twice, and an identity without a place all occur. Three
  open cursors are a function and two nested calls; calls in a row are not
  bounded. The identities of one kind differ in nothing but their name, so
  signal actions and variables are symmetric.
- *Argument filter.* Four places write to the array and two want room for two:
  an array of 4 is filled by each of them. A command of five has room for an
  option, a value that is an option, and its value.
- *Others.* The inputs are enumerated whole up to the bound, and the code has
  no state that a longer input would reach: an entry of the database is
  forgotten when the next is taken up. One ill-formed column at a time is
  enough because the first ends the parse.

`CHECK_DEADLOCK FALSE` is set where the model stops for good when its call has
returned, or the session is destroyed, or the visit ended. `ScanOfUnits` states
its end as a stuttering step and is checked for deadlock.

Fairness is weak fairness of the code's own steps (`Work` in `PathAdmission`,
`ScanStep` in `ScanOfUnits`): one thread of straight-line code which nothing
suspends. The caller's steps (calling again, changing directory) have none, and
nothing is assumed of which way a step goes, so no call is assumed to succeed.
`Terminates` is about the walk: that each visit ends, going once through a
finite tree, is put into the model of a unit by its bounds.

## 4. What is proved

Each theorem below is `Spec => []P` or `Spec => R` for the whole specification
of its module (`Safety` for the driver alone, `ScanSpec` for the driver with its
units), and holds for every value of the constants that satisfies the
named assumptions of the module. TLC evaluates those assumptions in the runs,
and has checked each inductive invariant on the instances of the runs.

| Module | Theorem | What it states |
| --- | --- | --- |
| `PathAdmission` | `Inductive`, `TypeCorrect`, `AccessInBounds` | the inductive invariant; types; every index lies in its array |
| | `TableAlwaysSound`, `ResolvesEachPathOnce` | entries are found by probing and stored once; `realpath` is asked only about new paths |
| | `VerdictsStable` | `VerdictsKept`: no verdict is lost or changed before the session ends |
| | `LoadKept`, `ProbesCanStop` | the count is exact, the load below three quarters, a free slot remains in both tables |
| | `AnswersWereTrue`, `SteadyAnswersAreCurrent` | an answer is the verdict on the file that the path names in some directory of the scan, and for a path that names one file everywhere the verdict on the file it names now |
| | `CacheImplementsMemo` | `ImplementsMemo`: the table refines `AdmissionMemo` |
| `ScanDriver` | `TypeCorrect`, `NoStreamIsLost`, `EachUnitLeavesHome` | `TypeOK`, `StreamsBelongToCalls`, `HomeBetweenUnits` |
| `ScanOfUnits` | `UnitsFitTheScan` | a scan with its units is a behaviour of the driver, whose theorems hold of it |
| | `VisitsKeepTheirContract` | inside every visit each step is one of `UnitContract`, from its first state on |
| | `ScanKeepsContract` | `KeepsContract`: a scan with its units refines `ScanContract` |
| `RecordStream` | `TypeCorrect`, `RecordsAreScoped`, `CallsAreJudgedRight`, `SwapsAreUnambiguous`, `MutationsDiffer` | `TypeOK`, `RecordsNameTheirScope`, `CallsAreJudged`, `PredicatesAreSwapped`, `CandidatesAreDistinct` (where places differ in their marks) |
| | `EveryOfferIsTaken` | no place is named by two mutation candidates, and a true unit has named each that offers one |
| | `UnitKeepsContract` | `KeepsContract`: the unit refines `UnitContract` |
| `ErrorFlow` | `TypeCorrect`, `ScopesAreAncestors`, `ReportedChainsAreUnchecked`, `UncheckedChainsAreReported`, `ReportedOutputsAreUnchecked` | `TypeOK`, `ScopeMatchesAncestry`, `ChainsAreUnchecked`, `ChainsAreFound`, `OutputsAreUnchecked` |
| `FunctionMemory` | `TypeCorrect`, `RegisteredHandlersAreCurrent`, `ReportedBorrowsAreSpent`, `ReportedPathsWereChecked`, `ReportedRetriesAreUnresolved` | `TypeOK`, `HandlersAreCurrent`, `SpentBorrowsAreReported`, `PathsWereChecked`, `RetriesAreUnresolved` |
| `ArgumentFilter` | `TypeCorrect`, `CommandsArePassedWhole`, `ValuesFollowTheirOptions`, `SysrootIsChosenOnce` | `TypeOK`, `CommandIsPassedWhole`, `OptionsKeepTheirValues`, `OneSysroot` |
| `FactParse` | `TypeCorrect`, `OnlyGivenFieldsAreRead`, `AcceptedFactsMatch` | `TypeOK`, `ReadsGivenFields`, `FactsMatchTheTable` |
| `ProjectDiscovery` | `SearchClosesItsStream`, `BufferHoldsTheAnswer`, `NothingIsFoundAfterAnError` | `TypeOK`, `AnswerIsInTheBuffer`, `ErrorsEndTheSearch`; in `CompileCommandProofs`, of its instance `Discovery` |
| `CompileCommand` | `TypeCorrect`, `BlocksAreFreed`, `FirstCommandIsShown`, `FalseIsExplained` | `TypeOK`, `NothingIsLeaked`, `OneCommandIsShown`, `FailureIsExplained` |

Hardly any property is inductive as it stands. What each proof adds to them,
in a definition `IInv` that begins the module:

**Cache.** For every finite or infinite set of paths, every hash function into
the naturals, every first capacity of at least 2, every behaviour of `realpath`
and every sequence of calls. That an insertion keeps `TableSound` depends on
what the loop has passed. `IInv` adds (1) `ProbesSoFar`: the slots between the
home and the current slot are occupied, and during a lookup none holds the
request; (2) `RehashSoFar`: the new table holds exactly the verdicts of the
slots already moved and is itself sound; and (3) that a path being stored is
not stored already. The key lemmas are `ProbeOrder` (of two slots, one lies on
the probe path to the other), `LookupComplete` (a free slot ends the search
rightly) and `PlaceSound` (an entry put into the first free slot keeps the
table sound). `LoadFactor` is inductive relative to `IInv`, by `PlaceCount` and
`GrownHasRoom`, and a free slot follows by counting (`FreeByCount`). For the
refinement, every step but four leaves the memo alone, `RehashDone` swaps
tables with equal verdicts, and `Insert` is `Decide`, for which `VerdictInHand`
says that the verdict computed by `Resolve` is still the one to record.
`AnswerIsCurrent` is what the run `stale_verdict` finds violated; because every
recorded verdict was true in some directory (`Judged`), it holds of every path
but those that mean two files (`SteadyAnswersAreCurrent`): the spelling being
relative is the only way in which an answer can be out of date, as long as the
files themselves stay where they are (`RealPath` is a constant). It is also why
`ScanDriver` may take the verdict on a listed source, which is absolute, as a
constant (`Admitted`), with `CommandAdmissionFails` for the answers that an
error excuses.
`TableSound`, `LoadFactor` and `FreeSlotRemains` are proved but not listed in
the run: `IInv` contains the first, and a table that fills up shows there as a
call that does not return.

**Driver.** For every tree of files, circles of directory links included, every
list of roots and every database. `Calls` relates `pc` to the calls in progress
and their streams, `Standing` to the working directory and what `scan_source`
remembers of it. `Failing` says that each reason to fail makes `ok` false in
time and that nothing else does; it is what makes the two signals, `ok` and
`err`, agree with `Failed` on return. `OnTheWay` keeps the walk below the
roots, so that only wanted files are parsed. That true means all were parsed
is `NothingMissed`: for the walk, some set of directories was opened such that
whatever lies in them was parsed, is open, or is still left in a frame; when
the stack is empty that set is closed, and `DirectoriesBelow` is the least
closed set. `HomeAssumption` (`getcwd` gives a path that is not the null
pointer) is what lets `saved` tell whether there is a way back.

**Scan and units.** Besides, for every number of places in a unit. What the
driver's invariant lacks is what the observer was told. `Telling` says that
until something fails every parsed file but the one being visited is told in
full. A unit in which something failed or was refused ends false and makes
`Failed` true, so that a parsed file that is not told in full is one in which
something failed (`UntoldIsFailed`). By `BetweenVisits` the rest of the scan
neither begins a visit nor touches one; each visit begins as the contract of a
unit does, with no stop and no error inherited (`VisitsKeepTheirContract`).
Each step is then a step of `ScanContract` or changes nothing it shows
(`ContractStep`). Together with `UnitKeepsContract` this carries a failing call
from deep inside one cursor to the result of the whole scan. A scan that does
not end is not excluded by this, and `Terminates` stays with TLC.

**Unit.** For every list of units whose trees libclang may present
(`UnitAssumption`), every list of macro expansions and every capacity. `Path`
says that the frames are the places that the place at hand lies in, `Order`
that what is left in a frame are the places below it behind the one at hand,
and `NextInReach` that the place with the next number lies directly below one
of the frames: together they make `TakeUp` go from each place to the next
(`NextIsTaken`), so that none is passed over. `Scopes` says of every frame what
`RecordsNameTheirScope` says of a record, and of the fields what they are worth
below the innermost frame. `Macros` says that the array holds the ranges of the
expansions considered so far, so that `Covered` can be read off the unit
(`TextDecidesToBlame`), and `HolderOnPath` does the same for `Isolated` and the
tree. `Heard` and `Blamed` say what was asked of the places behind and of the
steps behind: their common step is `CoversStep`, for any set of places that owe
something and any set of words that give it. The tables of steps enter by
`ProgramsFit`, which says what the steps of each kind may be, and by `CallAsks`
and `MutationIsLast`, which say what is in the programs of calls and operators.
`KnownTallies` says what the count of functions with a role means, for
`Mutated`. `Chosen` says that each place with a candidate has named it once it
is behind: because the mutation is the last step of a program, a place that has
named its candidate is `Spent`, and stays so. Of every unit follows that no
place is named twice and, when it is true, each that offers a candidate is named
(`EveryOfferIsTaken`). That no token is named twice (`MutationsDiffer`) needs
besides that libclang gives no two places one mark (`MarksDiffer`): two
operators or callees do not begin with the same token, two call statements are
not the same text. The theorem has this as a hypothesis about the unit at hand;
the units of the run satisfy it, although the tokens behind the first repeat.

**Error flow.** For every set of errors and variables and every depth of
nesting. `Scoped` says of the context saved in every frame what
`ScopeMatchesAncestry` says of the current one. `Judged` relates the context to
the account kept of the function: what is pending is what the last call took
unless it was asked for, what was checked in a conditional was asked for since,
and a watched result is owed a query. `FunctionsFit` and `BranchesFit` say so of
what functions and conditionals give back when they are left, in C++ also while
a function inside the conditional has an account of its own.

**Tables of one function.** For every capacity, every program and every depth of
nesting. `SlotsFit` and `EntriesFit` say that no two slots have one owner and
that none is without a slot while there are slots; that a table too small is
the only excuse follows by counting. `BorrowsFit` says of each borrow that
either it stands and no call in progress will end it, or it is or will be ended
by the call that its depth names. `Resumes` says that what a function gives
back of the uncertain progress fits the account it gives back. Where the
property is confined to C functions (`InOneFunction`), so is the theorem.

**Argument filter.** For commands and arrays of every length and every set of
spellings. `AtArgument` says that while there is room the loop never stands at
a value, `PassedSoFar` that what was passed is what a compiler's reading admits
up to the current argument, and `Sysroots` what the flag knows.

**Fact parser.** For every number of fields and ill-formed columns. `ReadSoFar`
says that an attribute holds what was read for it last, and is zero before.
That the table is right for each kind (`Fits`, `Agrees`) is proved kind by kind.

**Compile commands.** For databases and commands of every length. `Complete`
says that only an error explains a block that is missing where it is due, and
`NoneBefore` that an entry of the source passed over has left an error.

**Project discovery.** The module has no constants, and TLC explores all of it;
the proof adds the reason. `StreamIsClosed` says that the stream is open from
its opening to its one closing, `SearchGoesOn` that the call only goes on while
nothing is found and nothing has failed, and `FoundIsReadable` what that leaves
to be said of an answer.

Three arguments recur. Among numbers there is a least (`LeastNumber`, from the
library's theorem that the finite subsets of a set are well founded under
inclusion): the induction over a tree, a command or a list takes the least
counterexample, because the induction theorems themselves are out of this
prover's reach. A frame is put on a stack and taken off it (`Pushed`, `Popped`).
And a refinement is proved by sorting the actions into those that show and
those that do not.

Only model-checked:

- `CallsReturn` and `Terminates`: liveness under fairness is out of the
  prover's reach.
That the visits of the composition are those of `RecordStream` rests on the
contract between them: `RecordStream` is proved to keep it and `ScanOfUnits` to
need no more, and no run puts the tree of a unit into a scan.

## 5. What is not modelled

- The conditions of most notes, among them the contracts of a function read
  off its types (`analysis.c` 603-820), and what a note says besides its name.
  These are classifications of libclang's data without state; there is nothing
  to interleave, and every order and outcome of them is in `RecordStream`.
- Which operators have a mutation, and the text put in their place: tables.
- That libclang presents an enumeration or structure under a `typedef` twice,
  and may present declarations again: each presentation is a place.
- Name tables, and the formatting and escaping of text (that of a fact line
  belongs to another library).
- The lists of option spellings and directory names: each is a class here.
- Truncation of identities in fixed buffers: identities are abstract.
- Roots whose text is empty after normalisation, which `realpath` never gives.

## 6. Where code and text disagree

Checked by a run that TLC finds violated:

1. `stale_verdict`: a relative path keeps the verdict of the directory it was
   first asked in, though `scan_source` changes directory between units
   (`analysis.c:451`, `4337`). `analysis.h:52` says an include is local when it
   resolves under an admitted root.
2. `refusal_fails`: with `keep_going`, what the observer answers to the
   diagnostic of a unit that cannot be parsed is not heard, and the scan
   returns true (`analysis.c:4374`). `test_analysis.c:837` expects a refused
   record to make the scan false.
3. `cut_path`: a path that the caller's buffer cuts off is reported as found
   when what is left names something readable (`project.c:160`).

Seen while modelling, without a run of their own:

- An `INCLUDE` line needs a tenth field, the resolved path (`facts.c:720`),
  which `README.md:25` does not have.
- Without detailed preprocessing no macro expansion is collected, and a call
  written by a function-like macro is reported as `CALL_NOT_ISOLATED`
  (`analysis.c:2193`), though the comment at `analysis.c:2176` says it is "not a
  call expression written by the student". `CallsAreJudged` is stated of units
  with detailed preprocessing.
- The source of a compile command is judged where the scan stands and parsed
  in the command's directory (`analysis.c:5534`, `4337`). A relative source
  names two files there: one outside every root may be parsed because another
  file of that name is inside, though `README.md:76` says that the API "reports
  only translation units admitted by the requested paths", and usually it is
  skipped because there is no such file where the scan stands. `ScanDriver`
  takes listed sources as absolute.
- `emit_record` does not ask whether the visit is stopped (`analysis.c:542`):
  the observer may be given notes of a cursor after it refused one of them.
- The list of directory names to skip is applied to files (`analysis.c:5342`):
  a source called `debug-log.c` is passed over by a scan that succeeds.
- The root `/` admits nothing below itself: after a root the code wants the end
  or a separator, and this root ends in the separator (`analysis.c:487`).
- `-iprefix DIR` is passed on without `DIR` (`analysis.c:4122`): the option is
  only in the list of prefixes.
- A command longer than 1024 arguments is cut off without a word
  (`analysis.c:4246`), and a default system root follows one given among the
  caller's extra arguments (`analysis.c:4320`).
- `/compile_commands.json` gives an empty directory name in
  `compile_command.c:106`; `scan_compile_database` guards against it.
- A relative `file` of a database entry is resolved in the process's directory
  (`compile_command.c:138`).
- A database found in `.last-build-dir` is returned as found even when closing
  that file then fails (`project.c:152`).
- The number of fields is judged before the version (`facts.c:112`), so a line
  of another version may be called malformed.
- The seventeenth environment borrow or signal action of a function is
  forgotten (`analysis.c:1688`, `4832`).
- In C++ a function's tables are emptied at its start and, but for uncertain
  progress, not put back at its end (`analysis.c:3395`): a local class's method
  erases those of the function around it.
- Assigning a borrowed pointer's variable anew mentions the variable before the
  call is met, so the assignment itself is reported as a use of the invalid
  pointer (`analysis.c:1660`).
- Of several checked paths only the last is remembered (`analysis.c:1819`).
- Assigning `SIG_DFL` to a signal action keeps the handler remembered before
  (`analysis.c:4814`).
- A retry is reported only when the operation is known on both sides
  (`analysis.c:2783`).

## 7. Plan

Built, in this order: `AdmissionRules`, `AdmissionMemo`, `PathAdmission` and
its proofs, because a wrong verdict silently changes every record; then
`ScanContract` and `ScanDriver`, `ErrorFlow`, `ArgumentFilter`, `FactParse`,
`CompileCommand`, `ProjectDiscovery`, `FunctionMemory`, and `UnitContract` with
`RecordStream`; then the proofs about `CompileCommand`, `ScanDriver`,
`ErrorFlow`, `FunctionMemory`, `ArgumentFilter`, `FactParse` and `RecordStream`;
then `ScanOfUnits`, which puts the driver and the units together, with its proof,
and the proof about `ProjectDiscovery`.

Left to do: the composition of `ScanDriver` with `AdmissionMemo`, in
which the driver's admission answers are questions to the memo and the working
directory is one variable. For absolute sources `SteadyAnswersAreCurrent` says
what it would show; relative ones are where code and text disagree (section 6).
