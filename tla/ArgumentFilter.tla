--------------------------- MODULE ArgumentFilter ---------------------------
(***************************************************************************)
(* How scan_source chooses what libclang is told on its command line: the  *)
(* arguments of the compile command that matter to parsing, the caller's   *)
(* extra arguments, and the defaults the library was built with.           *)
(*                                                                         *)
(* The lists of spellings are reduced to what the loop asks of them.  Any  *)
(* text may stand anywhere in a command, the value of an option included.  *)
(***************************************************************************)
EXTENDS Naturals, Sequences, SequencesExt, FiniteSets

CONSTANTS
  MaxArguments,  \* ANALYSIS_MAX_ARGUMENTS
  MaxCommand,    \* bound: arguments of the compile command
  MaxExtra,      \* bound: extra arguments of the caller
  Spelling,      \* bound: the classes of argument that occur
  Defaults       \* which of "resource" and "sysroot" the build defines

ASSUME LimitAssumption ==
  /\ MaxArguments \in Nat /\ MaxCommand \in Nat \ {0} /\ MaxExtra \in Nat
  /\ Defaults \subseteq {"resource", "sysroot"}

\* "-c" and the source's own name.
Skipped == {"-c", "source"}
\* -o, -MF, -MT, -MQ followed by a value of their own.
TakesIgnoredValue == {"-o"}
\* The same with the value joined on.
IsOutput == {"-oFILE"}
\* -D, -I, -x, -isysroot, ... followed by a value of their own.
TakesSemanticValue == {"-D", "-isysroot"}
\* What the exact names and the prefixes of command_argument_is_semantic let
\* through: -DNAME, -ansi, --sysroot=DIR, ...; and -iprefix, whose value is an
\* argument of its own that the loop then judges on its own.
IsSemantic == {"-DNAME", "--sysroot=DIR"}
IsSysroot == {"-isysroot", "--sysroot=DIR"}

ASSUME SpellingAssumption ==
  Spelling \subseteq Skipped \cup TakesIgnoredValue \cup IsOutput \cup TakesSemanticValue
                     \cup IsSemantic \cup {"other"}

VARIABLES
  command,     \* the classes of the compile command's arguments
  extra,       \* how many extra arguments the caller gives
  index,       \* argument_index
  passed,      \* parse_arguments: where each one came from
  hasSysroot,  \* has_sysroot
  pc           \* "command", "extra", "resource", "sysroot", "done" or "failed"

vars == <<command, extra, index, passed, hasSysroot, pc>>

Given(i)   == [from |-> "command", at |-> i]
Extra(i)   == [from |-> "extra", at |-> i]
Default(n) == [from |-> "default", at |-> n]

Init ==
  /\ command \in BoundedSeq(Spelling, MaxCommand)
  /\ extra \in 0 .. MaxExtra
  /\ index = 1
  /\ passed = << >>
  /\ hasSysroot = FALSE
  /\ pc = "command"

-----------------------------------------------------------------------------
HasRoom == Len(passed) < MaxArguments

\* Faults: an operator named after a mistake (HasRoomForOne, SkipValueless,
\* DropOnlyTheValue, PassUnnoted) is the definition that follows
\* it with the mistake in it; no other definition uses it.
HasRoomForOne == Len(passed) + 1 <= MaxArguments

HasRoomForTwo == Len(passed) + 2 <= MaxArguments

\* The loop takes up the argument at index; the first is the compiler's name.
Looking(classes) ==
  /\ pc = "command"
  /\ index <= Len(command) /\ HasRoom
  /\ index # 1 /\ command[index] \in classes

Move(steps) == index' = index + steps /\ UNCHANGED <<command, extra, pc>>

SkipCompiler == pc = "command" /\ index = 1 /\ index <= Len(command) /\ HasRoom
                /\ Move(1) /\ UNCHANGED <<passed, hasSysroot>>

Skip == Looking(Skipped \cup IsOutput \cup {"other"})
        /\ Move(1) /\ UNCHANGED <<passed, hasSysroot>>

SkipValueless == Looking(TakesIgnoredValue) /\ Move(1) /\ UNCHANGED <<passed, hasSysroot>>

SkipWithValue == Looking(TakesIgnoredValue) /\ Move(2) /\ UNCHANGED <<passed, hasSysroot>>

NoteSysroot == hasSysroot' = (hasSysroot \/ command[index] \in IsSysroot)

PassWithValue ==
  /\ Looking(TakesSemanticValue)
  /\ index < Len(command) /\ HasRoomForTwo
  /\ NoteSysroot
  /\ passed' = passed \o <<Given(index), Given(index + 1)>>
  /\ Move(2)

DropOnlyTheValue ==
  /\ Looking(TakesSemanticValue)
  /\ ~ (index < Len(command) /\ HasRoomForTwo)
  /\ Move(1)
  /\ passed' = Append(passed, Given(index))
  /\ UNCHANGED hasSysroot

\* Without a value, or without room for both, only the option is dropped: what
\* follows it is taken up as an argument.
DropWithoutValue ==
  /\ Looking(TakesSemanticValue)
  /\ ~ (index < Len(command) /\ HasRoomForTwo)
  /\ Move(1)
  /\ UNCHANGED <<passed, hasSysroot>>

PassUnnoted ==
  /\ Looking(IsSemantic)
  /\ passed' = Append(passed, Given(index))
  /\ Move(1)
  /\ UNCHANGED hasSysroot

Pass ==
  /\ Looking(IsSemantic)
  /\ NoteSysroot
  /\ passed' = Append(passed, Given(index))
  /\ Move(1)

CommandDone ==
  /\ pc = "command"
  /\ index > Len(command) \/ ~ HasRoom
  /\ pc' = "extra"
  /\ index' = 1
  /\ UNCHANGED <<command, extra, passed, hasSysroot>>

PassExtra ==
  /\ pc = "extra" /\ index <= extra /\ HasRoom
  /\ passed' = Append(passed, Extra(index))
  /\ UNCHANGED hasSysroot
  /\ Move(1)

ExtraDone ==
  /\ pc = "extra"
  /\ index > extra \/ ~ HasRoom
  /\ pc' = "resource"
  /\ UNCHANGED <<command, extra, index, passed, hasSysroot>>

ResourceFails ==
  /\ pc = "resource" /\ "resource" \in Defaults /\ HasRoom
  /\ pc' = "failed"
  /\ UNCHANGED <<command, extra, index, passed, hasSysroot>>

Resource ==
  /\ pc = "resource"
  /\ passed' = passed \o IF "resource" \in Defaults /\ HasRoom
                         THEN <<Default("-resource-dir")>> ELSE << >>
  /\ pc' = "sysroot"
  /\ UNCHANGED <<command, extra, index, hasSysroot>>

Sysroot ==
  /\ pc = "sysroot"
  /\ passed' = passed \o IF "sysroot" \in Defaults /\ ~ hasSysroot /\ HasRoomForTwo
                         THEN <<Default("-isysroot"), Default("SYSROOT")>> ELSE << >>
  /\ pc' = "done"
  /\ UNCHANGED <<command, extra, index, hasSysroot>>

Next ==
  \/ SkipCompiler \/ Skip \/ SkipWithValue \/ PassWithValue \/ DropWithoutValue \/ Pass
  \/ CommandDone \/ PassExtra \/ ExtraDone \/ ResourceFails \/ Resource \/ Sysroot

Spec == Init /\ [][Next]_vars

-----------------------------------------------------------------------------
(* Properties.                                                             *)

(* parse_arguments has room for ANALYSIS_MAX_ARGUMENTS pointers, and the   *)
(* four places that write to it each check on their own.                   *)
TypeOK ==
  /\ Len(passed) <= MaxArguments
  /\ index \in 1 .. Len(command) + MaxExtra + 2
  /\ \A k \in DOMAIN passed :
       \/ passed[k] \in {Given(i) : i \in 2 .. Len(command)}
       \/ passed[k] \in {Extra(i) : i \in 1 .. extra}
       \/ passed[k] \in {Default(n) : n \in {"-resource-dir", "-isysroot", "SYSROOT"}}
  /\ hasSysroot \in BOOLEAN
  /\ pc \in {"command", "extra", "resource", "sysroot", "done", "failed"}

\* How a compiler reads a command: which arguments are the values of the option
\* before them.  The name of the compiler takes none.
ReadAsValue[i \in 1 .. MaxCommand] ==
  /\ i > 2 /\ i <= Len(command)
  /\ command[i - 1] \in TakesIgnoredValue \cup TakesSemanticValue
  /\ ~ ReadAsValue[i - 1]

\* The arguments the README says are admitted, with their values.
Admissible(i) ==
  \/ ~ ReadAsValue[i] /\ command[i] \in IsSemantic
  \/ ~ ReadAsValue[i] /\ command[i] \in TakesSemanticValue /\ i < Len(command)
  \/ ReadAsValue[i] /\ command[i - 1] \in TakesSemanticValue
Admitted == {i \in 2 .. Len(command) : Admissible(i)}
FromCommand == {k \in DOMAIN passed : passed[k].from = "command"}

(* A command that leaves room to spare is passed on as a compiler reads    *)
(* it: every admitted option with its value, in order, and nothing else,   *)
(* whatever texts the values happen to be.                                 *)
CommandIsPassedWhole ==
  pc = "extra" /\ HasRoom /\ HasRoomForTwo =>
    /\ {passed[k].at : k \in FromCommand} = Admitted
    /\ \A j, k \in FromCommand : j < k => passed[j].at < passed[k].at

PassedAsValue(k) ==
  /\ k > 1 /\ passed[k - 1].from = "command" /\ passed[k] = Given(passed[k - 1].at + 1)
  /\ command[passed[k - 1].at] \in TakesSemanticValue

(* Even a command that does not fit is not torn: an option that takes a    *)
(* value is passed with the argument behind it or not at all.              *)
OptionsKeepTheirValues ==
  \A k \in DOMAIN passed :
    /\ passed[k].from = "command"
    /\ command[passed[k].at] \in TakesSemanticValue
    /\ ~ PassedAsValue(k)
    => k < Len(passed) /\ passed[k + 1] = Given(passed[k].at + 1)

(* libclang is given one system root: the default never joins one that the *)
(* command chose, and is only left out without a choice for lack of room.  *)
OneSysroot ==
  LET chosen == {k \in DOMAIN passed :
                   /\ passed[k].from = "command"
                   /\ command[passed[k].at] \in IsSysroot
                   /\ ~ ReadAsValue[passed[k].at]}
      given  == {k \in DOMAIN passed : passed[k] = Default("-isysroot")}
  IN  /\ chosen = {} \/ given = {}
      /\ pc = "done" /\ "sysroot" \in Defaults /\ HasRoomForTwo =>
           chosen \cup given # {}

=============================================================================
