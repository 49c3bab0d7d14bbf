--------------------------- MODULE CompileCommand ---------------------------
(***************************************************************************)
(* p101_c_facts_with_compile_command: find the first entry of the          *)
(* compilation database that names the source, copy its command out of     *)
(* libclang, and show the copy to an observer.                             *)
(*                                                                         *)
(* Any call may fail, and the error object keeps the first error while the *)
(* search goes on.  A database entry is what realpath makes of its file:   *)
(* the source itself, another file, or a file that is not there.           *)
(***************************************************************************)
EXTENDS Naturals, Sequences, SequencesExt, FiniteSets

CONSTANTS
  MaxCommands,  \* bound: entries of the database
  MaxArguments  \* bound: arguments of one command

ASSUME BoundAssumption == MaxCommands \in Nat /\ MaxArguments \in Nat

Command == [file : {"source", "other", "absent"}, arguments : 0 .. MaxArguments]

VARIABLES
  given,     \* whether the caller gave a database, a source and an observer
  commands,  \* the entries of the database
  at,        \* command_index, from 1
  pc,        \* where the call stands
  argument,  \* argument_index
  open,      \* the libclang objects not disposed
  held,      \* the blocks not freed
  found,     \* found
  result,    \* result
  err,       \* whether the error object holds an error
  shown,     \* the entries the observer was called with
  refused    \* whether it returned false

Filename == <<"filename">>
Directory == <<"directory">>
Array == <<"arguments">>
Argument(i) == <<"argument", i>>

data == <<given, commands>>
vars == <<data, at, pc, argument, open, held, found, result, err, shown, refused>>

Init ==
  /\ given \in BOOLEAN
  /\ commands \in BoundedSeq(Command, MaxCommands)
  /\ at = 1
  /\ pc = "begin"
  /\ argument = 1
  /\ open = {}
  /\ held = {}
  /\ found = FALSE
  /\ result = FALSE
  /\ err = FALSE
  /\ shown = << >>
  /\ refused = FALSE

Current == commands[at]

\* copy_text: a block, or an error and no block.
Copied(blocks) ==
  \/ held' = held \cup blocks /\ UNCHANGED err
  \/ err' = TRUE /\ UNCHANGED held

-----------------------------------------------------------------------------
\* Without its three arguments the call returns before realpath can say why.
NothingGiven ==
  /\ pc = "begin" /\ ~ given
  /\ pc' = "return"
  /\ UNCHANGED <<data, at, argument, open, held, found, result, err, shown, refused>>

\* The source has no real path, or the database's does not fit the buffer.
BeginFails ==
  /\ pc = "begin" /\ given
  /\ err' = TRUE
  /\ pc' = "return"
  /\ UNCHANGED <<data, at, argument, open, held, found, result, shown, refused>>

Begin ==
  /\ pc = "begin" /\ given
  /\ pc' = "load"
  /\ UNCHANGED <<data, at, argument, open, held, found, result, err, shown, refused>>

LoadFails ==
  /\ pc = "load"
  /\ err' = TRUE
  /\ pc' = "return"
  /\ UNCHANGED <<data, at, argument, open, held, found, result, shown, refused>>

Load ==
  /\ pc = "load"
  /\ open' = {"database", "commands"}
  /\ pc' = "search"
  /\ UNCHANGED <<data, at, argument, held, found, result, err, shown, refused>>

CopyFilename ==
  /\ pc = "search" /\ ~ found /\ at <= Len(commands)
  /\ Copied({Filename})
  /\ pc' = "compare"
  /\ UNCHANGED <<data, at, argument, open, found, result, shown, refused>>

Matches == Filename \in held /\ Current.file = "source"

\* Faults: an operator named after a mistake (NextCommandAfterMatch,
\* ShowsRegardless, ReleaseUnlessError, NotFoundUnraised) is the definition that
\* follows it with the mistake in it; no other definition uses it.
NextCommandAfterMatch ==
  /\ pc = "next" \/ (pc = "compare" /\ ~ Matches)
  /\ held' = held \ {Filename}
  /\ at' = at + 1
  /\ found' = FALSE
  /\ pc' = "search"
  /\ UNCHANGED <<data, argument, open, result, err, shown, refused>>

\* The filename is freed at the end of the loop's body, matched or not.
NextCommand ==
  /\ pc = "next" \/ (pc = "compare" /\ ~ Matches)
  /\ held' = held \ {Filename}
  /\ at' = at + 1
  /\ pc' = "search"
  /\ UNCHANGED <<data, argument, open, found, result, err, shown, refused>>

CopyDirectory ==
  /\ pc = "compare" /\ Matches
  /\ found' = TRUE
  /\ Copied({Directory})
  /\ pc' = "allocate"
  /\ UNCHANGED <<data, at, argument, open, result, shown, refused>>

\* The array is allocated even when the directory was not.
Allocate ==
  /\ pc = "allocate"
  /\ Copied({Array})
  /\ argument' = 1
  /\ pc' = "copy"
  /\ UNCHANGED <<data, at, open, found, result, shown, refused>>

Copying == Array \in held /\ argument <= Current.arguments /\ ~ err

CopyArgument ==
  /\ pc = "copy" /\ Copying
  /\ Copied({Argument(argument)})
  /\ argument' = argument + 1
  /\ UNCHANGED <<data, at, pc, open, found, result, shown, refused>>

ShowsRegardless == Array \in held
Shows == {Array, Directory} \subseteq held /\ ~ err

Observe ==
  /\ pc = "copy" /\ ~ Copying /\ Shows
  /\ shown' = Append(shown, at)
  /\ result' \in BOOLEAN
  /\ refused' = ~ result'
  /\ err' \in BOOLEAN
  /\ pc' = "release"
  /\ UNCHANGED <<data, at, argument, open, held, found>>

DoNotObserve ==
  /\ pc = "copy" /\ ~ Copying /\ ~ Shows
  /\ pc' = "release"
  /\ UNCHANGED <<data, at, argument, open, held, found, result, err, shown, refused>>

ReleaseUnlessError ==
  /\ pc = "release"
  /\ held' = IF err THEN held ELSE held \cap {Filename}
  /\ pc' = "next"
  /\ UNCHANGED <<data, at, argument, open, found, result, err, shown, refused>>

\* Every argument there can be, copied or not: calloc left the others null.
Release ==
  /\ pc = "release"
  /\ held' = held \cap {Filename}
  /\ pc' = "next"
  /\ UNCHANGED <<data, at, argument, open, found, result, err, shown, refused>>

NotFoundUnraised ==
  /\ pc = "search" /\ (found \/ at > Len(commands))
  /\ open' = {}
  /\ pc' = "return"
  /\ UNCHANGED <<data, at, argument, held, found, result, err, shown, refused>>

SearchDone ==
  /\ pc = "search" /\ (found \/ at > Len(commands))
  /\ open' = {}
  /\ err' = (err \/ ~ found)
  /\ result' = (result /\ ~ err')
  /\ pc' = "return"
  /\ UNCHANGED <<data, at, argument, held, found, shown, refused>>

Next ==
  \/ NothingGiven \/ BeginFails \/ Begin \/ LoadFails \/ Load
  \/ CopyFilename \/ NextCommand \/ CopyDirectory \/ Allocate \/ CopyArgument
  \/ Observe \/ DoNotObserve \/ Release \/ SearchDone

Spec == Init /\ [][Next]_vars

-----------------------------------------------------------------------------
(* Properties.                                                             *)

Blocks(count) == {Filename, Directory, Array} \cup {Argument(i) : i \in 1 .. count}

TypeOK ==
  /\ at \in 1 .. Len(commands) + 1
  /\ argument \in 1 .. MaxArguments + 1
  /\ pc \in {"begin", "load", "search", "compare", "allocate", "copy", "release",
            "next", "return"}
  /\ open \in {{}, {"database", "commands"}}
  /\ held \subseteq Blocks(MaxArguments)
  /\ {found, result, err, refused} \subseteq BOOLEAN
  /\ shown \in BoundedSeq(1 .. MaxCommands, 1)

(* However the search ends, what was copied is freed and what libclang     *)
(* gave is disposed of, exactly when the loop leaves an entry.             *)
NothingIsLeaked ==
  /\ pc \in {"begin", "load", "search", "return"} => held = {}
  /\ pc = "return" => open = {}

(* The observer sees the first entry of the source and none after it, even *)
(* when entries before it could not be read, and sees it whole: with its   *)
(* directory and every argument.  True means that it saw one and accepted  *)
(* it.                                                                     *)
OneCommandIsShown ==
  /\ Len(shown) <= 1
  /\ pc = "release" /\ shown # << >> => held = Blocks(Current.arguments)
  /\ \A i \in DOMAIN shown :
       /\ commands[shown[i]].file = "source"
       /\ ~ \E j \in 1 .. shown[i] - 1 : commands[j].file = "source"
  /\ result /\ pc = "return" => Len(shown) = 1 /\ ~ refused

(* A false that comes without an error is the observer's own, or the       *)
(* caller's who gave no observer to ask.                                   *)
FailureIsExplained ==
  pc = "return" /\ ~ result /\ ~ err => refused \/ ~ given

=============================================================================
