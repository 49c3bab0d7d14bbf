------------------------ MODULE CompileCommandProofs ------------------------
(***************************************************************************)
(* What p101_c_facts_with_compile_command does with a database of any      *)
(* length, whatever fails in it.                                           *)
(***************************************************************************)
EXTENDS CompileCommand, SequenceTheorems, TLAPS

Source(i) == commands[i].file = "source"

\* No entry of the source before this one, or an error says why it was missed.
NoneBefore(i) == err \/ \A j \in 1 .. i - 1 : ~ Source(j)

\* What is held at each place of the loop, and at which entry that is.
Holding ==
  /\ pc \in {"begin", "load", "search", "return"} => held = {}
  /\ pc = "compare" => held \subseteq {Filename}
  /\ pc = "allocate" => held \subseteq {Filename, Directory}
  /\ pc \in {"copy", "release"} => held \subseteq Blocks(Current.arguments)
  /\ pc = "next" => held \subseteq {Filename}
  /\ pc \in {"compare", "allocate", "copy", "release", "next"} => at <= Len(commands)

\* Only an error explains a block that is missing where it is due.
Complete ==
  /\ pc = "compare" /\ ~ err => Filename \in held
  /\ pc \in {"allocate", "copy"} /\ ~ err => {Filename, Directory} \subseteq held
  /\ pc = "copy" /\ ~ err =>
       Array \in held /\ \A i \in 1 .. argument - 1 : Argument(i) \in held
  /\ pc = "release" /\ shown # << >> => Blocks(Current.arguments) \subseteq held
  /\ pc = "copy" => argument <= Current.arguments + 1

\* The first entry of the source is found, and it alone is shown.
Searching ==
  /\ pc \in {"begin", "load", "compare"} => ~ found
  /\ pc \in {"allocate", "copy", "release", "next"} => found
  /\ pc \in {"allocate", "copy"} => Source(at) /\ NoneBefore(at)
  /\ ~ found /\ pc \in {"begin", "load", "search", "compare"} => NoneBefore(at)
  /\ ~ found \/ pc \in {"allocate", "copy"} => shown = << >> /\ ~ result

\* What the observer saw and said.
Showing ==
  /\ Len(shown) <= 1
  /\ shown # << >> => shown[1] \in 1 .. Len(commands) /\ Source(shown[1])
                      /\ \A j \in 1 .. shown[1] - 1 : ~ Source(j)
  /\ result => shown # << >> /\ ~ refused

\* Why nothing was shown, or why what was shown did not count.
Explaining ==
  /\ pc \in {"release", "next", "search"} /\ found /\ ~ err => result \/ refused
  /\ FailureIsExplained

Types ==
  /\ commands \in Seq(Command) /\ Len(commands) <= MaxCommands
  /\ at \in 1 .. Len(commands) + 1
  /\ argument \in 1 .. MaxArguments + 1
  /\ pc \in {"begin", "load", "search", "compare", "allocate", "copy", "release",
            "next", "return"}
  /\ open = IF pc \in {"begin", "load", "return"} THEN {} ELSE {"database", "commands"}
  /\ given \in BOOLEAN /\ found \in BOOLEAN /\ result \in BOOLEAN
  /\ err \in BOOLEAN /\ refused \in BOOLEAN
  /\ shown \in Seq(Nat)

IInv == Types /\ Holding /\ Complete /\ Searching /\ Showing /\ Explaining
-----------------------------------------------------------------------------
\* What a sequence of bounded length is.
LEMMA BoundedSequences ==
  ASSUME NEW S, NEW n \in Nat, NEW s
  PROVE  s \in BoundedSeq(S, n) <=> s \in Seq(S) /\ Len(s) <= n
<1>1. s \in BoundedSeq(S, n) <=> \E m \in 0 .. n : s \in [1 .. m -> S]
  BY DEF BoundedSeq, SeqOf
<1>2. ASSUME NEW m \in 0 .. n, s \in [1 .. m -> S]
      PROVE  s \in Seq(S) /\ Len(s) <= n
  <2>1. m \in Nat /\ m <= n
    OBVIOUS
  <2>2. s \in Seq(S) /\ Len(s) = m
    BY <1>2
  <2>3. QED
    BY <2>2
<1>3. ASSUME s \in Seq(S), Len(s) <= n
      PROVE  \E m \in 0 .. n : s \in [1 .. m -> S]
  <2>1. Len(s) \in 0 .. n /\ s \in [1 .. Len(s) -> S]
    BY <1>3
  <2>2. QED
    BY <2>1
<1>4. QED
  BY <1>1

\* The call starts with nothing held and nothing found.
LEMMA Start == Init => IInv
<1> SUFFICES ASSUME Init PROVE IInv
  OBVIOUS
<1>1. commands \in Seq(Command) /\ Len(commands) <= MaxCommands /\ Len(commands) \in Nat
  BY BoundedSequences, BoundAssumption DEF Init
<1>2. Types
  <2>1. at \in 1 .. Len(commands) + 1 /\ argument \in 1 .. MaxArguments + 1
    BY BoundAssumption DEF Init
  <2>2. shown \in Seq(Nat)
    BY DEF Init
  <2>3. QED
    BY <1>1, <2>1, <2>2 DEF Init, Types
<1>3. Holding /\ Complete /\ Searching /\ Showing /\ Explaining
  BY DEF Init, Holding, Complete, Searching, NoneBefore, Showing, Explaining,
     FailureIsExplained
<1>4. QED
  BY <1>2, <1>3 DEF IInv

\* Every action keeps it.
LEMMA Step == IInv /\ [Next]_vars => IInv'
<1> SUFFICES ASSUME IInv, [Next]_vars PROVE IInv'
  OBVIOUS
<1> USE BoundAssumption
<1> USE DEF IInv, data
<1>1. Len(commands) \in Nat /\ \A i \in 1 .. Len(commands) : commands[i] \in Command
  BY DEF Types
<1>2. CASE NothingGiven
  BY <1>2 DEF NothingGiven, Types, Holding, Complete, Searching, Showing, Explaining,
     FailureIsExplained
<1>3. CASE BeginFails
  BY <1>3 DEF BeginFails, Types, Holding, Complete, Searching, Showing, Explaining,
     FailureIsExplained
<1>4. CASE Begin
  BY <1>4 DEF Begin, Types, Holding, Complete, Searching, NoneBefore, Source, Showing,
     Explaining, FailureIsExplained
<1>5. CASE LoadFails
  BY <1>5 DEF LoadFails, Types, Holding, Complete, Searching, Showing, Explaining,
     FailureIsExplained
<1>6. CASE Load
  BY <1>6 DEF Load, Types, Holding, Complete, Searching, NoneBefore, Source, Showing,
     Explaining, FailureIsExplained
<1>7. CASE CopyFilename
  <2>1. Types'
    BY <1>7 DEF CopyFilename, Copied, Types
  <2>2. Holding'
    BY <1>7 DEF CopyFilename, Copied, Holding
  <2>3. Complete'
    BY <1>7 DEF CopyFilename, Copied, Complete
  <2>4. Searching'
    BY <1>7 DEF CopyFilename, Copied, Searching, NoneBefore, Source
  <2>5. Showing'
    BY <1>7 DEF CopyFilename, Showing, Source
  <2>6. Explaining'
    BY <1>7 DEF CopyFilename, Explaining, FailureIsExplained
  <2>7. QED
    BY <2>1, <2>2, <2>3, <2>4, <2>5, <2>6
<1>8. CASE NextCommand
  <2>1. Types'
    BY <1>8 DEF NextCommand, Types, Holding
  <2>2. Holding'
    BY <1>8 DEF NextCommand, Holding
  <2>3. Complete'
    BY <1>8 DEF NextCommand, Complete
  <2>4. Searching'
    BY <1>8 DEF NextCommand, Matches, Searching, NoneBefore, Source, Types,
       Complete, Current
  <2>5. Showing'
    BY <1>8 DEF NextCommand, Showing, Source
  <2>6. Explaining'
    BY <1>8 DEF NextCommand, Explaining, FailureIsExplained, Searching
  <2>7. QED
    BY <2>1, <2>2, <2>3, <2>4, <2>5, <2>6
<1>9. CASE CopyDirectory
  <2>1. Types'
    BY <1>9 DEF CopyDirectory, Copied, Types
  <2>2. Holding'
    BY <1>9 DEF CopyDirectory, Copied, Holding
  <2>3. Complete'
    BY <1>9 DEF CopyDirectory, Copied, Complete
  <2>4. Searching'
    BY <1>9 DEF CopyDirectory, Copied, Matches, Searching, NoneBefore, Source, Current
  <2>5. Showing'
    BY <1>9 DEF CopyDirectory, Showing, Source
  <2>6. Explaining'
    BY <1>9 DEF CopyDirectory, Explaining, FailureIsExplained
  <2>7. QED
    BY <2>1, <2>2, <2>3, <2>4, <2>5, <2>6
<1>10. CASE Allocate
  <2>1. Types'
    <3>1. argument' \in 1 .. MaxArguments + 1
      BY <1>10 DEF Allocate
    <3>2. QED
      BY <1>10, <3>1 DEF Allocate, Copied, Types
  <2>2. Holding'
    BY <1>10 DEF Allocate, Copied, Holding, Blocks
  <2>3. Complete'
    BY <1>1, <1>10 DEF Allocate, Copied, Complete, Types, Holding, Current, Command
  <2>4. Searching'
    BY <1>10 DEF Allocate, Copied, Searching, NoneBefore, Source
  <2>5. Showing'
    BY <1>10 DEF Allocate, Showing, Source
  <2>6. Explaining'
    BY <1>10 DEF Allocate, Explaining, FailureIsExplained
  <2>7. QED
    BY <2>1, <2>2, <2>3, <2>4, <2>5, <2>6
<1>11. CASE CopyArgument
  <2>1. Types'
    <3>1. argument' \in 1 .. MaxArguments + 1
      BY <1>1, <1>11 DEF CopyArgument, Copying, Types, Holding, Current, Command
    <3>2. QED
      BY <1>11, <3>1 DEF CopyArgument, Copied, Types
  <2>2. Holding'
    BY <1>11 DEF CopyArgument, Copying, Copied, Holding, Types, Current, Blocks
  <2>3. Complete'
    <3>1. argument \in Nat /\ argument' = argument + 1 /\ Current.arguments \in Nat
      BY <1>1, <1>11 DEF CopyArgument, Copying, Types, Holding, Current, Command
    <3>2. argument' <= Current'.arguments + 1
      BY <3>1, <1>11 DEF CopyArgument, Copying, Current
    <3>3. ~ err' => ~ err /\ held \subseteq held' /\ Argument(argument) \in held'
      BY <1>11 DEF CopyArgument, Copied
    <3>4. ~ err' => \A i \in 1 .. argument' - 1 : Argument(i) \in held'
      BY <3>1, <3>3, <1>11 DEF CopyArgument, Complete
    <3>5. pc' = "copy"
      BY <1>11 DEF CopyArgument
    <3>6. QED
      BY <3>2, <3>3, <3>4, <3>5, <1>11 DEF CopyArgument, Complete
  <2>4. Searching'
    BY <1>11 DEF CopyArgument, Copied, Searching, NoneBefore, Source
  <2>5. Showing'
    BY <1>11 DEF CopyArgument, Showing, Source
  <2>6. Explaining'
    BY <1>11 DEF CopyArgument, Explaining, FailureIsExplained
  <2>7. QED
    BY <2>1, <2>2, <2>3, <2>4, <2>5, <2>6
<1>12. CASE Observe
  <2>1. Types'
    BY <1>12 DEF Observe, Types
  <2>2. Holding'
    BY <1>12 DEF Observe, Holding, Current
  <2>3. Complete'
    BY <1>1, <1>12 DEF Observe, Copying, Shows, Complete, Types, Holding, Current,
       Blocks, Command
  <2>4. Searching'
    BY <1>12 DEF Observe, Searching
  <2>5. Showing'
    BY <1>12 DEF Observe, Shows, Showing, Searching, Holding, NoneBefore, Source, Types
  <2>6. Explaining'
    BY <1>12 DEF Observe, Explaining, FailureIsExplained
  <2>7. QED
    BY <2>1, <2>2, <2>3, <2>4, <2>5, <2>6
<1>13. CASE DoNotObserve
  <2>1. Types'
    BY <1>13 DEF DoNotObserve, Types
  <2>2. Holding'
    BY <1>13 DEF DoNotObserve, Holding, Current
  <2>3. Complete'
    BY <1>13 DEF DoNotObserve, Complete, Searching
  <2>4. Searching'
    BY <1>13 DEF DoNotObserve, Searching
  <2>5. Showing'
    BY <1>13 DEF DoNotObserve, Showing, Source
  <2>6. Explaining'
    BY <1>13 DEF DoNotObserve, Shows, Explaining, FailureIsExplained, Complete
  <2>7. QED
    BY <2>1, <2>2, <2>3, <2>4, <2>5, <2>6
<1>14. CASE Release
  <2>1. Types'
    BY <1>14 DEF Release, Types
  <2>2. Holding'
    BY <1>14 DEF Release, Holding
  <2>3. Complete'
    BY <1>14 DEF Release, Complete
  <2>4. Searching'
    BY <1>14 DEF Release, Searching
  <2>5. Showing'
    BY <1>14 DEF Release, Showing, Source
  <2>6. Explaining'
    BY <1>14 DEF Release, Explaining, FailureIsExplained
  <2>7. QED
    BY <2>1, <2>2, <2>3, <2>4, <2>5, <2>6
<1>15. CASE SearchDone
  <2>1. Types'
    BY <1>15 DEF SearchDone, Types
  <2>2. Holding'
    BY <1>15 DEF SearchDone, Holding
  <2>3. Complete'
    BY <1>15 DEF SearchDone, Complete
  <2>4. Searching'
    BY <1>15 DEF SearchDone, Searching
  <2>5. Showing'
    BY <1>15 DEF SearchDone, Showing, Source
  <2>6. Explaining'
    BY <1>15 DEF SearchDone, Explaining, FailureIsExplained
  <2>7. QED
    BY <2>1, <2>2, <2>3, <2>4, <2>5, <2>6
<1>16. CASE UNCHANGED vars
  BY <1>16 DEF vars, Types, Holding, Complete, Searching, Showing, Explaining,
     FailureIsExplained, NoneBefore, Source, Current
<1>17. QED
  BY <1>2, <1>3, <1>4, <1>5, <1>6, <1>7, <1>8, <1>9, <1>10, <1>11, <1>12, <1>13,
     <1>14, <1>15, <1>16 DEF Next

\* It holds of every state of every call.
LEMMA Invariant == Spec => []IInv
BY Start, Step, PTL DEF Spec

-----------------------------------------------------------------------------
\* The variables keep their types, however long the database and whatever fails.
THEOREM TypeCorrect == Spec => []TypeOK
<1>1. IInv => TypeOK
  <2> SUFFICES ASSUME IInv PROVE TypeOK
    OBVIOUS
  <2>1. shown \in BoundedSeq(1 .. MaxCommands, 1)
    <3>1. shown \in Seq(1 .. MaxCommands)
      BY BoundAssumption DEF IInv, Types, Showing
    <3>2. QED
      BY <3>1, BoundedSequences DEF IInv, Showing
  <2>2. held \subseteq Blocks(MaxArguments)
    <3>1. CASE pc \in {"copy", "release"}
      <4>1. Current.arguments \in 0 .. MaxArguments
        <5>1. at \in 1 .. Len(commands) /\ commands[at] \in Command
          BY <3>1 DEF IInv, Types, Holding
        <5>2. QED
          BY <5>1 DEF Current, Command
      <4>2. QED
        BY <3>1, <4>1, BoundAssumption DEF IInv, Holding, Blocks
    <3>2. CASE pc \notin {"copy", "release"}
      BY <3>2 DEF IInv, Types, Holding, Blocks
    <3>3. QED
      BY <3>1, <3>2
  <2>3. QED
    BY <2>1, <2>2 DEF IInv, Types, TypeOK
<1>2. QED
  BY Invariant, <1>1, PTL

\* Every copy is freed and every libclang object disposed of when the call returns,
\* and no copy outlives the body of the loop.
THEOREM BlocksAreFreed == Spec => []NothingIsLeaked
<1>1. IInv => NothingIsLeaked
  BY DEF IInv, Types, Holding, NothingIsLeaked
<1>2. QED
  BY Invariant, <1>1, PTL

\* The observer sees one command, of the first entry of the source, and whole.
THEOREM FirstCommandIsShown == Spec => []OneCommandIsShown
<1>1. IInv => OneCommandIsShown
  <2> SUFFICES ASSUME IInv PROVE OneCommandIsShown
    OBVIOUS
  <2>1. \A i \in DOMAIN shown : i = 1
    BY DEF IInv, Showing
  <2>2. pc = "release" /\ shown # << >> => held = Blocks(Current.arguments)
    BY DEF IInv, Holding, Complete
  <2>3. shown # << >> => Len(shown) = 1
    <3>1. shown \in Seq(Nat) /\ Len(shown) <= 1
      BY DEF IInv, Types, Showing
    <3>2. Len(shown) \in Nat /\ (shown # << >> => Len(shown) # 0)
      OBVIOUS
    <3>3. \A n \in Nat : n <= 1 /\ n # 0 => n = 1
      OBVIOUS
    <3>4. QED
      BY <3>1, <3>2, <3>3, Zenon
  <2>4. QED
    BY <2>2, <2>3 DEF IInv, Showing, Source, OneCommandIsShown
<1>2. QED
  BY Invariant, <1>1, PTL

\* A false without an error was the observer's answer, or nothing was given.
THEOREM FalseIsExplained == Spec => []FailureIsExplained
<1>1. IInv => FailureIsExplained
  BY DEF IInv, Explaining
<1>2. QED
  BY Invariant, <1>1, PTL

-----------------------------------------------------------------------------
(* The call that finds a database in the first place, ProjectDiscovery.    *)
(* Its variables are not those above, whatever their names.                *)

VARIABLES line, fits, files, path, opens, closes, late

Discovery == INSTANCE ProjectDiscovery

\* The stream of .last-build-dir is open from its opening to its closing.
StreamIsClosed ==
  /\ pc = "begin" => opens = 0
  /\ pc \in {"read", "close"} => opens = 1 /\ closes = 0

\* The search goes on as long as nothing is found and nothing has failed.
SearchGoesOn ==
  /\ pc \in {"begin", "read"} => path = Discovery!Empty
  /\ pc \in {"begin", "read", "fallback"} => ~ found /\ ~ err
  /\ pc = "close" => ~ (found /\ err)
  /\ pc \in {"begin", "read", "close"} => ~ late

\* A path found could be read; behind that only the closing may fail.
FoundIsReadable ==
  /\ found => path \in files
  /\ pc = "close" /\ found => path.database = "named"
  /\ found /\ err => late /\ path.database = "named"
  /\ pc = "returned" /\ ~ found => path = Discovery!Empty

DiscoveryInv ==
  Discovery!TypeOK /\ StreamIsClosed /\ SearchGoesOn /\ FoundIsReadable

\* What the buffer may hold.
LEMMA Formatted ==
  \A database \in Discovery!Database :
    Discovery!Format(database) => path' \in Discovery!Path /\ path'.database = database
BY DEF Discovery!Format, Discovery!Path, Discovery!Database

\* The inductive invariant of the search.
LEMMA DiscoveryInvariant == Discovery!Spec => []DiscoveryInv
<1>1. Discovery!Init => DiscoveryInv
  <2> SUFFICES ASSUME Discovery!Init PROVE DiscoveryInv
    OBVIOUS
  <2> USE DEF Discovery!Init
  <2>1. opens \in 0 .. 1 /\ closes \in 0 .. opens /\ opens = 0
    OBVIOUS
  <2>2. {found, err, late} \subseteq BOOLEAN /\ ~ found /\ ~ err /\ ~ late
    OBVIOUS
  <2>3. QED
    BY <2>1, <2>2 DEF DiscoveryInv, Discovery!TypeOK, StreamIsClosed, SearchGoesOn,
       FoundIsReadable
<1>2. DiscoveryInv /\ [Discovery!Next]_(Discovery!vars) => DiscoveryInv'
  <2> SUFFICES ASSUME DiscoveryInv, [Discovery!Next]_(Discovery!vars) PROVE DiscoveryInv'
    OBVIOUS
  <2> USE DEF DiscoveryInv, Discovery!TypeOK, StreamIsClosed, SearchGoesOn, FoundIsReadable,
              Discovery!input, Discovery!Raise
  <2>1. CASE Discovery!BeginFails
    BY <2>1 DEF Discovery!BeginFails
  <2>2. CASE Discovery!NoLastBuild
    BY <2>2 DEF Discovery!NoLastBuild
  <2>3. CASE Discovery!OpenFails
    BY <2>3 DEF Discovery!OpenFails
  <2>4. CASE Discovery!Open
    BY <2>4 DEF Discovery!Open
  <2>5. CASE Discovery!ReadFails
    BY <2>5 DEF Discovery!ReadFails
  <2>6. CASE Discovery!ReadNoClangBuild
    BY <2>6 DEF Discovery!ReadNoClangBuild
  <2>7. CASE Discovery!FormatNamedFails
    BY <2>7 DEF Discovery!FormatNamedFails
  <2>8. CASE Discovery!CheckNamed
    BY <2>8, Formatted DEF Discovery!CheckNamed, Discovery!Database
  <2>9. CASE Discovery!CloseAfterError
    BY <2>9 DEF Discovery!CloseAfterError
  <2>10. CASE Discovery!Close
    BY <2>10 DEF Discovery!Close
  <2>11. CASE Discovery!FormatFallbackFails
    BY <2>11 DEF Discovery!FormatFallbackFails
  <2>12. CASE Discovery!CheckFallback
    BY <2>12, Formatted DEF Discovery!CheckFallback, Discovery!Database
  <2>13. CASE Discovery!Return
    BY <2>13 DEF Discovery!Return
  <2>14. CASE UNCHANGED Discovery!vars
    BY <2>14 DEF Discovery!vars
  <2>15. QED
    BY <2>1, <2>2, <2>3, <2>4, <2>5, <2>6, <2>7, <2>8, <2>9, <2>10, <2>11, <2>12, <2>13,
       <2>14 DEF Discovery!Next
<1>3. QED
  BY <1>1, <1>2, PTL DEF Discovery!Spec

\* The stream of .last-build-dir is closed exactly once, however the call ends.
THEOREM SearchClosesItsStream == Discovery!Spec => []Discovery!TypeOK
<1>1. DiscoveryInv => Discovery!TypeOK
  BY DEF DiscoveryInv
<1>2. QED
  BY DiscoveryInvariant, <1>1, PTL

\* The buffer holds a path exactly when one was found, and that one was readable.
THEOREM BufferHoldsTheAnswer == Discovery!Spec => []Discovery!AnswerIsInTheBuffer
<1>1. DiscoveryInv => Discovery!AnswerIsInTheBuffer
  BY DEF DiscoveryInv, FoundIsReadable, Discovery!AnswerIsInTheBuffer
<1>2. QED
  BY DiscoveryInvariant, <1>1, PTL

\* Nothing is found after an error: one that stands beside an answer came of
\* closing the stream behind it.
THEOREM NothingIsFoundAfterAnError == Discovery!Spec => []Discovery!ErrorsEndTheSearch
<1>1. DiscoveryInv => Discovery!ErrorsEndTheSearch
  BY DEF DiscoveryInv, FoundIsReadable, Discovery!ErrorsEndTheSearch
<1>2. QED
  BY DiscoveryInvariant, <1>1, PTL

=============================================================================
