-------------------------- MODULE ScanDriverProofs --------------------------
(***************************************************************************)
(* What a scan does for every tree of files, every list of roots and every *)
(* compilation database, whatever fails on the way.                        *)
(***************************************************************************)
EXTENDS ScanOfUnits, SequenceTheorems, TLAPS

Frame == [dir : Node, left : SUBSET Node]

Inside == {"parse", "visit", "leave", "leave failed parse"}

WalkTypes ==
  /\ entries \in Trees
  /\ options \in [valid : BOOLEAN, database : BOOLEAN, headers : BOOLEAN,
                  keepGoing : BOOLEAN]
  /\ pc \in {"begin", "database", "commands", "paths", "open", "read", "close",
             "source", "return", "done"} \cup Inside
  /\ next \in Nat \ {0}
  /\ stack \in Seq(Frame)
  /\ pc \in {"open", "source", "parse"} => unit.file \in Node

UnitTypes ==
  /\ records \in 0 .. MaxRecords
  /\ ok \in BOOLEAN /\ err \in BOOLEAN /\ stopped \in BOOLEAN
  /\ unparsed \in BOOLEAN /\ returned \in BOOLEAN
  /\ refusals \subseteq {"visit", "failed parse"}
  /\ attempted \subseteq Node

Types == WalkTypes /\ UnitTypes

\* Which functions are in progress, and how many streams they hold.
Calls ==
  /\ streams = Len(stack)
  /\ pc \in {"begin", "database", "commands", "paths", "return", "done"} => stack = << >>
  /\ pc \in {"read", "close"} => stack # << >>
  /\ options.database => stack = << >> /\ pc \notin {"paths", "open", "read", "close"}
  /\ pc \in {"database", "commands"} => options.database

\* Where the process stands, and what scan_source remembers of it.
Standing ==
  /\ pc \notin Inside => saved = NoDirectory /\ (~ err => cwd = Home)
  /\ pc \in Inside => IF saved = NoDirectory THEN cwd = Home ELSE saved = Home

\* A result is false for a reason, and each reason makes it false in time.
Failing ==
  /\ pc \in {"begin", "database", "open", "read", "source", "parse", "visit",
             "leave failed parse"} => ok
  /\ pc = "parse" => ~ err
  /\ ~ ok => Failed
  /\ ok /\ "visit" \in refusals => pc = "visit" /\ stopped
  /\ ok /\ unparsed /\ ~ options.keepGoing => pc = "leave failed parse"
  /\ pc = "visit" /\ stopped => err \/ "visit" \in refusals
  /\ pc = "leave failed parse" => unparsed

\* The walk stays below the roots and parses nothing that was not asked for.
OnTheWay ==
  /\ pc \in {"source", "parse"} => unit.file \in Wanted
  /\ pc = "open" => unit.file \in DirectoriesBelow
  /\ \A k \in 1 .. Len(stack) :
       stack[k].dir \in DirectoriesBelow /\ stack[k].left \subseteq entries[stack[k].dir]

OpeningNow(n) == pc = "open" /\ unit.file = n
ParsingNow(n) == pc \in {"source", "parse"} /\ unit.file = n
Left(d, e) == \E k \in 1 .. Len(stack) : stack[k].dir = d /\ e \in stack[k].left

\* A node that was met is done with or about to be, where S was opened.
RootMet(n, S) ==
  /\ Kind[n] = "directory" => n \in S \/ OpeningNow(n)
  /\ Kind[n] \in {"source", "header"} => n \in attempted \/ ParsingNow(n)
EntryMet(n, S) ==
  /\ Kind[n] = "directory" => n \in S \/ OpeningNow(n)
  /\ IsUnit(n) => n \in attempted \/ ParsingNow(n)

Walked(S) ==
  /\ \A i \in 1 .. Len(Paths) : i < next => RootMet(Paths[i], S)
  /\ \A d \in S : \A e \in entries[d] \ Skipped : EntryMet(e, S) \/ Left(d, e)

Listed(n) == Kind[n] = "source" /\ n \in Admitted

\* Until something fails, a loop ends when its work is done and passes nothing over.
LoopsEnd ==
  ok /\ ~ err =>
    /\ pc = "close" => stack[1].left = {}
    /\ pc = "return" => next > Len(IF options.database THEN Commands ELSE Paths)
CommandsMet ==
  ok /\ ~ err /\ options.database =>
    \A i \in 1 .. Len(Commands) :
      i < next /\ Listed(Commands[i]) =>
        Commands[i] \in attempted \/ ParsingNow(Commands[i])
TreeMet ==
  ok /\ ~ err /\ ~ options.database => \E S \in SUBSET Directory : Walked(S)

NothingMissed == LoopsEnd /\ CommandsMet /\ TreeMet

IInv == Types /\ Calls /\ Standing /\ Failing /\ OnTheWay /\ NothingMissed

-----------------------------------------------------------------------------
(* Stacks and sets of directories.                                         *)

\* A call is pushed in front of the calls in progress.
LEMMA Push ==
  ASSUME NEW f \in Frame, NEW s \in Seq(Frame)
  PROVE  /\ <<f>> \o s \in Seq(Frame) /\ <<f>> \o s # << >>
         /\ Len(<<f>> \o s) = Len(s) + 1
         /\ (<<f>> \o s)[1] = f
         /\ \A k \in 1 .. Len(s) : (<<f>> \o s)[k + 1] = s[k]
<1>1. <<f>> \in Seq(Frame) /\ Len(<<f>>) = 1 /\ <<f>>[1] = f
  OBVIOUS
<1>2. Len(s) \in Nat
  OBVIOUS
<1>3. /\ <<f>> \o s \in Seq(Frame) /\ Len(<<f>> \o s) = 1 + Len(s)
      /\ \A i \in 1 .. 1 + Len(s) : (<<f>> \o s)[i] = IF i <= 1 THEN <<f>>[i] ELSE s[i - 1]
  BY <1>1, ConcatProperties
<1>4. \A k \in 1 .. Len(s) : (<<f>> \o s)[k + 1] = s[k]
  <2>1. ASSUME NEW k \in 1 .. Len(s) PROVE (<<f>> \o s)[k + 1] = s[k]
    <3>1. k + 1 \in 1 .. 1 + Len(s) /\ ~ (k + 1 <= 1) /\ (k + 1) - 1 = k
      BY <1>2
    <3>2. QED
      BY <1>3, <3>1
  <2>2. QED
    BY <2>1
<1>5. QED
  BY <1>1, <1>2, <1>3, <1>4

\* The innermost call is popped.
LEMMA Pop ==
  ASSUME NEW s \in Seq(Frame), s # << >>
  PROVE  /\ Len(s) \in Nat \ {0}
         /\ Tail(s) \in Seq(Frame)
         /\ Len(Tail(s)) = Len(s) - 1
         /\ \A k \in 1 .. Len(s) - 1 : Tail(s)[k] = s[k + 1]
BY EmptySeq, HeadTailProperties

\* An entry is taken out of what the innermost call has left.
LEMMA Take ==
  ASSUME NEW s \in Seq(Frame), s # << >>, NEW e, NEW t,
         t = [s EXCEPT ![1].left = @ \ {e}]
  PROVE  /\ t \in Seq(Frame) /\ t # << >> /\ Len(t) = Len(s)
         /\ t[1].dir = s[1].dir /\ t[1].left = s[1].left \ {e}
         /\ \A k \in 2 .. Len(s) : t[k] = s[k]
<1>1. 1 \in 1 .. Len(s) /\ Len(s) \in Nat \ {0}
  BY EmptySeq
<1>2. s[1] \in Frame
  BY <1>1
<1> DEFINE f == [s[1] EXCEPT !.left = @ \ {e}]
<1>3. f \in Frame /\ f.dir = s[1].dir /\ f.left = s[1].left \ {e}
  BY <1>2 DEF Frame
<1>4. t = [s EXCEPT ![1] = f]
  OBVIOUS
<1> HIDE DEF f
<1>5. /\ t \in Seq(Frame) /\ Len(t) = Len(s)
      /\ \A j \in 1 .. Len(s) : t[j] = IF j = 1 THEN f ELSE s[j]
  <2>1. [s EXCEPT ![1] = f] \in Seq(Frame) /\ Len([s EXCEPT ![1] = f]) = Len(s)
    BY <1>1, <1>3, ExceptSeq
  <2>2. \A j \in 1 .. Len(s) : [s EXCEPT ![1] = f][j] = IF j = 1 THEN f ELSE s[j]
    BY <1>1, <1>3, ExceptSeq
  <2>3. QED
    BY <1>4, <2>1, <2>2
<1>6. t # << >>
  BY <1>1, <1>5
<1>7. QED
  BY <1>1, <1>3, <1>5, <1>6

\* The directories below the roots lead on to each other, as the least such set.
LEMMA BelowLeadsOn == DirectoriesBelow \in SUBSET Directory /\ LeadsOn(DirectoriesBelow)
BY DEF DirectoriesBelow, LeadsOn

\* They are in any other set that holds the roots and leads on.
LEMMA BelowIsLeast ==
  ASSUME NEW S \in SUBSET Directory, LeadsOn(S)
  PROVE  DirectoriesBelow \subseteq S
BY DEF DirectoriesBelow

\* What a tree holds are nodes.
LEMMA EntriesAreNodes ==
  ASSUME Types, NEW d \in Node
  PROVE  entries[d] \subseteq Node
<1>1. entries \in [Node -> SUBSET Node]
  BY KindAssumption DEF Types, WalkTypes
<1>2. QED
  BY <1>1

\* No action writes to the input, so what is wanted never changes.
LEMMA WantedIsFixed ==
  ASSUME UNCHANGED input
  PROVE  Wanted' = Wanted /\ DirectoriesBelow' = DirectoriesBelow
         /\ \A n : IsUnit(n)' = IsUnit(n)
BY DEF input, Wanted, DirectoriesBelow, Directory, LeadsOn, IsUnit

-----------------------------------------------------------------------------
(* The invariant holds at the start and is kept.                           *)

\* It holds before the scan begins.
LEMMA Start == Init => IInv
<1> SUFFICES ASSUME Init PROVE IInv
  OBVIOUS
<1>1. Types
  <2>1. records \in 0 .. MaxRecords /\ stack \in Seq(Frame) /\ next \in Nat \ {0}
    BY WorkAssumption DEF Init
  <2>2. QED
    BY <2>1 DEF Init, Types, WalkTypes, UnitTypes, Inside
<1>2. Calls /\ Standing
  BY DEF Init, Calls, Standing, Inside
<1>3. Failing /\ OnTheWay
  BY DEF Init, Failing, OnTheWay
<1>4. Walked({})
  BY WorkAssumption DEF Init, Walked
<1>5. NothingMissed
  BY <1>4 DEF Init, NothingMissed, LoopsEnd, CommandsMet, TreeMet
<1>6. QED
  BY <1>1, <1>2, <1>3, <1>5 DEF IInv

\* No action writes to the tree or to the options.
LEMMA InputIsFixed == [Next]_vars => UNCHANGED input
BY DEF Next, Step, WalkPaths, WalkCommands, WalkDirectory, ScanUnit, Done, vars,
       BeginFails, Begin, Return, DatabaseFails, LoadDatabase, PathStatFails,
       PathIsDirectory, PathIsUnit, PathIsOther, PathsDone, CommandFails,
       CommandAdmissionFails, CommandSkipped, CommandScanned, CommandsDone, OpenFails,
       Open, ReadFails, ReadEnd, Close, EntryFails, EntryIsDirectory, EntryIsUnit,
       EntryIgnored, SourceFails, Enter, Parse, VisitFails, VisitDone, Leave,
       LeaveFailedParse, ParseFails, Record


\* Each action keeps the types of what the walk works on.
LEMMA WalkTypesStep == IInv /\ [Next]_vars => WalkTypes'
<1> SUFFICES ASSUME IInv, [Next]_vars PROVE WalkTypes'
  OBVIOUS
<1> USE DEF WalkTypes, walkVars, unitVars, input
<1>1. WalkTypes
  BY DEF IInv, Types
<1>2. CASE BeginFails \/ Begin \/ Return \/ DatabaseFails \/ LoadDatabase
  BY <1>1, <1>2 DEF BeginFails, Begin, Return, DatabaseFails, LoadDatabase
<1>3. CASE WalkPaths
  <2>1. NextPath => Paths[next] \in Node /\ next' \in Nat \ {0}
    <3>1. NextPath => next \in 1 .. Len(Paths)
      BY <1>1, WorkAssumption DEF NextPath
    <3>2. QED
      BY <3>1, WorkAssumption, ElementOfSeq DEF NextPath
  <2>2. QED
    BY <1>1, <1>3, <2>1 DEF WalkPaths, PathStatFails, PathIsDirectory,
                            PathIsUnit, PathIsOther, PathsDone
<1>4. CASE WalkCommands
  <2>1. NextCommand => Commands[next] \in Node /\ next' \in Nat \ {0}
    <3>1. NextCommand => next \in 1 .. Len(Commands)
      BY <1>1, WorkAssumption DEF NextCommand
    <3>2. QED
      BY <3>1, WorkAssumption, ElementOfSeq DEF NextCommand
  <2>2. QED
    BY <1>1, <1>4, <2>1 DEF WalkCommands, CommandFails,
      CommandAdmissionFails, CommandSkipped, CommandScanned, CommandsDone
<1>5. CASE OpenFails \/ ReadFails \/ ReadEnd
  BY <1>1, <1>5 DEF OpenFails, ReadFails, ReadEnd, Resume
<1>6. CASE Open
  <2> DEFINE f == [dir |-> unit.file, left |-> entries[unit.file]]
  <2>1. f \in Frame
    BY <1>1, <1>6, EntriesAreNodes DEF Open, Frame, IInv, Types
  <2>2. stack' = <<f>> \o stack
    BY <1>6 DEF Open
  <2> HIDE DEF f
  <2>3. stack' \in Seq(Frame)
    BY <1>1, <2>1, <2>2, Push
  <2>4. QED
    BY <1>1, <1>6, <2>3 DEF Open
<1>7. CASE Close
  <2>1. stack' \in Seq(Frame)
    BY <1>1, <1>7, Pop DEF Close, IInv, Calls
  <2>2. pc' \in {"commands", "paths", "read", "close"}
    BY <1>1, <1>7 DEF Close, Resume
  <2>3. QED
    BY <1>1, <1>7, <2>1, <2>2 DEF Close
<1>8. ASSUME NEW e \in Node,
             EntryFails(e) \/ EntryIsDirectory(e) \/ EntryIsUnit(e) \/ EntryIgnored(e)
      PROVE  WalkTypes'
  <2>1. NextEntry(e)
    BY <1>8 DEF EntryFails, EntryIsDirectory, EntryIsUnit, EntryIgnored
  <2>2. stack' \in Seq(Frame)
    BY <1>1, <2>1, Take DEF NextEntry, IInv, Calls
  <2>3. QED
    BY <1>1, <1>8, <2>1, <2>2 DEF NextEntry, EntryFails, EntryIsDirectory, EntryIsUnit, EntryIgnored
<1>9. CASE SourceFails \/ Enter \/ Leave \/ LeaveFailedParse
  BY <1>1, <1>9 DEF SourceFails, Enter, Leave, LeaveFailedParse, Resume, Inside
<1>10. CASE Parse \/ VisitFails \/ VisitDone
  BY <1>1, <1>10 DEF Parse, VisitFails, VisitDone, Inside
<1>11. ASSUME NEW outcome \in Outcome, ParseFails(outcome) \/ Record(outcome)
       PROVE  WalkTypes'
  BY <1>1, <1>11 DEF ParseFails, Record, Inside
<1>12. CASE UNCHANGED vars
  BY <1>1, <1>12 DEF vars
<1>13. QED
  BY <1>2, <1>3, <1>4, <1>5, <1>6, <1>7, <1>8, <1>9, <1>10, <1>11, <1>12
  DEF Next, Step, Done, WalkDirectory, ScanUnit

\* Each action keeps the types of what is said of a unit and of the whole scan.
LEMMA UnitTypesStep == IInv /\ [Next]_vars => UnitTypes'
<1> SUFFICES ASSUME IInv, [Next]_vars PROVE UnitTypes'
  OBVIOUS
<1> USE DEF UnitTypes, unitVars, history, Raise
<1>1. UnitTypes /\ (pc = "parse" => unit.file \in Node)
  BY DEF IInv, Types, WalkTypes
<1>2. CASE BeginFails \/ Begin \/ Return \/ DatabaseFails \/ LoadDatabase
  BY <1>1, <1>2 DEF BeginFails, Begin, Return, DatabaseFails, LoadDatabase
<1>3. CASE WalkPaths
  BY <1>1, <1>3 DEF WalkPaths, PathStatFails, PathIsDirectory,
                    PathIsUnit, PathIsOther, PathsDone
<1>4. CASE WalkCommands
  BY <1>1, <1>4 DEF WalkCommands, CommandFails,
      CommandAdmissionFails, CommandSkipped, CommandScanned, CommandsDone
<1>5. CASE OpenFails \/ Open \/ ReadFails \/ ReadEnd \/ Close
  BY <1>1, <1>5 DEF OpenFails, Open, ReadFails, ReadEnd, Close, Resume
<1>6. ASSUME NEW e \in Node,
             EntryFails(e) \/ EntryIsDirectory(e) \/ EntryIsUnit(e) \/ EntryIgnored(e)
      PROVE  UnitTypes'
  BY <1>1, <1>6 DEF EntryFails, EntryIsDirectory, EntryIsUnit, EntryIgnored
<1>7. CASE SourceFails \/ Enter \/ Leave \/ LeaveFailedParse
  BY <1>1, <1>7 DEF SourceFails, Enter, Leave, LeaveFailedParse, LeaveDirectory, Resume
<1>8. CASE Parse \/ VisitFails \/ VisitDone
  <2>1. records' \in 0 .. MaxRecords
    <3>1. MaxRecords \in Nat /\ records \in 0 .. MaxRecords
      BY <1>1, WorkAssumption
    <3>2. records' = 0 \/ records' = records
      BY <1>8 DEF Parse, VisitFails, VisitDone
    <3>3. QED
      BY <3>1, <3>2
  <2>2. QED
    BY <1>1, <1>8, <2>1 DEF Parse, VisitFails, VisitDone
<1>9. ASSUME NEW outcome \in Outcome, ParseFails(outcome) \/ Record(outcome)
      PROVE  UnitTypes'
  <2>1. records' \in 0 .. MaxRecords
    <3>1. MaxRecords \in Nat /\ records \in 0 .. MaxRecords
      BY <1>1, WorkAssumption
    <3>2. records' = records \/ (records < MaxRecords /\ records' = records + 1)
      BY <1>9 DEF ParseFails, Record
    <3>3. QED
      BY <3>1, <3>2
  <2>2. QED
    BY <1>1, <1>9, <2>1 DEF ParseFails, Record, Observe
<1>10. CASE UNCHANGED vars
  BY <1>1, <1>10 DEF vars
<1>11. QED
  BY <1>2, <1>3, <1>4, <1>5, <1>6, <1>7, <1>8, <1>9, <1>10
  DEF Next, Step, Done, WalkDirectory, ScanUnit

\* Each action leaves as many streams open as there are calls.
LEMMA CallsStep == IInv /\ [Next]_vars => Calls'
<1> SUFFICES ASSUME IInv, [Next]_vars PROVE Calls'
  OBVIOUS
<1> USE DEF Calls, walkVars, unitVars, input
<1>1. Calls /\ stack \in Seq(Frame) /\ options.database \in BOOLEAN
  BY DEF IInv, Types, WalkTypes
<1>2. CASE BeginFails \/ Begin \/ Return \/ DatabaseFails \/ LoadDatabase
  BY <1>1, <1>2 DEF BeginFails, Begin, Return, DatabaseFails, LoadDatabase
<1>3. CASE WalkPaths
  BY <1>1, <1>3 DEF WalkPaths, NextPath, PathStatFails, PathIsDirectory,
                    PathIsUnit, PathIsOther, PathsDone
<1>4. CASE WalkCommands
  BY <1>1, <1>4 DEF WalkCommands, NextCommand, CommandFails,
      CommandAdmissionFails, CommandSkipped, CommandScanned, CommandsDone
<1>5. CASE OpenFails \/ ReadFails \/ ReadEnd
  BY <1>1, <1>5 DEF OpenFails, ReadFails, ReadEnd, Resume
<1>6. CASE Open
  <2> DEFINE f == [dir |-> unit.file, left |-> entries[unit.file]]
  <2>1. f \in Frame
    BY <1>6, EntriesAreNodes DEF Open, Frame, IInv, Types, WalkTypes
  <2>2. stack' = <<f>> \o stack
    BY <1>6 DEF Open
  <2> HIDE DEF f
  <2>3. stack' # << >> /\ Len(stack') = Len(stack) + 1
    BY <1>1, <2>1, <2>2, Push
  <2>4. QED
    BY <1>1, <1>6, <2>3 DEF Open
<1>7. CASE Close
  <2>1. Len(stack') = Len(stack) - 1 /\ Len(stack) \in Nat
    BY <1>1, <1>7, Pop DEF Close
  <2>2. ~ options.database /\ streams' = Len(stack')
    BY <1>1, <1>7, <2>1 DEF Close
  <2>3. pc' \in {"paths", "read", "close"} /\ (pc' = "paths" <=> stack' = << >>)
    BY <1>7, <2>2 DEF Close, Resume
  <2>4. QED
    BY <1>7, <2>2, <2>3 DEF Close
<1>8. ASSUME NEW e \in Node,
             EntryFails(e) \/ EntryIsDirectory(e) \/ EntryIsUnit(e) \/ EntryIgnored(e)
      PROVE  Calls'
  <2>1. NextEntry(e)
    BY <1>8 DEF EntryFails, EntryIsDirectory, EntryIsUnit, EntryIgnored
  <2>2. stack' # << >> /\ Len(stack') = Len(stack)
    BY <1>1, <2>1, Take DEF NextEntry
  <2>3. QED
    BY <1>1, <1>8, <2>1, <2>2
    DEF NextEntry, EntryFails, EntryIsDirectory, EntryIsUnit, EntryIgnored
<1>9. CASE SourceFails \/ Enter \/ Leave \/ LeaveFailedParse
  BY <1>1, <1>9 DEF SourceFails, Enter, Leave, LeaveFailedParse, Resume
<1>10. CASE Parse \/ VisitFails \/ VisitDone
  BY <1>1, <1>10 DEF Parse, VisitFails, VisitDone
<1>11. ASSUME NEW outcome \in Outcome, ParseFails(outcome) \/ Record(outcome)
       PROVE  Calls'
  BY <1>1, <1>11 DEF ParseFails, Record
<1>12. CASE UNCHANGED vars
  BY <1>1, <1>12 DEF vars
<1>13. QED
  BY <1>2, <1>3, <1>4, <1>5, <1>6, <1>7, <1>8, <1>9, <1>10, <1>11, <1>12
  DEF Next, Step, Done, WalkDirectory, ScanUnit

\* Each action keeps the process at home, or scan_source aware of home.
LEMMA StandingStep == IInv /\ [Next]_vars => Standing'
<1> SUFFICES ASSUME IInv, [Next]_vars PROVE Standing'
  OBVIOUS
<1> USE DEF Standing, Inside, unitVars, Raise
<1>1. Standing
  BY DEF IInv
<1>2. CASE BeginFails \/ Begin \/ Return \/ DatabaseFails \/ LoadDatabase
  BY <1>1, <1>2 DEF BeginFails, Begin, Return, DatabaseFails, LoadDatabase
<1>3. CASE WalkPaths
  BY <1>1, <1>3 DEF WalkPaths, NextPath, PathStatFails, PathIsDirectory,
                    PathIsUnit, PathIsOther, PathsDone
<1>4. CASE WalkCommands
  BY <1>1, <1>4 DEF WalkCommands, NextCommand, CommandFails,
      CommandAdmissionFails, CommandSkipped, CommandScanned, CommandsDone
<1>5. CASE OpenFails \/ Open \/ ReadFails \/ ReadEnd \/ Close
  BY <1>1, <1>5 DEF OpenFails, Open, ReadFails, ReadEnd, Close, Resume
<1>6. ASSUME NEW e \in Node,
             EntryFails(e) \/ EntryIsDirectory(e) \/ EntryIsUnit(e) \/ EntryIgnored(e)
      PROVE  Standing'
  BY <1>1, <1>6
  DEF NextEntry, EntryFails, EntryIsDirectory, EntryIsUnit, EntryIgnored
<1>7. CASE SourceFails
  BY <1>1, <1>7 DEF SourceFails, Resume
<1>8. CASE Enter
  BY <1>1, <1>8, HomeAssumption DEF Enter
<1>9. CASE Leave \/ LeaveFailedParse
  BY <1>1, <1>9 DEF Leave, LeaveFailedParse, LeaveDirectory, Resume
<1>10. CASE Parse \/ VisitFails \/ VisitDone
  BY <1>1, <1>10 DEF Parse, VisitFails, VisitDone
<1>11. ASSUME NEW outcome \in Outcome, ParseFails(outcome) \/ Record(outcome)
       PROVE  Standing'
  BY <1>1, <1>11 DEF ParseFails, Record
<1>12. CASE UNCHANGED vars
  BY <1>1, <1>12 DEF vars
<1>13. QED
  BY <1>2, <1>3, <1>4, <1>5, <1>6, <1>7, <1>8, <1>9, <1>10, <1>11, <1>12
  DEF Next, Step, Done, WalkDirectory, ScanUnit

\* Each action that makes the result false has a reason, and none forgets one.
LEMMA FailingStep == IInv /\ [Next]_vars => Failing'
<1> SUFFICES ASSUME IInv, [Next]_vars PROVE Failing'
  OBVIOUS
<1> USE DEF Failing, Failed, unitVars, history, input, Raise
<1>1. /\ Failing /\ options.keepGoing \in BOOLEAN /\ ok \in BOOLEAN /\ err \in BOOLEAN
      /\ stopped \in BOOLEAN /\ unparsed \in BOOLEAN
  BY DEF IInv, Types, WalkTypes, UnitTypes
<1>2. CASE BeginFails
  BY <1>1, <1>2 DEF BeginFails
<1>3. CASE Begin
  BY <1>1, <1>3 DEF Begin
<1>4. CASE Return
  BY <1>1, <1>4 DEF Return
<1>5. CASE DatabaseFails
  BY <1>1, <1>5 DEF DatabaseFails
<1>6. CASE LoadDatabase
  BY <1>1, <1>6 DEF LoadDatabase
<1>7. CASE WalkPaths
  <2>1. CASE PathStatFails
    BY <1>1, <2>1 DEF PathStatFails, NextPath
  <2>2. CASE PathIsDirectory
    BY <1>1, <2>2 DEF PathIsDirectory, NextPath
  <2>3. CASE PathIsUnit
    BY <1>1, <2>3 DEF PathIsUnit, NextPath
  <2>4. CASE PathIsOther
    BY <1>1, <2>4 DEF PathIsOther, NextPath
  <2>5. CASE PathsDone
    BY <1>1, <2>5 DEF PathsDone
  <2>6. QED
    BY <1>7, <2>1, <2>2, <2>3, <2>4, <2>5 DEF WalkPaths
<1>8. CASE WalkCommands
  <2>1. CASE CommandFails
    BY <1>1, <2>1 DEF CommandFails, NextCommand
  <2>2. CASE CommandAdmissionFails
    BY <1>1, <2>2 DEF CommandAdmissionFails, NextCommand
  <2>3. CASE CommandSkipped
    BY <1>1, <2>3 DEF CommandSkipped, NextCommand
  <2>4. CASE CommandScanned
    BY <1>1, <2>4 DEF CommandScanned, NextCommand
  <2>5. CASE CommandsDone
    BY <1>1, <2>5 DEF CommandsDone
  <2>6. QED
    BY <1>8, <2>1, <2>2, <2>3, <2>4, <2>5 DEF WalkCommands
<1>9. CASE OpenFails
  BY <1>1, <1>9 DEF OpenFails, Resume
<1>10. CASE Open
  BY <1>1, <1>10 DEF Open
<1>11. CASE ReadFails
  BY <1>1, <1>11 DEF ReadFails
<1>12. CASE ReadEnd
  BY <1>1, <1>12 DEF ReadEnd
<1>13. CASE Close
  BY <1>1, <1>13 DEF Close, Resume
<1>14. ASSUME NEW e \in Node, EntryFails(e) PROVE Failing'
  BY <1>1, <1>14 DEF EntryFails, NextEntry
<1>15. ASSUME NEW e \in Node, EntryIsDirectory(e) PROVE Failing'
  BY <1>1, <1>15 DEF EntryIsDirectory, NextEntry
<1>16. ASSUME NEW e \in Node, EntryIsUnit(e) PROVE Failing'
  BY <1>1, <1>16 DEF EntryIsUnit, NextEntry
<1>17. ASSUME NEW e \in Node, EntryIgnored(e) PROVE Failing'
  BY <1>1, <1>17 DEF EntryIgnored, NextEntry
<1>18. CASE SourceFails
  BY <1>1, <1>18 DEF SourceFails, Resume
<1>19. CASE Enter
  BY <1>1, <1>19 DEF Enter
<1>20. CASE Parse
  BY <1>1, <1>20 DEF Parse
<1>21. CASE VisitFails
  BY <1>1, <1>21 DEF VisitFails
<1>22. CASE VisitDone
  BY <1>1, <1>22 DEF VisitDone
<1>23. CASE Leave
  BY <1>1, <1>23 DEF Leave, LeaveDirectory, Resume
<1>24. CASE LeaveFailedParse
  BY <1>1, <1>24 DEF LeaveFailedParse, LeaveDirectory, Resume
<1>25. ASSUME NEW outcome \in Outcome, ParseFails(outcome) PROVE Failing'
  BY <1>1, <1>25 DEF ParseFails, Observe
<1>26. ASSUME NEW outcome \in Outcome, Record(outcome) PROVE Failing'
  BY <1>1, <1>26 DEF Record, Observe
<1>27. CASE UNCHANGED vars
  BY <1>1, <1>27 DEF vars
<1>28. QED
  BY <1>2, <1>3, <1>4, <1>5, <1>6, <1>7, <1>8, <1>9, <1>10, <1>11, <1>12, <1>13,
     <1>14, <1>15, <1>16, <1>17, <1>18, <1>19, <1>20, <1>21, <1>22, <1>23, <1>24,
     <1>25, <1>26, <1>27
  DEF Next, Step, Done, WalkDirectory, ScanUnit

\* What a directory below the roots holds, and is not skipped, is below or wanted.
LEMMA EntryIsOnTheWay ==
  ASSUME Types, Calls, NEW d \in DirectoriesBelow, NEW e \in entries[d], e \notin Skipped
  PROVE  /\ Kind[e] = "directory" => e \in DirectoriesBelow
         /\ IsUnit(e) /\ ~ options.database => e \in Wanted
<1>1. d \in Directory /\ d \in Node
  BY BelowLeadsOn DEF Directory
<1>2. e \in Node
  BY <1>1, EntriesAreNodes
<1>3. Kind[e] = "directory" => e \in DirectoriesBelow
  BY <1>2, BelowLeadsOn DEF LeadsOn, Directory
<1>4. IsUnit(e) /\ ~ options.database => e \in Wanted
  BY <1>2 DEF Wanted
<1>5. QED
  BY <1>3, <1>4

\* Each action stays on the way to what is wanted.
LEMMA OnTheWayStep == IInv /\ [Next]_vars => OnTheWay'
<1> SUFFICES ASSUME IInv, [Next]_vars PROVE OnTheWay'
  OBVIOUS
<1> USE DEF OnTheWay, walkVars, unitVars
<1>1. /\ Types /\ Calls /\ OnTheWay
      /\ stack \in Seq(Frame) /\ Len(stack) \in Nat /\ options.database \in BOOLEAN
  BY DEF IInv, Types, WalkTypes
<1>2. Wanted' = Wanted /\ DirectoriesBelow' = DirectoriesBelow /\ entries' = entries
  BY InputIsFixed, WantedIsFixed DEF input
<1>3. CASE BeginFails \/ Begin \/ Return \/ DatabaseFails \/ LoadDatabase
  BY <1>1, <1>2, <1>3 DEF BeginFails, Begin, Return, DatabaseFails, LoadDatabase
<1>4. CASE WalkPaths
  <2>1. CASE PathStatFails \/ PathIsOther \/ PathsDone
    BY <1>1, <1>2, <2>1 DEF PathStatFails, PathIsOther, PathsDone, NextPath
  <2>2. CASE PathIsDirectory
    <3>1. next \in DOMAIN Paths /\ Paths[next] \in Directory
      BY <1>1, <2>2, WorkAssumption, ElementOfSeq
      DEF PathIsDirectory, NextPath, Types, WalkTypes, Directory
    <3>2. Paths[next] \in DirectoriesBelow
      BY <3>1, BelowLeadsOn DEF LeadsOn
    <3>3. QED
      BY <1>1, <1>2, <2>2, <3>2 DEF PathIsDirectory
  <2>3. CASE PathIsUnit
    <3>1. next \in DOMAIN Paths /\ Paths[next] \in Node
      BY <1>1, <2>3, WorkAssumption, ElementOfSeq DEF PathIsUnit, NextPath, Types, WalkTypes
    <3>2. Paths[next] \in Wanted
      BY <1>1, <2>3, <3>1 DEF PathIsUnit, NextPath, Calls, Wanted
    <3>3. QED
      BY <1>1, <1>2, <2>3, <3>2 DEF PathIsUnit
  <2>4. QED
    BY <1>4, <2>1, <2>2, <2>3 DEF WalkPaths
<1>5. CASE WalkCommands
  <2>1. CASE CommandFails \/ CommandAdmissionFails \/ CommandSkipped \/ CommandsDone
    BY <1>1, <1>2, <2>1 DEF CommandFails, CommandAdmissionFails, CommandSkipped,
                            CommandsDone, NextCommand
  <2>2. CASE CommandScanned
    <3>1. next \in DOMAIN Commands
      BY <1>1, <2>2, WorkAssumption DEF CommandScanned, NextCommand, Types, WalkTypes
    <3>2. Commands[next] \in Wanted
      BY <1>1, <2>2, <3>1 DEF CommandScanned, NextCommand, Calls, Wanted
    <3>3. QED
      BY <1>1, <1>2, <2>2, <3>2 DEF CommandScanned
  <2>3. QED
    BY <1>5, <2>1, <2>2 DEF WalkCommands
<1>6. CASE OpenFails \/ ReadFails \/ ReadEnd
  BY <1>1, <1>2, <1>6 DEF OpenFails, ReadFails, ReadEnd, Resume
<1>7. CASE Open
  <2> DEFINE f == [dir |-> unit.file, left |-> entries[unit.file]]
  <2>1. f \in Frame /\ f.dir \in DirectoriesBelow /\ f.left = entries[f.dir]
    BY <1>1, <1>7, EntriesAreNodes DEF Open, Frame, Types, WalkTypes
  <2>2. stack' = <<f>> \o stack /\ pc' = "read"
    BY <1>7 DEF Open
  <2> HIDE DEF f
  <2>3. /\ Len(stack') = Len(stack) + 1 /\ stack'[1] = f
        /\ \A k \in 1 .. Len(stack) : stack'[k + 1] = stack[k]
    BY <1>1, <2>1, <2>2, Push
  <2>4. ASSUME NEW k \in 1 .. Len(stack')
        PROVE  stack'[k].dir \in DirectoriesBelow /\ stack'[k].left \subseteq entries[stack'[k].dir]
    <3>1. CASE k = 1
      BY <2>1, <2>3, <3>1
    <3>2. CASE k # 1
      <4>1. k - 1 \in 1 .. Len(stack) /\ (k - 1) + 1 = k
        BY <1>1, <2>3, <3>2
      <4>2. stack'[k] = stack[k - 1]
        BY <2>3, <4>1
      <4>3. QED
        BY <1>1, <4>1, <4>2
    <3>3. QED
      BY <3>1, <3>2
  <2>5. QED
    BY <1>2, <2>2, <2>4
<1>8. CASE Close
  <2>1. /\ Len(stack') = Len(stack) - 1
        /\ \A k \in 1 .. Len(stack) - 1 : stack'[k] = stack[k + 1]
    BY <1>1, <1>8, Pop DEF Close, Calls
  <2>2. ASSUME NEW k \in 1 .. Len(stack')
        PROVE  stack'[k].dir \in DirectoriesBelow /\ stack'[k].left \subseteq entries[stack'[k].dir]
    <3>1. k + 1 \in 1 .. Len(stack) /\ stack'[k] = stack[k + 1]
      BY <1>1, <2>1
    <3>2. QED
      BY <1>1, <3>1
  <2>3. pc' \in {"commands", "paths", "read", "close"}
    BY <1>1, <1>8 DEF Close, Resume
  <2>4. QED
    BY <1>2, <2>2, <2>3
<1>9. ASSUME NEW e \in Node,
             EntryFails(e) \/ EntryIsDirectory(e) \/ EntryIsUnit(e) \/ EntryIgnored(e)
      PROVE  OnTheWay'
  <2>1. NextEntry(e) /\ stack # << >> /\ ~ options.database
    BY <1>1, <1>9
    DEF Calls, NextEntry, EntryFails, EntryIsDirectory, EntryIsUnit, EntryIgnored
  <2>2. /\ Len(stack') = Len(stack) /\ stack'[1].dir = stack[1].dir
        /\ stack'[1].left = stack[1].left \ {e}
        /\ \A k \in 2 .. Len(stack) : stack'[k] = stack[k]
    BY <1>1, <2>1, Take DEF NextEntry
  <2>3. ASSUME NEW k \in 1 .. Len(stack')
        PROVE  stack'[k].dir \in DirectoriesBelow /\ stack'[k].left \subseteq entries[stack'[k].dir]
    <3>1. stack'[k].dir = stack[k].dir /\ stack'[k].left \subseteq stack[k].left
      BY <1>1, <2>2
    <3>2. QED
      BY <1>1, <2>2, <3>1
  <2>4. stack[1].dir \in DirectoriesBelow /\ e \in entries[stack[1].dir]
    BY <1>1, <2>1, Pop DEF NextEntry, Top
  <2>5. e \notin Skipped => /\ Kind[e] = "directory" => e \in DirectoriesBelow
                            /\ IsUnit(e) => e \in Wanted
    BY <1>1, <2>1, <2>4, EntryIsOnTheWay
  <2>6. pc' \in {"open", "source"} => unit'.file = e
    BY <1>9, <2>1
    DEF NextEntry, EntryFails, EntryIsDirectory, EntryIsUnit, EntryIgnored
  <2>7. (pc' = "open" => e \in DirectoriesBelow) /\ (pc' \in {"source", "parse"} => e \in Wanted)
    BY <1>9, <2>1, <2>5
    DEF NextEntry, EntryFails, EntryIsDirectory, EntryIsUnit, EntryIgnored
  <2>8. pc' # "parse"
    BY <1>9, <2>1
    DEF NextEntry, EntryFails, EntryIsDirectory, EntryIsUnit, EntryIgnored
  <2>9. QED
    BY <1>2, <2>3, <2>6, <2>7, <2>8
<1>10. CASE SourceFails \/ Enter \/ Leave \/ LeaveFailedParse
  BY <1>1, <1>2, <1>10 DEF SourceFails, Enter, Leave, LeaveFailedParse, Resume
<1>11. CASE Parse \/ VisitFails \/ VisitDone
  BY <1>1, <1>2, <1>11 DEF Parse, VisitFails, VisitDone
<1>12. ASSUME NEW outcome \in Outcome, ParseFails(outcome) \/ Record(outcome)
       PROVE  OnTheWay'
  BY <1>1, <1>2, <1>12 DEF ParseFails, Record
<1>13. CASE UNCHANGED vars
  BY <1>1, <1>2, <1>13 DEF vars
<1>14. QED
  BY <1>3, <1>4, <1>5, <1>6, <1>7, <1>8, <1>9, <1>10, <1>11, <1>12, <1>13
  DEF Next, Step, Done, WalkDirectory, ScanUnit

\* Nothing makes the result true again or takes an error back.
LEMMA NoRecovery == IInv /\ [Next]_vars /\ ok' /\ ~ err' => ok /\ ~ err
<1> SUFFICES ASSUME IInv, [Next]_vars, ok', ~ err' PROVE ok /\ ~ err
  OBVIOUS
<1> USE DEF Raise
<1>1. /\ pc \in {"visit", "leave failed parse"} => ok
      /\ ok \in BOOLEAN /\ err \in BOOLEAN
  BY DEF IInv, Types, UnitTypes, Failing
<1>2. CASE BeginFails \/ Begin \/ Return \/ DatabaseFails \/ LoadDatabase
  BY <1>1, <1>2 DEF BeginFails, Begin, Return, DatabaseFails, LoadDatabase
<1>3. CASE WalkPaths
  BY <1>1, <1>3 DEF WalkPaths, PathStatFails, PathIsDirectory, PathIsUnit, PathIsOther, PathsDone
<1>4. CASE WalkCommands
  BY <1>1, <1>4 DEF WalkCommands, CommandFails, CommandAdmissionFails, CommandSkipped,
              CommandScanned, CommandsDone
<1>5. CASE OpenFails \/ Open \/ ReadFails \/ ReadEnd \/ Close
  BY <1>1, <1>5 DEF OpenFails, Open, ReadFails, ReadEnd, Close, Resume
<1>6. ASSUME NEW e \in Node,
             EntryFails(e) \/ EntryIsDirectory(e) \/ EntryIsUnit(e) \/ EntryIgnored(e)
      PROVE  ok /\ ~ err
  BY <1>1, <1>6 DEF EntryFails, EntryIsDirectory, EntryIsUnit, EntryIgnored
<1>7. CASE SourceFails \/ Enter \/ Parse \/ VisitFails \/ VisitDone
  BY <1>1, <1>7 DEF SourceFails, Enter, Parse, VisitFails, VisitDone, Resume
<1>8. CASE Leave \/ LeaveFailedParse
  BY <1>1, <1>8 DEF Leave, LeaveFailedParse, LeaveDirectory, Resume
<1>9. ASSUME NEW outcome \in Outcome, ParseFails(outcome) \/ Record(outcome)
      PROVE  ok /\ ~ err
  BY <1>1, <1>9 DEF ParseFails, Record, Observe
<1>10. CASE UNCHANGED vars
  BY <1>10 DEF vars
<1>11. QED
  BY <1>2, <1>3, <1>4, <1>5, <1>6, <1>7, <1>8, <1>9, <1>10
  DEF Next, Step, Done, WalkDirectory, ScanUnit

\* A loop that ends without a failure has done its work.
LEMMA LoopsEndStep == IInv /\ [Next]_vars => LoopsEnd'
<1> SUFFICES ASSUME IInv, [Next]_vars, ok', ~ err' PROVE LoopsEnd'
  BY DEF LoopsEnd
<1> USE DEF LoopsEnd, walkVars, unitVars, Raise
<1>1. LoopsEnd /\ Calls /\ ok /\ ~ err /\ options' = options
  BY NoRecovery, InputIsFixed DEF IInv, NothingMissed, input
<1>2. CASE BeginFails \/ Begin \/ Return \/ DatabaseFails \/ LoadDatabase
  BY <1>1, <1>2 DEF BeginFails, Begin, Return, DatabaseFails, LoadDatabase
<1>3. CASE WalkPaths
  BY <1>1, <1>3 DEF WalkPaths, PathStatFails, PathIsDirectory, PathIsUnit, PathIsOther,
                    PathsDone, NextPath, Calls
<1>4. CASE WalkCommands
  BY <1>1, <1>4 DEF WalkCommands, CommandFails, CommandAdmissionFails, CommandSkipped,
                    CommandScanned, CommandsDone, NextCommand, Calls
<1>5. CASE OpenFails \/ Open \/ ReadFails \/ ReadEnd \/ Close
  BY <1>1, <1>5 DEF OpenFails, Open, ReadFails, ReadEnd, Close, Resume, Top
<1>6. ASSUME NEW e \in Node,
             EntryFails(e) \/ EntryIsDirectory(e) \/ EntryIsUnit(e) \/ EntryIgnored(e)
      PROVE  LoopsEnd'
  BY <1>1, <1>6 DEF EntryFails, EntryIsDirectory, EntryIsUnit, EntryIgnored, NextEntry
<1>7. CASE SourceFails \/ Enter \/ Parse \/ VisitFails \/ VisitDone
  BY <1>1, <1>7 DEF SourceFails, Enter, Parse, VisitFails, VisitDone, Resume
<1>8. CASE Leave \/ LeaveFailedParse
  BY <1>1, <1>8 DEF Leave, LeaveFailedParse, LeaveDirectory, Resume
<1>9. ASSUME NEW outcome \in Outcome, ParseFails(outcome) \/ Record(outcome)
      PROVE  LoopsEnd'
  BY <1>1, <1>9 DEF ParseFails, Record
<1>10. CASE UNCHANGED vars
  BY <1>1, <1>10 DEF vars
<1>11. QED
  BY <1>2, <1>3, <1>4, <1>5, <1>6, <1>7, <1>8, <1>9, <1>10
  DEF Next, Step, Done, WalkDirectory, ScanUnit

\* Each action that parses or passes over a command of the database is right to.
LEMMA CommandsMetStep == IInv /\ [Next]_vars => CommandsMet'
<1> SUFFICES ASSUME IInv, [Next]_vars, ok', ~ err', options.database PROVE CommandsMet'
  BY InputIsFixed DEF CommandsMet, input
<1> USE DEF CommandsMet, ParsingNow, walkVars, unitVars, history, Raise
<1>1. CommandsMet /\ Calls /\ ok /\ ~ err
  BY NoRecovery DEF IInv, NothingMissed
<1>2. CASE BeginFails \/ Begin \/ Return \/ DatabaseFails \/ LoadDatabase
  BY <1>1, <1>2 DEF BeginFails, Begin, Return, DatabaseFails, LoadDatabase
<1>3. CASE CommandFails \/ CommandAdmissionFails \/ CommandsDone
  BY <1>1, <1>3 DEF CommandFails, CommandAdmissionFails, CommandsDone
<1>4. CASE CommandSkipped \/ CommandScanned
  <2>1. next \in Nat /\ Len(Commands) \in Nat /\ next' = next + 1
    <3>1. next \in Nat /\ Len(Commands) \in Nat
      BY WorkAssumption DEF IInv, Types, WalkTypes
    <3>2. QED
      BY <1>4, <3>1 DEF CommandSkipped, CommandScanned, NextCommand
  <2>2. ASSUME NEW i \in 1 .. Len(Commands), i < next', Listed(Commands[i])
        PROVE  Commands[i] \in attempted' \/ ParsingNow(Commands[i])'
    <3>1. CASE i < next
      BY <1>1, <1>4, <2>2, <3>1 DEF CommandSkipped, CommandScanned, NextCommand
    <3>2. CASE i = next
      <4>1. CASE CommandSkipped
        BY <2>2, <3>2, <4>1 DEF CommandSkipped, Listed
      <4>2. CASE CommandScanned
        BY <3>2, <4>2 DEF CommandScanned
      <4>3. QED
        BY <1>4, <4>1, <4>2
    <3>3. QED
      BY <2>1, <2>2, <3>1, <3>2
  <2>3. QED
    BY <2>2
<1>5. CASE OpenFails \/ Open \/ ReadFails \/ ReadEnd \/ Close \/ WalkPaths
  BY <1>1, <1>5 DEF Calls, OpenFails, Open, ReadFails, ReadEnd, Close, WalkPaths, NextPath,
                    PathStatFails, PathIsDirectory, PathIsUnit, PathIsOther, PathsDone
<1>6. ASSUME NEW e \in Node,
             EntryFails(e) \/ EntryIsDirectory(e) \/ EntryIsUnit(e) \/ EntryIgnored(e)
      PROVE  CommandsMet'
  BY <1>1, <1>6
  DEF Calls, EntryFails, EntryIsDirectory, EntryIsUnit, EntryIgnored, NextEntry
<1>7. CASE SourceFails \/ Enter \/ VisitFails \/ VisitDone
  BY <1>1, <1>7 DEF SourceFails, Enter, VisitFails, VisitDone
<1>8. CASE Parse
  BY <1>1, <1>8 DEF Parse
<1>9. CASE Leave \/ LeaveFailedParse
  BY <1>1, <1>9 DEF Leave, LeaveFailedParse, Resume
<1>10. ASSUME NEW outcome \in Outcome, ParseFails(outcome) \/ Record(outcome)
       PROVE  CommandsMet'
  BY <1>1, <1>10 DEF ParseFails, Record
<1>11. CASE UNCHANGED vars
  BY <1>1, <1>11 DEF vars
<1>12. QED
  BY <1>2, <1>3, <1>4, <1>5, <1>6, <1>7, <1>8, <1>9, <1>10, <1>11
  DEF Next, Step, Done, WalkDirectory, WalkCommands, ScanUnit

\* What was walked stays walked while the stack and the loop over the roots rest.
LEMMA WalkedKept ==
  ASSUME NEW S, Walked(S), UNCHANGED <<entries, options, next, stack>>,
         attempted \subseteq attempted',
         \A n : OpeningNow(n) => OpeningNow(n)',
         \A n : ParsingNow(n) => ParsingNow(n)' \/ n \in attempted'
  PROVE  Walked(S)'
<1>1. \A n : RootMet(n, S) => RootMet(n, S)'
  BY DEF RootMet
<1>2. \A n : EntryMet(n, S) => EntryMet(n, S)'
  BY DEF EntryMet, IsUnit
<1>3. \A d, e : Left(d, e) => Left(d, e)'
  BY DEF Left
<1>4. QED
  BY <1>1, <1>2, <1>3 DEF Walked

\* The next root is met when its turn has come.
LEMMA NextRootMet ==
  ASSUME IInv, NextPath, UNCHANGED input, UNCHANGED <<stack, attempted>>,
         NEW S, Walked(S), NEW x, x = Paths[next], RootMet(x, S)'
  PROVE  Walked(S)'
<1>1. pc = "paths" /\ next \in Nat /\ next' = next + 1 /\ Len(Paths) \in Nat
  BY WorkAssumption DEF IInv, Types, WalkTypes, NextPath
<1>2. \A n : RootMet(n, S) => RootMet(n, S)'
  BY <1>1 DEF RootMet, OpeningNow, ParsingNow
<1>3. \A n : EntryMet(n, S) => EntryMet(n, S)'
  BY <1>1 DEF EntryMet, IsUnit, OpeningNow, ParsingNow, input
<1>4. \A d, e : Left(d, e) => Left(d, e)'
  BY DEF Left
<1>5. ASSUME NEW i \in 1 .. Len(Paths), i < next'
      PROVE  RootMet(Paths[i], S)'
  <2>1. CASE i < next
    BY <1>2, <2>1 DEF Walked
  <2>2. CASE i = next
    BY <2>2
  <2>3. QED
    BY <1>1, <1>5, <2>1, <2>2
<1>6. QED
  BY <1>3, <1>4, <1>5 DEF Walked, input

\* The next entry is met when it is taken out of what is left.
LEMMA NextEntryMet ==
  ASSUME IInv, NEW x, NextEntry(x), UNCHANGED input, UNCHANGED <<next, attempted>>,
         NEW S, Walked(S), x \in Skipped \/ EntryMet(x, S)'
  PROVE  Walked(S)'
<1>1. pc = "read" /\ stack \in Seq(Frame) /\ stack # << >>
  BY DEF IInv, Types, WalkTypes, Calls, NextEntry
<1>2. /\ Len(stack') = Len(stack) /\ stack'[1].dir = stack[1].dir
      /\ stack'[1].left = stack[1].left \ {x}
      /\ \A k \in 2 .. Len(stack) : stack'[k] = stack[k]
  BY <1>1, Take DEF NextEntry
<1>3. \A n : RootMet(n, S) => RootMet(n, S)'
  BY <1>1 DEF RootMet, OpeningNow, ParsingNow
<1>4. \A n : EntryMet(n, S) => EntryMet(n, S)'
  BY <1>1 DEF EntryMet, IsUnit, OpeningNow, ParsingNow, input
<1>5. ASSUME NEW d, NEW e, Left(d, e), e # x
      PROVE  Left(d, e)'
  <2>1. PICK k \in 1 .. Len(stack) : stack[k].dir = d /\ e \in stack[k].left
    BY <1>5 DEF Left
  <2>2. stack'[k].dir = d /\ e \in stack'[k].left
    BY <1>1, <1>2, <1>5, <2>1
  <2>3. QED
    BY <1>2, <2>1, <2>2 DEF Left
<1>6. \A i \in 1 .. Len(Paths) : i < next' => RootMet(Paths[i], S)'
  BY <1>3 DEF Walked
<1>7. ASSUME NEW d \in S, NEW e \in entries'[d] \ Skipped
      PROVE  EntryMet(e, S)' \/ Left(d, e)'
  <2>1. e \in entries[d] \ Skipped
    BY <1>7 DEF input
  <2>2. CASE e = x
    BY <2>1, <2>2
  <2>3. CASE e # x
    BY <1>4, <1>5, <2>1, <2>3 DEF Walked
  <2>4. QED
    BY <2>2, <2>3
<1>8. QED
  BY <1>6, <1>7 DEF Walked

\* A directory whose entries are all left to read has been walked.
LEMMA OpenedIsWalked ==
  ASSUME IInv, Open, NEW S, Walked(S), NEW x, x = unit.file
  PROVE  Walked(S \cup {x})'
<1> DEFINE f == [dir |-> x, left |-> entries[x]]
<1>1. stack \in Seq(Frame) /\ f \in Frame /\ Len(stack) \in Nat
  BY EntriesAreNodes DEF IInv, Types, WalkTypes, Open, Frame
<1>2. /\ stack' = <<f>> \o stack /\ pc = "open" /\ pc' = "read"
      /\ UNCHANGED <<entries, options, next, attempted>>
  BY DEF Open, input, history
<1>3. f.dir = x /\ f.left = entries[x]
  OBVIOUS
<1> HIDE DEF f
<1>4. /\ Len(stack') = Len(stack) + 1 /\ stack'[1] = f
      /\ \A k \in 1 .. Len(stack) : stack'[k + 1] = stack[k]
  BY <1>1, <1>2, Push
<1>5. \A n : RootMet(n, S) => RootMet(n, S \cup {x})'
  BY <1>2 DEF RootMet, OpeningNow, ParsingNow
<1>6. \A n : EntryMet(n, S) => EntryMet(n, S \cup {x})'
  BY <1>2 DEF EntryMet, IsUnit, OpeningNow, ParsingNow
<1>7. ASSUME NEW d, NEW e, Left(d, e)
      PROVE  Left(d, e)'
  <2>1. PICK k \in 1 .. Len(stack) : stack[k].dir = d /\ e \in stack[k].left
    BY <1>7 DEF Left
  <2>2. k + 1 \in 1 .. Len(stack') /\ stack'[k + 1] = stack[k]
    BY <1>1, <1>4
  <2>3. QED
    BY <2>1, <2>2 DEF Left
<1>8. ASSUME NEW e \in entries[x]
      PROVE  Left(x, e)'
  <2>1. 1 \in 1 .. Len(stack')
    BY <1>1, <1>4
  <2>2. QED
    BY <1>3, <1>4, <2>1 DEF Left
<1>9. QED
  BY <1>2, <1>5, <1>6, <1>7, <1>8 DEF Walked

\* A directory that was read to its end stays walked when it is closed.
LEMMA ClosedIsWalked ==
  ASSUME IInv, Close, NEW S, Walked(S), stack[1].left = {}
  PROVE  Walked(S)'
<1>1. stack \in Seq(Frame) /\ stack # << >> /\ pc = "close"
  BY DEF IInv, Types, WalkTypes, Calls, Close
<1>2. /\ Len(stack) \in Nat \ {0} /\ Len(stack') = Len(stack) - 1
      /\ \A k \in 1 .. Len(stack) - 1 : stack'[k] = stack[k + 1]
  BY <1>1, Pop DEF Close
<1>3. UNCHANGED <<entries, options, next, attempted>>
  BY DEF Close, input, history
<1>4. \A n : RootMet(n, S) => RootMet(n, S)'
  BY <1>1, <1>3 DEF RootMet, OpeningNow, ParsingNow
<1>5. \A n : EntryMet(n, S) => EntryMet(n, S)'
  BY <1>1, <1>3 DEF EntryMet, IsUnit, OpeningNow, ParsingNow
<1>6. ASSUME NEW d, NEW e, Left(d, e)
      PROVE  Left(d, e)'
  <2>1. PICK k \in 1 .. Len(stack) : stack[k].dir = d /\ e \in stack[k].left
    BY <1>6 DEF Left
  <2>2. k # 1
    BY <2>1
  <2>3. k - 1 \in 1 .. Len(stack') /\ stack'[k - 1] = stack[k]
    BY <1>2, <2>2
  <2>4. QED
    BY <2>1, <2>3 DEF Left
<1>7. QED
  BY <1>3, <1>4, <1>5, <1>6 DEF Walked

\* Each action of the walk through the tree leaves nothing behind that it met.
LEMMA TreeMetStep == IInv /\ [Next]_vars => TreeMet'
<1> SUFFICES ASSUME IInv, [Next]_vars, ok', ~ err', ~ options.database PROVE TreeMet'
  BY InputIsFixed DEF TreeMet, input
<1>1. Calls /\ LoopsEnd /\ Types /\ ok /\ ~ err /\ UNCHANGED <<entries, options>>
  BY NoRecovery, InputIsFixed DEF IInv, NothingMissed, input
<1>2. PICK S \in SUBSET Directory : Walked(S)
  BY <1>1 DEF IInv, NothingMissed, TreeMet
<1>3. SUFFICES \E T \in SUBSET Directory : Walked(T)'
  BY DEF TreeMet
<1> USE DEF walkVars, unitVars, history, Raise
<1>4. CASE BeginFails \/ Begin \/ Return \/ DatabaseFails \/ LoadDatabase
  <2>1. /\ UNCHANGED <<next, stack, attempted>>
        /\ pc \notin {"open", "source", "parse"}
    BY <1>1, <1>4 DEF BeginFails, Begin, Return, DatabaseFails, LoadDatabase
  <2>2. QED
    BY <1>1, <1>2, <2>1, WalkedKept DEF OpeningNow, ParsingNow
<1>5. CASE WalkPaths
  <2>1. CASE PathsDone
    <3>1. UNCHANGED <<next, stack, attempted>> /\ pc = "paths"
      BY <2>1 DEF PathsDone
    <3>2. QED
      BY <1>1, <1>2, <3>1, WalkedKept DEF OpeningNow, ParsingNow
  <2>2. CASE PathIsDirectory \/ PathIsUnit \/ PathIsOther
    <3>1. NextPath /\ UNCHANGED <<stack, attempted>>
      BY <2>2 DEF PathIsDirectory, PathIsUnit, PathIsOther
    <3>2. PICK y : y = Paths[next]
      OBVIOUS
    <3>3. RootMet(y, S)'
      <4>1. CASE PathIsDirectory
        BY <3>2, <4>1 DEF PathIsDirectory, RootMet, OpeningNow
      <4>2. CASE PathIsUnit
        BY <3>2, <4>2 DEF PathIsUnit, RootMet, ParsingNow
      <4>3. CASE PathIsOther
        BY <3>2, <4>3 DEF PathIsOther, RootMet
      <4>4. QED
        BY <2>2, <4>1, <4>2, <4>3
    <3>4. Walked(S)'
      BY <1>1, <1>2, <3>1, <3>2, <3>3, NextRootMet DEF input
    <3>5. QED
      BY <3>4
  <2>3. QED
    BY <1>5, <2>1, <2>2 DEF WalkPaths, PathStatFails
<1>6. CASE WalkCommands
  BY <1>1, <1>6 DEF WalkCommands, CommandFails, CommandAdmissionFails, CommandSkipped,
                    CommandScanned, CommandsDone, NextCommand, Calls
<1>7. CASE OpenFails \/ ReadFails \/ SourceFails \/ VisitFails
  BY <1>1, <1>7 DEF OpenFails, ReadFails, SourceFails, VisitFails, Resume
<1>8. CASE Open
  <2>1. PICK x : x = unit.file
    OBVIOUS
  <2>2. x \in Directory
    BY <1>8, <2>1, BelowLeadsOn DEF Open, IInv, OnTheWay
  <2>3. Walked(S \cup {x})' /\ S \cup {x} \in SUBSET Directory
    BY <1>2, <1>8, <2>1, <2>2, OpenedIsWalked
  <2>4. QED
    BY <2>3
<1>9. CASE ReadEnd
  <2>1. UNCHANGED <<next, stack, attempted>> /\ pc = "read"
    BY <1>9 DEF ReadEnd
  <2>2. QED
    BY <1>1, <1>2, <2>1, WalkedKept DEF OpeningNow, ParsingNow
<1>10. CASE Close
  <2>1. stack[1].left = {}
    BY <1>1, <1>10 DEF Close, LoopsEnd
  <2>2. QED
    BY <1>2, <1>10, <2>1, ClosedIsWalked
<1>11. ASSUME NEW e \in Node,
              EntryFails(e) \/ EntryIsDirectory(e) \/ EntryIsUnit(e) \/ EntryIgnored(e)
       PROVE  \E T \in SUBSET Directory : Walked(T)'
  <2>1. /\ NextEntry(e) /\ UNCHANGED <<next, attempted>>
        /\ EntryIsDirectory(e) \/ EntryIsUnit(e) \/ EntryIgnored(e)
    BY <1>11 DEF EntryFails, EntryIsDirectory, EntryIsUnit, EntryIgnored
  <2>2. e \in Skipped \/ EntryMet(e, S)'
    BY <1>1, <2>1
    DEF EntryIsDirectory, EntryIsUnit, EntryIgnored, EntryMet, IsUnit, OpeningNow, ParsingNow
  <2>3. QED
    BY <1>1, <1>2, <2>1, <2>2, NextEntryMet DEF input
<1>12. CASE Enter
  <2>1. UNCHANGED <<next, stack, attempted, unit>> /\ pc = "source" /\ pc' = "parse"
    BY <1>12 DEF Enter
  <2>2. QED
    BY <1>1, <1>2, <2>1, WalkedKept DEF OpeningNow, ParsingNow
<1>13. ASSUME Parse \/ \E outcome \in Outcome : ParseFails(outcome)
       PROVE  \E T \in SUBSET Directory : Walked(T)'
  <2>1. /\ UNCHANGED <<next, stack>> /\ pc = "parse"
        /\ attempted' = attempted \cup {unit.file}
    BY <1>13 DEF Parse, ParseFails
  <2>2. QED
    BY <1>1, <1>2, <2>1, WalkedKept DEF OpeningNow, ParsingNow
<1>14. ASSUME \/ VisitDone \/ Leave \/ LeaveFailedParse
              \/ \E outcome \in Outcome : Record(outcome)
       PROVE  \E T \in SUBSET Directory : Walked(T)'
  <2>1. UNCHANGED <<next, stack, attempted>> /\ pc \notin {"open", "source", "parse"}
    BY <1>14 DEF VisitDone, Leave, LeaveFailedParse, Record
  <2>2. QED
    BY <1>1, <1>2, <2>1, WalkedKept DEF OpeningNow, ParsingNow
<1>15. CASE UNCHANGED vars
  <2>1. UNCHANGED <<pc, unit, next, stack, attempted>>
    BY <1>15 DEF vars
  <2>2. QED
    BY <1>1, <1>2, <2>1, WalkedKept DEF OpeningNow, ParsingNow
<1>16. QED
  BY <1>4, <1>5, <1>6, <1>7, <1>8, <1>9, <1>10, <1>11, <1>12, <1>13, <1>14, <1>15
  DEF Next, Step, Done, WalkDirectory, ScanUnit

\* The invariant holds of every state of every scan.
LEMMA Invariant == Safety => []IInv
<1>1. IInv /\ [Next]_vars => IInv'
  BY WalkTypesStep, UnitTypesStep, CallsStep, StandingStep, FailingStep, OnTheWayStep,
     LoopsEndStep, CommandsMetStep, TreeMetStep DEF IInv, Types, NothingMissed
<1>2. QED
  BY Start, <1>1, PTL DEF Safety

-----------------------------------------------------------------------------
(* What the runs check, for every tree, list of roots and database.        *)

\* The variables keep their types; a stream is never closed that is not open.
THEOREM TypeCorrect == Safety => []TypeOK
<1>1. IInv => TypeOK
  <2> SUFFICES ASSUME IInv PROVE TypeOK
    OBVIOUS
  <2>1. stack \in Seq([dir : Node, left : SUBSET Node]) /\ streams \in Nat /\ next \in Nat
    BY DEF IInv, Types, WalkTypes, Calls, Frame
  <2>2. /\ ok \in BOOLEAN /\ err \in BOOLEAN /\ stopped \in BOOLEAN
        /\ unparsed \in BOOLEAN /\ returned \in BOOLEAN
    BY DEF IInv, Types, UnitTypes
  <2>3. /\ records \in 0 .. MaxRecords /\ attempted \subseteq Node
        /\ refusals \subseteq {"visit", "failed parse"}
    BY DEF IInv, Types, UnitTypes
  <2>4. /\ entries \in Trees
        /\ options \in [valid : BOOLEAN, database : BOOLEAN, headers : BOOLEAN,
                        keepGoing : BOOLEAN]
        /\ pc \in {"begin", "database", "commands", "paths", "open", "read", "close",
                   "source", "parse", "visit", "leave", "leave failed parse",
                   "return", "done"}
    BY DEF IInv, Types, WalkTypes, Inside
  <2>5. {ok, err, stopped, unparsed, returned} \subseteq BOOLEAN
    BY <2>2
  <2>6. QED
    BY <2>1, <2>3, <2>4, <2>5 DEF TypeOK
<1>2. QED
  BY Invariant, <1>1, PTL

\* However deep the directories nest and wherever the scan fails, each open stream
\* is that of a scan_directory call in progress.
THEOREM NoStreamIsLost == Safety => []StreamsBelongToCalls
<1>1. IInv => StreamsBelongToCalls
  BY DEF IInv, Calls, StreamsBelongToCalls
<1>2. QED
  BY Invariant, <1>1, PTL

\* The process is back at its first directory between any two units.
THEOREM EachUnitLeavesHome == Safety => []HomeBetweenUnits
<1>1. IInv => HomeBetweenUnits
  BY DEF IInv, Standing, Inside, HomeBetweenUnits
<1>2. QED
  BY Invariant, <1>1, PTL

\* A scan that comes to its end without a failure has parsed all that was wanted.
LEMMA AllIsParsed ==
  ASSUME IInv, pc = "return", ok, ~ err
  PROVE  Wanted \subseteq attempted
<1>1. stack = << >> /\ \A n : ~ OpeningNow(n) /\ ~ ParsingNow(n)
  BY DEF IInv, Calls, OpeningNow, ParsingNow
<1>2. CASE options.database
  <2>1. next > Len(Commands)
    BY <1>2 DEF IInv, NothingMissed, LoopsEnd
  <2>2. ASSUME NEW n \in Wanted PROVE n \in attempted
    <3>1. PICK i \in 1 .. Len(Commands) : Commands[i] = n
      BY <1>2, <2>2, WorkAssumption DEF Wanted
    <3>2. Listed(n) /\ i < next
      BY <1>2, <2>1, <2>2, <3>1, WorkAssumption DEF Wanted, Listed, IInv, Types, WalkTypes
    <3>3. QED
      BY <1>1, <1>2, <3>1, <3>2 DEF IInv, NothingMissed, CommandsMet
  <2>3. QED
    BY <2>2
<1>3. CASE ~ options.database
  <2>1. next > Len(Paths) /\ next \in Nat /\ Len(Paths) \in Nat
    BY <1>3, WorkAssumption DEF IInv, NothingMissed, LoopsEnd, Types, WalkTypes
  <2>2. PICK S \in SUBSET Directory : Walked(S)
    BY <1>3 DEF IInv, NothingMissed, TreeMet
  <2>3. \A i \in DOMAIN Paths : RootMet(Paths[i], S)
    BY <2>1, <2>2, WorkAssumption DEF Walked
  <2>4. \A d, e : ~ Left(d, e)
    BY <1>1 DEF Left
  <2>5. \A d \in S : \A e \in entries[d] \ Skipped : EntryMet(e, S)
    BY <2>2, <2>4 DEF Walked
  <2>6. LeadsOn(S)
    BY <1>1, <2>3, <2>5 DEF LeadsOn, RootMet, EntryMet, Directory
  <2>7. DirectoriesBelow \subseteq S
    BY <2>6, BelowIsLeast
  <2>8. ASSUME NEW n \in Wanted PROVE n \in attempted
    <3>1. CASE Kind[n] \in {"source", "header"} /\ \E i \in DOMAIN Paths : Paths[i] = n
      BY <1>1, <2>3, <3>1 DEF RootMet
    <3>2. CASE IsUnit(n) /\ n \notin Skipped /\ \E d \in DirectoriesBelow : n \in entries[d]
      BY <1>1, <2>5, <2>7, <3>2 DEF EntryMet
    <3>3. QED
      BY <1>3, <2>8, <3>1, <3>2 DEF Wanted
  <2>9. QED
    BY <2>8
<1>4. QED
  BY <1>2, <1>3

\* A result and an error tell between them whether anything failed.
LEMMA FailureIsKnown == IInv /\ pc = "return" => (Failed <=> ~ ok \/ err)
BY DEF IInv, Failing, Failed

\* The actions that a caller of the scan can tell from doing nothing.
Visible == Return \/ Parse \/ \E outcome \in Outcome : ParseFails(outcome)

\* No action forgets a failure.
LEMMA FailureStays == IInv /\ [Next]_vars /\ Failed => Failed'
<1> SUFFICES ASSUME IInv, [Next]_vars, Failed PROVE Failed'
  OBVIOUS
<1> USE DEF Failed, Raise, unitVars, history
<1>1. /\ Failed /\ options' = options /\ err \in BOOLEAN /\ unparsed \in BOOLEAN
      /\ options.keepGoing \in BOOLEAN
  BY InputIsFixed DEF IInv, Types, WalkTypes, UnitTypes, input
<1>2. CASE BeginFails \/ Begin \/ Return \/ DatabaseFails \/ LoadDatabase
  BY <1>1, <1>2 DEF BeginFails, Begin, Return, DatabaseFails, LoadDatabase
<1>3. CASE WalkPaths
  BY <1>1, <1>3 DEF WalkPaths, PathStatFails, PathIsDirectory, PathIsUnit, PathIsOther,
                    PathsDone
<1>4. CASE WalkCommands
  BY <1>1, <1>4 DEF WalkCommands, CommandFails, CommandAdmissionFails, CommandSkipped,
                    CommandScanned, CommandsDone
<1>5. CASE OpenFails \/ Open \/ ReadFails \/ ReadEnd \/ Close
  BY <1>1, <1>5 DEF OpenFails, Open, ReadFails, ReadEnd, Close
<1>6. ASSUME NEW e \in Node,
             EntryFails(e) \/ EntryIsDirectory(e) \/ EntryIsUnit(e) \/ EntryIgnored(e)
      PROVE  Failed'
  BY <1>1, <1>6 DEF EntryFails, EntryIsDirectory, EntryIsUnit, EntryIgnored
<1>7. CASE SourceFails \/ Enter \/ Parse \/ VisitFails \/ VisitDone
  BY <1>1, <1>7 DEF SourceFails, Enter, Parse, VisitFails, VisitDone
<1>8. CASE Leave \/ LeaveFailedParse
  BY <1>1, <1>8 DEF Leave, LeaveFailedParse, LeaveDirectory
<1>9. ASSUME NEW outcome \in Outcome, ParseFails(outcome) \/ Record(outcome)
      PROVE  Failed'
  BY <1>1, <1>9 DEF ParseFails, Record, Observe
<1>10. CASE UNCHANGED vars
  BY <1>1, <1>10 DEF vars
<1>11. QED
  BY <1>2, <1>3, <1>4, <1>5, <1>6, <1>7, <1>8, <1>9, <1>10
  DEF Next, Step, Done, WalkDirectory, ScanUnit

\* The other actions neither parse a file nor return.
LEMMA OthersAreInvisible ==
  IInv /\ [Next]_vars =>
    Visible \/ (UNCHANGED <<attempted, returned>> /\ (pc' = "done" <=> pc = "done"))
<1> SUFFICES ASSUME IInv, [Next]_vars, ~ Visible
             PROVE  UNCHANGED <<attempted, returned>> /\ (pc' = "done" <=> pc = "done")
  OBVIOUS
<1> USE DEF history
<1>1. CASE BeginFails \/ Begin \/ DatabaseFails \/ LoadDatabase
  BY <1>1 DEF BeginFails, Begin, DatabaseFails, LoadDatabase
<1>2. CASE WalkPaths
  BY <1>2 DEF WalkPaths, PathStatFails, PathIsDirectory, PathIsUnit, PathIsOther,
              PathsDone, NextPath
<1>3. CASE WalkCommands
  BY <1>3 DEF WalkCommands, CommandFails, CommandAdmissionFails, CommandSkipped,
              CommandScanned, CommandsDone, NextCommand
<1>4. CASE OpenFails \/ Open \/ ReadFails \/ ReadEnd \/ Close
  BY <1>4 DEF OpenFails, Open, ReadFails, ReadEnd, Close, Resume
<1>5. ASSUME NEW e \in Node,
             EntryFails(e) \/ EntryIsDirectory(e) \/ EntryIsUnit(e) \/ EntryIgnored(e)
      PROVE  UNCHANGED <<attempted, returned>> /\ (pc' = "done" <=> pc = "done")
  BY <1>5 DEF EntryFails, EntryIsDirectory, EntryIsUnit, EntryIgnored, NextEntry
<1>6. CASE SourceFails \/ Enter \/ VisitFails \/ VisitDone
  BY <1>6 DEF SourceFails, Enter, VisitFails, VisitDone, Resume
<1>7. CASE Leave \/ LeaveFailedParse
  BY <1>7 DEF Leave, LeaveFailedParse, Resume
<1>8. ASSUME NEW outcome \in Outcome, Record(outcome)
      PROVE  UNCHANGED <<attempted, returned>> /\ (pc' = "done" <=> pc = "done")
  BY <1>8 DEF Record
<1>9. CASE UNCHANGED vars
  BY <1>9 DEF vars
<1>10. QED
  BY <1>1, <1>2, <1>3, <1>4, <1>5, <1>6, <1>7, <1>8, <1>9
  DEF Next, Step, Done, WalkDirectory, ScanUnit, Visible

\* A scan that has returned changes nothing any more.
LEMMA EndIsFinal == [Next]_vars /\ pc = "done" => UNCHANGED vars
BY DEF Next, Step, WalkPaths, WalkCommands, WalkDirectory, ScanUnit, Done,
       BeginFails, Begin, Return, DatabaseFails, LoadDatabase, NextPath, PathStatFails,
       PathIsDirectory, PathIsUnit, PathIsOther, PathsDone, NextCommand, CommandFails,
       CommandAdmissionFails, CommandSkipped, CommandScanned, CommandsDone, OpenFails,
       Open, ReadFails, ReadEnd, Close, NextEntry, EntryFails, EntryIsDirectory,
       EntryIsUnit, EntryIgnored, SourceFails, Enter, Parse, VisitFails, VisitDone, Leave,
       LeaveFailedParse, ParseFails, Record

-----------------------------------------------------------------------------
(* The composition with the units.                                         *)

\* What is owed of the files parsed so far, until something fails.
Telling ==
  /\ pc = "visit" => unit.file \in attempted
  /\ ~ Failed => attempted \subseteq told \cup (IF pc = "visit" THEN {unit.file} ELSE {})

\* Every step of the composition is one of the driver's, or leaves it alone.
LEMMA ScanStepIsDriverStep == [ScanNext]_scanVars => [Next]_vars
BY DEF ScanNext, ScanStep, UnitStep, DriverStep, StartUnit, UnparsedUnit, TakePlace,
       ReportRecord, FailInUnit, EndUnit, LeaveUnit, scanVars, Next, Step, ScanUnit

\* The visits that the contract of a unit allows are visits of the driver: what is
\* proved of the driver alone holds of the composition.
THEOREM UnitsFitTheScan == ScanSpec => Safety
<1>1. ScanInit => Init
  BY DEF ScanInit
<1>2. QED
  BY <1>1, ScanStepIsDriverStep, PTL DEF ScanSpec, Safety

\* Between the visits nothing is parsed and nothing told.
LEMMA BetweenVisits ==
  ASSUME DriverStep
  PROVE  /\ pc \notin {"parse", "visit"} /\ pc' # "visit"
         /\ UNCHANGED <<attempted, told, unitState>>
<1> USE DEF history
<1>1. UNCHANGED <<told, unitState>>
  BY DEF DriverStep
<1>2. CASE BeginFails \/ Begin \/ Return \/ DatabaseFails \/ LoadDatabase
  BY <1>1, <1>2 DEF BeginFails, Begin, Return, DatabaseFails, LoadDatabase
<1>3. CASE WalkPaths
  BY <1>1, <1>3 DEF WalkPaths, PathStatFails, PathIsDirectory, PathIsUnit, PathIsOther,
                    PathsDone, NextPath
<1>4. CASE WalkCommands
  BY <1>1, <1>4 DEF WalkCommands, CommandFails, CommandAdmissionFails, CommandSkipped,
                    CommandScanned, CommandsDone, NextCommand
<1>5. CASE OpenFails \/ Open \/ ReadFails \/ ReadEnd \/ Close
  BY <1>1, <1>5 DEF OpenFails, Open, ReadFails, ReadEnd, Close, Resume
<1>6. ASSUME NEW e \in Node,
             EntryFails(e) \/ EntryIsDirectory(e) \/ EntryIsUnit(e) \/ EntryIgnored(e)
      PROVE  pc = "read" /\ pc' # "visit" /\ UNCHANGED attempted
  BY <1>6 DEF EntryFails, EntryIsDirectory, EntryIsUnit, EntryIgnored, NextEntry
<1>7. CASE SourceFails \/ Enter \/ LeaveFailedParse
  BY <1>1, <1>7 DEF SourceFails, Enter, LeaveFailedParse, Resume
<1>8. QED
  BY <1>1, <1>2, <1>3, <1>4, <1>5, <1>6, <1>7 DEF DriverStep, WalkDirectory

\* A visit that is over has told all that its unit owes, or something has failed.
LEMMA UntoldIsFailed ==
  ASSUME IInv, EndUnit, ~ Failed
  PROVE  owed \subseteq heard
<1>1. pc = "visit" /\ ~ err /\ ~ stopped
  BY DEF EndUnit, VisitDone, IInv, Failing, Failed
<1>2. Unit!Succeed
  BY <1>1 DEF EndUnit, Unit!GiveUp
<1>3. QED
  BY <1>2 DEF Unit!Succeed

\* Nothing is owed before the first unit.
LEMMA TellingStart == ScanInit => Telling
BY DEF ScanInit, Init, Telling

\* Each unit settles what it owes before the next is parsed.
LEMMA TellingStep ==
  ASSUME IInv, Telling, [ScanNext]_scanVars
  PROVE  Telling'
<1>1. /\ pc = "visit" => unit.file \in attempted
      /\ ~ Failed => attempted \subseteq told \cup (IF pc = "visit" THEN {unit.file} ELSE {})
  BY DEF Telling
<1>2. (Failed => Failed') /\ options' = options /\ options.keepGoing \in BOOLEAN
  BY ScanStepIsDriverStep, FailureStays, InputIsFixed DEF IInv, Types, WalkTypes, input
<1>3. CASE DriverStep
  BY <1>1, <1>2, <1>3, BetweenVisits DEF Telling
<1>4. CASE StartUnit
  BY <1>1, <1>2, <1>4 DEF StartUnit, Parse, Telling
<1>5. ASSUME NEW outcome \in Outcome, UnparsedUnit(outcome)
      PROVE  Telling'
  <2>1. /\ pc = "parse" /\ pc' = "leave failed parse" /\ unparsed'
        /\ attempted' = attempted \cup {unit.file}
    BY <1>5 DEF UnparsedUnit, ParseFails
  <2>2. ~ Failed' => told' = told \cup {unit.file}
    BY <1>2, <1>5, <2>1 DEF UnparsedUnit, Failed
  <2>3. QED
    BY <1>1, <1>2, <2>1, <2>2 DEF Telling
<1>6. CASE TakePlace \/ FailInUnit
  <2>1. pc = "visit" /\ UNCHANGED <<pc, unit, attempted, told>>
    BY <1>6 DEF TakePlace, FailInUnit, VisitFails, vars, unitVars, history
  <2>2. QED
    BY <1>1, <1>2, <2>1 DEF Telling
<1>7. ASSUME NEW outcome \in Outcome, ReportRecord(outcome)
      PROVE  Telling'
  BY <1>1, <1>2, <1>7 DEF ReportRecord, Record, Telling
<1>8. CASE EndUnit
  <2>1. pc = "visit" /\ pc' = "leave" /\ attempted' = attempted
    BY <1>8 DEF EndUnit, VisitDone, history
  <2>2. ~ Failed => told' = told \cup {unit.file}
    BY <1>8, UntoldIsFailed DEF EndUnit
  <2>3. QED
    BY <1>1, <1>2, <2>1, <2>2 DEF Telling
<1>9. CASE LeaveUnit
  <2>1. pc = "leave" /\ pc' # "visit" /\ attempted' = attempted /\ told' = told
    BY <1>9 DEF LeaveUnit, Leave, Resume, history
  <2>2. QED
    BY <1>1, <1>2, <2>1 DEF Telling
<1>10. CASE UNCHANGED scanVars
  <2>1. UNCHANGED <<pc, unit, attempted, told>>
    BY <1>10 DEF scanVars, vars, unitVars, history
  <2>2. QED
    BY <1>1, <1>2, <2>1 DEF Telling
<1>11. CASE Done /\ UNCHANGED <<unitState, told>>
  BY <1>10, <1>11 DEF Done, scanVars
<1>12. QED
  BY <1>3, <1>4, <1>5, <1>6, <1>7, <1>8, <1>9, <1>10, <1>11
  DEF ScanNext, ScanStep, UnitStep

\* Both hold of every state of every scan and its units.
LEMMA ScanInvariant == ScanSpec => [](IInv /\ Telling)
<1>1. ScanSpec => []IInv
  BY UnitsFitTheScan, Invariant, PTL
<1>2. IInv /\ Telling /\ [ScanNext]_scanVars => Telling'
  BY TellingStep
<1>3. QED
  BY <1>1, <1>2, TellingStart, PTL DEF ScanSpec

\* Each visit starts where the contract of a unit does and then keeps it; in
\* particular no unit inherits a stop or an error from the one before.
VisitsAreUnits ==
  /\ pc # "visit" /\ pc' = "visit" => Unit!Init'
  /\ pc = "visit" => [Unit!Next]_(Unit!vars)
THEOREM VisitsKeepTheirContract == ScanSpec => [][VisitsAreUnits]_scanVars
<1>1. ASSUME IInv, [ScanNext]_scanVars
      PROVE  VisitsAreUnits
  <2>1. CASE DriverStep
    BY <2>1, BetweenVisits DEF VisitsAreUnits
  <2>2. CASE StartUnit
    <3>1. pc = "parse"
      BY <2>2 DEF StartUnit, Parse
    <3>2. err \in BOOLEAN /\ ~ err
      BY <1>1, <3>1 DEF IInv, Failing, Types, UnitTypes
    <3>3. QED
      BY <2>2, <3>1, <3>2 DEF StartUnit, Parse, Unit!Init, VisitsAreUnits
  <2>3. ASSUME NEW outcome \in Outcome, UnparsedUnit(outcome)
        PROVE  VisitsAreUnits
    BY <2>3 DEF UnparsedUnit, ParseFails, VisitsAreUnits
  <2>4. ASSUME NEW outcome \in Outcome, ReportRecord(outcome)
        PROVE  VisitsAreUnits
    BY <2>4 DEF ReportRecord, Record, Unit!Next, Outcome, Unit!Outcome, VisitsAreUnits
  <2>5. CASE TakePlace \/ FailInUnit \/ EndUnit
    BY <2>5 DEF TakePlace, FailInUnit, EndUnit, VisitFails, VisitDone, Unit!Next,
                VisitsAreUnits
  <2>6. CASE LeaveUnit
    BY <2>6 DEF LeaveUnit, Leave, Resume, VisitsAreUnits
  <2>7. CASE UNCHANGED scanVars
    BY <2>7 DEF scanVars, vars, unitState, unitVars, Unit!vars, VisitsAreUnits
  <2>8. CASE Done /\ UNCHANGED <<unitState, told>>
    BY <2>8, <2>7 DEF Done, scanVars
  <2>9. QED
    BY <1>1, <2>1, <2>2, <2>3, <2>4, <2>5, <2>6, <2>7, <2>8
    DEF ScanNext, ScanStep, UnitStep
<1>2. QED
  BY ScanInvariant, <1>1, PTL DEF ScanSpec

-----------------------------------------------------------------------------
(* The refinement of ScanContract.                                         *)

\* A scan starts where its contract does.
LEMMA ContractInit == ScanInit => Contract!Init
BY DEF ScanInit, Init, Contract!Init, Failed

\* A step that neither parses, nor tells, nor returns shows at most a failure.
LEMMA QuietStep ==
  ASSUME IInv, [Next]_vars, ~ Visible, UNCHANGED told
  PROVE  [Contract!Next]_(Contract!vars)
<1>1. Wanted' = Wanted /\ (Failed => Failed')
  BY InputIsFixed, WantedIsFixed, FailureStays
<1>2. UNCHANGED <<attempted, returned>> /\ (pc' = "done" <=> pc = "done")
  BY OthersAreInvisible
<1>3. CASE Failed <=> Failed'
  <2>1. Failed' = Failed
    BY <1>3 DEF Failed
  <2>2. QED
    BY <1>1, <1>2, <2>1 DEF Contract!vars
<1>4. CASE ~ Failed /\ Failed'
  <2>1. pc # "done"
    BY <1>4, EndIsFinal DEF Failed, vars, history, input
  <2>2. Contract!Fail
    BY <1>1, <1>2, <1>4, <2>1 DEF Contract!Fail
  <2>3. QED
    BY <2>2 DEF Contract!Next
<1>5. QED
  BY <1>1, <1>3, <1>4

\* A file is parsed, or given up on where the caller said to go on.
LEMMA AttemptStep ==
  ASSUME IInv, StartUnit \/ \E outcome \in Outcome : UnparsedUnit(outcome)
  PROVE  Contract!Attempt
<1>1. pc = "parse" /\ pc' # "done" /\ returned' = returned /\ UNCHANGED input
  BY DEF StartUnit, Parse, UnparsedUnit, ParseFails
<1>2. Wanted' = Wanted
  BY <1>1, WantedIsFixed
<1>3. unit.file \in Wanted /\ attempted' = attempted \cup {unit.file}
  BY <1>1 DEF IInv, OnTheWay, StartUnit, Parse, UnparsedUnit, ParseFails
<1>4. told' \in {told, told \cup {unit.file}}
  BY DEF StartUnit, UnparsedUnit
<1>5. ~ Failed
  BY <1>1 DEF IInv, Failing, Failed
<1>6. QED
  BY <1>1, <1>2, <1>3, <1>4, <1>5 DEF Contract!Attempt, Failed

\* The end of a visit settles what is owed of its file.
LEMMA TellStep ==
  ASSUME IInv, Telling, EndUnit
  PROVE  Contract!Tell
<1>1. /\ pc = "visit" /\ pc' = "leave" /\ unit.file \in attempted
      /\ UNCHANGED <<attempted, returned, options, refusals, unparsed, err, input>>
  BY DEF EndUnit, VisitDone, Telling, history, input
<1>2. Wanted' = Wanted /\ Failed' = Failed
  BY <1>1, WantedIsFixed DEF Failed
<1>3. told' = told \cup {unit.file} \/ (Failed /\ told' = told \ {unit.file})
  BY UntoldIsFailed DEF EndUnit
<1>4. QED
  BY <1>1, <1>2, <1>3 DEF Contract!Tell

\* What is returned is true when nothing failed, and then all has been told.
LEMMA ReturnStep ==
  ASSUME IInv, Telling, Return, UNCHANGED told
  PROVE  Contract!Next
<1>1. pc = "return" /\ pc' = "done" /\ returned' = (ok /\ ~ err) /\ attempted' = attempted
  BY DEF Return, history
<1>2. Wanted' = Wanted /\ Failed' = Failed /\ (Failed <=> ~ ok \/ err)
  BY <1>1, FailureIsKnown, WantedIsFixed DEF Return, history, input, Failed
<1>3. CASE Failed
  <2>1. Contract!GiveUp
    BY <1>1, <1>2, <1>3 DEF Contract!GiveUp
  <2>2. QED
    BY <2>1 DEF Contract!Next
<1>4. CASE ~ Failed
  <2>1. Wanted \subseteq attempted
    BY <1>1, <1>2, <1>4, AllIsParsed
  <2>2. Wanted \subseteq told
    BY <1>1, <1>4, <2>1 DEF Telling
  <2>3. Contract!Succeed
    BY <1>1, <1>2, <1>4, <2>2 DEF Contract!Succeed
  <2>4. QED
    BY <2>3 DEF Contract!Next
<1>5. QED
  BY <1>3, <1>4

\* Every step of the scan is one of the contract's, or none.
LEMMA ContractStep ==
  IInv /\ Telling /\ [ScanNext]_scanVars => [Contract!Next]_(Contract!vars)
<1> SUFFICES ASSUME IInv, Telling, [ScanNext]_scanVars
             PROVE  [Contract!Next]_(Contract!vars)
  OBVIOUS
<1>1. [Next]_vars
  BY ScanStepIsDriverStep
<1>2. CASE StartUnit \/ \E outcome \in Outcome : UnparsedUnit(outcome)
  BY <1>2, AttemptStep DEF Contract!Next
<1>3. CASE EndUnit
  BY <1>3, TellStep DEF Contract!Next
<1>4. CASE Return /\ UNCHANGED told
  BY <1>4, ReturnStep
<1>5. CASE pc # "parse" /\ ~ Return /\ UNCHANGED told
  <2>1. ~ Visible
    BY <1>5 DEF Visible, Parse, ParseFails
  <2>2. QED
    BY <1>1, <1>5, <2>1, QuietStep
<1>6. CASE DriverStep
  BY <1>4, <1>5, <1>6, BetweenVisits
<1>7. CASE pc \in {"visit", "leave", "done"} /\ UNCHANGED told
  BY <1>5, <1>7 DEF Return
<1>8. CASE UNCHANGED scanVars
  <2>1. Wanted' = Wanted /\ Failed' = Failed
    BY <1>8, WantedIsFixed DEF scanVars, vars, history, input, Failed
  <2>2. QED
    BY <1>8, <2>1 DEF scanVars, vars, history, Contract!vars
<1>9. CASE TakePlace \/ FailInUnit \/ LeaveUnit
  BY <1>7, <1>9 DEF TakePlace, FailInUnit, VisitFails, LeaveUnit, Leave
<1>10. ASSUME NEW outcome \in Outcome, ReportRecord(outcome)
       PROVE  [Contract!Next]_(Contract!vars)
  BY <1>7, <1>10 DEF ReportRecord, Record
<1>11. CASE Done /\ UNCHANGED <<unitState, told>>
  BY <1>7, <1>11 DEF Done
<1>12. QED
  BY <1>2, <1>3, <1>6, <1>8, <1>9, <1>10, <1>11 DEF ScanNext, ScanStep, UnitStep

\* A scan keeps its contract: what it parses was asked for and not after a failure;
\* true means that the observer was told all of every wanted file and nothing failed,
\* false that something did.
THEOREM ScanKeepsContract == ScanSpec => KeepsContract
BY ContractInit, ContractStep, ScanInvariant, PTL
DEF ScanSpec, KeepsContract, Contract!Spec

=============================================================================
