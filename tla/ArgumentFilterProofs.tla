------------------------- MODULE ArgumentFilterProofs -------------------------
(***************************************************************************)
(* What the filter passes on of every command, whatever its length, the    *)
(* texts in it and the room there is.                                      *)
(***************************************************************************)
EXTENDS ArgumentFilter, FiniteSetTheorems, WellFoundedInduction, SequenceTheorems, TLAPS

\* What parse_arguments may hold.
Passable == {Given(i) : i \in 2 .. Len(command)} \cup {Extra(i) : i \in 1 .. extra}
              \cup {Default(n) : n \in {"-resource-dir", "-isysroot", "SYSROOT"}}

Types ==
  /\ command \in Seq(Spelling) /\ Len(command) <= MaxCommand /\ extra \in 0 .. MaxExtra
  /\ passed \in Seq(Passable) /\ Len(passed) <= MaxArguments
  /\ index \in 1 .. Len(command) + MaxExtra + 2
  /\ hasSysroot \in BOOLEAN
  /\ pc \in {"command", "extra", "resource", "sysroot", "done", "failed"}

\* Each part of the filter stays within its input, and comes after the parts before it.
Advancing ==
  /\ pc = "command" => /\ index <= Len(command) + 2
                       /\ \A k \in 1 .. Len(passed) : passed[k].from = "command"
  /\ pc = "extra" => index <= extra + 1

\* While there is room, the loop looks at no value of an option.
AtArgument ==
  pc = "command" /\ HasRoomForTwo /\ index <= Len(command) => ~ ReadAsValue[index]

\* While there is room, what was looked at is passed on if it is admitted.
Met(i) == pc = "command" => i < index
PassedSoFar ==
  pc \in {"command", "extra"} /\ HasRoomForTwo =>
    /\ \A k \in FromCommand : passed[k].at \in Admitted /\ Met(passed[k].at)
    /\ \A i \in Admitted : Met(i) => \E k \in FromCommand : passed[k].at = i
    /\ \A j, k \in FromCommand : j < k => passed[j].at < passed[k].at

\* hasSysroot knows the system root that the command chose; the default is passed
\* without one, at the end.
Chosen(k) == /\ passed[k].from = "command"
             /\ command[passed[k].at] \in IsSysroot
             /\ ~ ReadAsValue[passed[k].at]
Defaulted(k) == passed[k] = Default("-isysroot")
Sysroots ==
  /\ (\E k \in 1 .. Len(passed) : Chosen(k)) => hasSysroot
  /\ hasSysroot => (\E k \in 1 .. Len(passed) : Chosen(k)) \/ ~ HasRoomForTwo
  /\ (\E k \in 1 .. Len(passed) : Defaulted(k)) => pc = "done" /\ ~ hasSysroot
  /\ pc = "done" /\ "sysroot" \in Defaults /\ HasRoomForTwo /\ ~ hasSysroot =>
       \E k \in 1 .. Len(passed) : Defaulted(k)

IInv == Types /\ Advancing /\ AtArgument /\ PassedSoFar /\ OptionsKeepTheirValues /\ Sysroots

-----------------------------------------------------------------------------
(* A compiler's reading.                                                   *)

\* Among numbers there is a least one: the sets 1 .. m are well ordered.
LEMMA LeastNumber ==
  ASSUME NEW T \in SUBSET Nat, T # {}
  PROVE  \E m \in T : \A n \in T : m <= n
<1> DEFINE I == {1 .. m : m \in T}
<1>1. IsWellFoundedOn(StrictSubsetOrdering(Nat), FiniteSubsetsOf(Nat))
  BY FS_StrictSubsetOrderingWellFounded
<1>2. \A m \in T : 1 .. m \in FiniteSubsetsOf(Nat)
  BY FS_Interval DEF FiniteSubsetsOf
<1>3. I \subseteq FiniteSubsetsOf(Nat) /\ I # {}
  BY <1>2
<1> HIDE DEF I
<1>4. \E x \in I : \A y \in I : ~ (<<y, x>> \in StrictSubsetOrdering(Nat))
  BY <1>1, <1>3, WFMin
<1> USE DEF I
<1>5. PICK m \in T : \A n \in T : ~ (<<1 .. n, 1 .. m>> \in StrictSubsetOrdering(Nat))
  BY <1>4
<1>6. ASSUME NEW n \in T, n < m PROVE FALSE
  <2>1. /\ 1 .. n \in SUBSET Nat /\ 1 .. m \in SUBSET Nat
        /\ 1 .. n \subseteq 1 .. m /\ m \in 1 .. m /\ m \notin 1 .. n
    BY <1>6
  <2>2. <<1 .. n, 1 .. m>> \in StrictSubsetOrdering(Nat)
    BY <2>1 DEF StrictSubsetOrdering
  <2>3. QED
    BY <1>5, <2>2
<1>7. QED
  BY <1>6

\* The reading of one argument follows from that of the argument before it.
Reading(f, m) ==
  f = [i \in 1 .. m |->
         /\ i > 2 /\ i <= Len(command)
         /\ command[i - 1] \in TakesIgnoredValue \cup TakesSemanticValue
         /\ ~ f[i - 1]]

\* Such a reading exists for every length: a least one without would have a reading
\* one shorter, which can be prolonged.
LEMMA ReadingExists == \A m \in Nat : \E f : Reading(f, m)
<1> DEFINE T == {m \in Nat : ~ \E f : Reading(f, m)}
<1>1. SUFFICES ASSUME T # {} PROVE FALSE
  OBVIOUS
<1>2. PICK m \in T : \A n \in T : m <= n
  BY <1>1, LeastNumber
<1>3. m # 0
  <2> DEFINE f == [i \in {} |-> TRUE]
  <2>1. Reading(f, 0)
    BY DEF Reading
  <2>2. QED
    BY <2>1
<1>4. PICK g : Reading(g, m - 1)
  <2>1. m - 1 \in Nat /\ ~ (m <= m - 1)
    BY <1>3
  <2>2. QED
    BY <1>2, <2>1
<1> DEFINE value(i, f) == /\ i > 2 /\ i <= Len(command)
                          /\ command[i - 1] \in TakesIgnoredValue \cup TakesSemanticValue
                          /\ ~ f[i - 1]
           h == [i \in 1 .. m |-> value(i, g)]
<1>5. g = [i \in 1 .. m - 1 |-> value(i, g)]
  BY <1>4 DEF Reading
<1>6. \A i \in 1 .. m : i > 2 => h[i - 1] = g[i - 1]
  <2> TAKE i \in 1 .. m
  <2> HAVE i > 2
  <2>1. i - 1 \in 1 .. m - 1 /\ i - 1 \in 1 .. m
    OBVIOUS
  <2> DEFINE v == value(i - 1, g)
  <2>2. h[i - 1] = v
    BY <2>1
  <2>3. g[i - 1] = v
    BY <1>5, <2>1
  <2> HIDE DEF v, h
  <2>4. QED
    BY <2>2, <2>3
<1>7. \A i \in 1 .. m : value(i, h) = value(i, g)
  BY <1>6
<1>8. h = [i \in 1 .. m |-> value(i, h)]
  BY <1>7
<1>9. Reading(h, m)
  BY <1>8 DEF Reading
<1>10. QED
  BY <1>2, <1>9

\* An argument is a value when the one before it is an option, not a value, that
\* takes one.
LEMMA ReadsAsValue ==
  ASSUME NEW i \in 1 .. MaxCommand
  PROVE  ReadAsValue[i] <=>
           /\ i > 2 /\ i <= Len(command)
           /\ command[i - 1] \in TakesIgnoredValue \cup TakesSemanticValue
           /\ ~ ReadAsValue[i - 1]
<1>1. PICK f : Reading(f, MaxCommand)
  BY ReadingExists, LimitAssumption
<1>2. Reading(ReadAsValue, MaxCommand)
  BY <1>1 DEF Reading, ReadAsValue
<1>3. QED
  BY <1>2 DEF Reading

\* The values follow the options that take one, and nothing else.
Options == TakesIgnoredValue \cup TakesSemanticValue

\* The command is fixed, and with it how it reads and what is admitted of it.
LEMMA CommandIsFixed ==
  [Next]_vars => /\ command' = command /\ extra' = extra
                 /\ ReadAsValue' = ReadAsValue /\ Admitted' = Admitted
<1>1. SUFFICES ASSUME [Next]_vars
      PROVE  /\ command' = command /\ extra' = extra
             /\ ReadAsValue' = ReadAsValue /\ Admitted' = Admitted
  OBVIOUS
<1>2. command' = command /\ extra' = extra
  BY <1>1 DEF Next, vars, Move, SkipCompiler, Skip, SkipWithValue, PassWithValue,
     DropWithoutValue, Pass, CommandDone, PassExtra, ExtraDone, ResourceFails, Resource, Sysroot
<1>3. ReadAsValue' = ReadAsValue
  BY <1>2 DEF ReadAsValue
<1>4. QED
  BY <1>2, <1>3 DEF Admitted, Admissible

\* What follows an argument that takes no value is an argument.
LEMMA AfterAnArgument ==
  ASSUME Types, NEW i \in 1 .. Len(command), command[i] \notin Options, i + 1 <= Len(command)
  PROVE  ~ ReadAsValue[i + 1]
<1>1. i + 1 \in 1 .. MaxCommand
  BY LimitAssumption DEF Types
<1>2. QED
  BY <1>1, ReadsAsValue DEF Options

\* What follows the compiler's name is an argument.
LEMMA AfterTheCompiler ==
  ASSUME Types, 2 <= Len(command)
  PROVE  ~ ReadAsValue[2]
<1>1. 2 \in 1 .. MaxCommand
  BY LimitAssumption DEF Types
<1>2. QED
  BY <1>1, ReadsAsValue

\* What follows an option that takes a value is its value, and no option itself.
LEMMA AfterAnOption ==
  ASSUME Types, NEW i \in 2 .. Len(command), command[i] \in Options, ~ ReadAsValue[i]
  PROVE  /\ i + 1 <= Len(command) => ReadAsValue[i + 1]
         /\ i + 2 <= Len(command) => ~ ReadAsValue[i + 2]
<1>1. ASSUME i + 1 <= Len(command) PROVE ReadAsValue[i + 1]
  <2>1. i + 1 \in 1 .. MaxCommand
    BY <1>1, LimitAssumption DEF Types
  <2>2. QED
    BY <1>1, <2>1, ReadsAsValue DEF Options
<1>2. ASSUME i + 2 <= Len(command) PROVE ~ ReadAsValue[i + 2]
  <2>1. i + 2 \in 1 .. MaxCommand
    BY <1>2, LimitAssumption DEF Types
  <2>2. ReadAsValue[i + 1]
    BY <1>1, <1>2 DEF Types
  <2>3. QED
    BY <2>1, <2>2, ReadsAsValue
<1>3. QED
  BY <1>1, <1>2

-----------------------------------------------------------------------------
(* What the loop passes on.                                                *)

\* One more, two more.
LEMMA OneMore ==
  ASSUME NEW S, NEW s \in Seq(S), NEW a \in S
  PROVE  /\ Append(s, a) \in Seq(S) /\ Len(Append(s, a)) = Len(s) + 1
         /\ \A k \in 1 .. Len(s) : Append(s, a)[k] = s[k]
         /\ Append(s, a)[Len(s) + 1] = a
  BY AppendProperties

\* The same of two more elements.
LEMMA TwoMore ==
  ASSUME NEW S, NEW s \in Seq(S), NEW a \in S, NEW b \in S
  PROVE  /\ s \o <<a, b>> \in Seq(S) /\ Len(s \o <<a, b>>) = Len(s) + 2
         /\ \A k \in 1 .. Len(s) : (s \o <<a, b>>)[k] = s[k]
         /\ (s \o <<a, b>>)[Len(s) + 1] = a /\ (s \o <<a, b>>)[Len(s) + 2] = b
<1>1. <<a, b>> \in Seq(S) /\ Len(<<a, b>>) = 2 /\ <<a, b>>[1] = a /\ <<a, b>>[2] = b
  OBVIOUS
<1> DEFINE t == <<a, b>>
<1> HIDE DEF t
<1>2. t \in Seq(S) /\ Len(t) = 2 /\ t[1] = a /\ t[2] = b
  BY <1>1 DEF t
<1>3. /\ s \o t \in Seq(S) /\ Len(s \o t) = Len(s) + 2
      /\ \A k \in 1 .. Len(s) + 2 : (s \o t)[k] = IF k <= Len(s) THEN s[k] ELSE t[k - Len(s)]
  <2>1. /\ s \o t \in Seq(S) /\ Len(s \o t) = Len(s) + Len(t)
        /\ \A k \in 1 .. Len(s) + Len(t) :
             (s \o t)[k] = IF k <= Len(s) THEN s[k] ELSE t[k - Len(s)]
    BY <1>2, ConcatProperties
  <2>2. QED
    BY <1>2, <2>1
<1>4. /\ Len(s) \in Nat /\ Len(s) + 1 \in 1 .. Len(s) + 2 /\ Len(s) + 2 \in 1 .. Len(s) + 2
      /\ ~ (Len(s) + 1 <= Len(s)) /\ ~ (Len(s) + 2 <= Len(s))
      /\ Len(s) + 1 - Len(s) = 1 /\ Len(s) + 2 - Len(s) = 2
      /\ \A k \in 1 .. Len(s) : k \in 1 .. Len(s) + 2 /\ k <= Len(s)
  BY LenProperties
<1>5. QED
  BY <1>2, <1>3, <1>4 DEF t

\* One more is added to what is passed.
Adds(a) ==
  /\ a \in Passable
  /\ passed' \in Seq(Passable) /\ Len(passed') = Len(passed) + 1
  /\ \A k \in 1 .. Len(passed) : passed'[k] = passed[k]
  /\ passed'[Len(passed) + 1] = a

\* Two more are added to what is passed.
AddsBoth(a, b) ==
  /\ a \in Passable /\ b \in Passable
  /\ passed' \in Seq(Passable) /\ Len(passed') = Len(passed) + 2
  /\ \A k \in 1 .. Len(passed) : passed'[k] = passed[k]
  /\ passed'[Len(passed) + 1] = a /\ passed'[Len(passed) + 2] = b

\* The steps that may leave what is passed as it is.
Quiet == \/ SkipCompiler \/ Skip \/ SkipWithValue \/ DropWithoutValue \/ CommandDone
         \/ ExtraDone \/ ResourceFails \/ Resource \/ Sysroot \/ UNCHANGED vars

\* A step leaves what is passed as it is or adds to it: an argument and its value
\* from the command, an argument from the command or the caller, or a default.
LEMMA Additions ==
  ASSUME Types, Advancing, [Next]_vars
  PROVE  \/ UNCHANGED passed /\ Quiet
         \/ PassWithValue /\ AddsBoth(Given(index), Given(index + 1))
         \/ Pass /\ Adds(Given(index))
         \/ PassExtra /\ Adds(Extra(index))
         \/ Resource /\ Adds(Default("-resource-dir"))
         \/ Sysroot /\ AddsBoth(Default("-isysroot"), Default("SYSROOT"))
<1>1. CASE PassWithValue
  <2>1. index \in 2 .. Len(command) /\ index + 1 \in 2 .. Len(command)
    BY <1>1 DEF PassWithValue, Looking, Types
  <2>2. Given(index) \in Passable /\ Given(index + 1) \in Passable
    BY <2>1 DEF Passable
  <2>3. passed \in Seq(Passable) /\ passed' = passed \o <<Given(index), Given(index + 1)>>
    BY <1>1 DEF PassWithValue, Types
  <2>4. AddsBoth(Given(index), Given(index + 1))
    BY <2>2, <2>3, TwoMore DEF AddsBoth
  <2>5. QED
    BY <1>1, <2>4
<1>2. CASE Pass
  <2>1. index \in 2 .. Len(command)
    BY <1>2 DEF Pass, Looking, Types
  <2>2. Given(index) \in Passable
    BY <2>1 DEF Passable
  <2>3. passed \in Seq(Passable) /\ passed' = Append(passed, Given(index))
    BY <1>2 DEF Pass, Types
  <2>4. Adds(Given(index))
    BY <2>2, <2>3, OneMore DEF Adds
  <2>5. QED
    BY <1>2, <2>4
<1>3. CASE PassExtra
  <2>1. index \in 1 .. extra
    BY <1>3 DEF PassExtra, Types
  <2>2. Extra(index) \in Passable
    BY <2>1 DEF Passable
  <2>3. passed \in Seq(Passable) /\ passed' = Append(passed, Extra(index))
    BY <1>3 DEF PassExtra, Types
  <2>4. Adds(Extra(index))
    BY <2>2, <2>3, OneMore DEF Adds
  <2>5. QED
    BY <1>3, <2>4
<1>4. CASE Resource
  <2> DEFINE a == Default("-resource-dir")
  <2>1. passed \in Seq(Passable) /\ a \in Passable
    BY DEF Types, Passable
  <2>2. CASE passed' = passed \o << >>
    BY <1>4, <2>1, <2>2, ConcatEmptySeq DEF Quiet
  <2>3. CASE passed' = passed \o <<a>>
    <3>1. passed' = Append(passed, a)
      BY <2>1, <2>3, AppendIsConcat
    <3>2. Adds(a)
      BY <2>1, <3>1, OneMore DEF Adds
    <3>3. QED
      BY <1>4, <3>2
  <2>4. QED
    BY <1>4, <2>2, <2>3 DEF Resource
<1>5. CASE Sysroot
  <2> DEFINE a == Default("-isysroot")
             b == Default("SYSROOT")
  <2>1. passed \in Seq(Passable) /\ a \in Passable /\ b \in Passable
    BY DEF Types, Passable
  <2>2. CASE passed' = passed \o << >>
    BY <1>5, <2>1, <2>2, ConcatEmptySeq DEF Quiet
  <2>3. CASE passed' = passed \o <<a, b>>
    <3>1. AddsBoth(a, b)
      BY <2>1, <2>3, TwoMore DEF AddsBoth
    <3>2. QED
      BY <1>5, <3>1
  <2>4. QED
    BY <1>5, <2>2, <2>3 DEF Sysroot
<1>6. CASE \/ SkipCompiler \/ Skip \/ SkipWithValue \/ DropWithoutValue \/ CommandDone
           \/ ExtraDone \/ ResourceFails \/ UNCHANGED vars
  <2>1. UNCHANGED passed
    BY <1>6 DEF vars, SkipCompiler, Skip, SkipWithValue, DropWithoutValue, CommandDone, ExtraDone,
       ResourceFails
  <2>2. QED
    BY <1>6, <2>1 DEF Quiet
<1>7. QED
  BY <1>1, <1>2, <1>3, <1>4, <1>5, <1>6 DEF Next

\* What was passed stays, and room is never won back.
LEMMA PassedStays ==
  ASSUME Types, Advancing, [Next]_vars
  PROVE  /\ passed' \in Seq(Passable) /\ Len(passed) \in Nat /\ Len(passed') \in Nat
         /\ Len(passed) <= Len(passed')
         /\ \A k \in 1 .. Len(passed) : k \in 1 .. Len(passed') /\ passed'[k] = passed[k]
         /\ HasRoomForTwo' => HasRoomForTwo
<1>1. passed \in Seq(Passable) /\ Len(passed) \in Nat
  BY DEF Types
<1>2. passed' \in Seq(Passable)
  BY <1>1, Additions DEF Adds, AddsBoth
<1>3. Len(passed') \in Nat
  BY <1>2
<1>4. Len(passed) <= Len(passed') /\ \A k \in 1 .. Len(passed) : passed'[k] = passed[k]
  BY <1>1, <1>3, Additions DEF Adds, AddsBoth
<1>5. HasRoomForTwo' => HasRoomForTwo
  BY <1>1, <1>3, <1>4, LimitAssumption DEF HasRoomForTwo
<1>6. QED
  BY <1>1, <1>2, <1>3, <1>4, <1>5

\* A step keeps within the limits: each addition was preceded by a check of the room.
LEMMA TypesHold ==
  ASSUME Types, Advancing, [Next]_vars
  PROVE  Types' /\ Advancing'
<1>1. /\ command' = command /\ extra' = extra
      /\ command \in Seq(Spelling) /\ Len(command) \in Nat /\ Len(command) <= MaxCommand
      /\ extra \in 0 .. MaxExtra /\ MaxExtra \in Nat /\ MaxArguments \in Nat
      /\ index \in Nat \ {0}
  BY CommandIsFixed, LimitAssumption DEF Types
<1>2. passed' \in Seq(Passable) /\ Passable' = Passable /\ Len(passed) \in Nat
  BY <1>1, PassedStays DEF Passable
<1>3. Len(passed') <= MaxArguments
  BY <1>1, <1>2, Additions DEF Adds, AddsBoth, PassWithValue, Pass, PassExtra, Resource,
     Sysroot, Looking, HasRoom, HasRoomForTwo, Types
<1>4. hasSysroot' \in BOOLEAN
  BY DEF Next, vars, SkipCompiler, Skip, SkipWithValue, PassWithValue, DropWithoutValue, Pass,
     NoteSysroot, CommandDone, PassExtra, ExtraDone, ResourceFails, Resource, Sysroot, Types
<1>5. /\ pc' \in {"command", "extra", "resource", "sysroot", "done", "failed"}
      /\ index' \in 1 .. Len(command) + MaxExtra + 2
      /\ pc' = "command" => index' <= Len(command) + 2
      /\ pc' = "extra" => index' <= extra + 1
  BY <1>1 DEF Next, vars, SkipCompiler, Skip, SkipWithValue, PassWithValue, DropWithoutValue, Pass,
     Looking, Move, CommandDone, PassExtra, ExtraDone, ResourceFails, Resource, Sysroot, Types,
     Advancing
<1>6. ASSUME pc' = "command", NEW k \in 1 .. Len(passed')
      PROVE  passed'[k].from = "command"
  <2>1. pc = "command"
    BY <1>6 DEF Next, vars, SkipCompiler, Skip, SkipWithValue, PassWithValue, DropWithoutValue,
       Pass, Looking, Move, CommandDone, PassExtra, ExtraDone, ResourceFails, Resource, Sysroot
  <2>2. \A j \in 1 .. Len(passed) : passed[j].from = "command"
    BY <2>1 DEF Advancing
  <2>3. \/ UNCHANGED passed
        \/ AddsBoth(Given(index), Given(index + 1))
        \/ Adds(Given(index))
    BY <2>1, Additions DEF PassExtra, Resource, Sysroot
  <2>4. Given(index).from = "command" /\ Given(index + 1).from = "command"
    BY DEF Given
  <2>5. CASE UNCHANGED passed
    BY <1>6, <2>2, <2>5
  <2>6. CASE Adds(Given(index))
    <3>1. k \in 1 .. Len(passed) \/ k = Len(passed) + 1
      BY <1>2, <1>6, <2>6 DEF Adds
    <3>2. QED
      BY <2>2, <2>4, <2>6, <3>1 DEF Adds
  <2>7. CASE AddsBoth(Given(index), Given(index + 1))
    <3>1. k \in 1 .. Len(passed) \/ k = Len(passed) + 1 \/ k = Len(passed) + 2
      BY <1>2, <1>6, <2>7 DEF AddsBoth
    <3>2. QED
      BY <2>2, <2>4, <2>7, <3>1 DEF AddsBoth
  <2>8. QED
    BY <2>3, <2>5, <2>6, <2>7
<1>7. Types'
  BY <1>1, <1>2, <1>3, <1>4, <1>5 DEF Types
<1>8. QED
  BY <1>1, <1>5, <1>6, <1>7 DEF Advancing

\* The loop goes from one argument to the next: past a value together with its option.
LEMMA AtArgumentHolds ==
  ASSUME Types, Advancing, AtArgument, [Next]_vars
  PROVE  AtArgument'
<1>1. /\ command' = command /\ ReadAsValue' = ReadAsValue
      /\ HasRoomForTwo' => HasRoomForTwo
  BY CommandIsFixed, PassedStays
<1>2. SUFFICES ASSUME pc' = "command", HasRoomForTwo', index' <= Len(command)
               PROVE  ~ ReadAsValue[index']
  BY <1>1 DEF AtArgument
<1>3. HasRoomForTwo /\ Len(command) \in Nat /\ index \in Nat \ {0}
  BY <1>1, <1>2 DEF Types
<1>4. CASE SkipCompiler
  <2>1. index' = 2 /\ 2 <= Len(command)
    BY <1>2, <1>4 DEF SkipCompiler, Move
  <2>2. QED
    BY <2>1, AfterTheCompiler
<1>5. CASE Skip \/ Pass
  <2>1. index' = index + 1 /\ index + 1 <= Len(command) /\ index \in 1 .. Len(command)
    BY <1>2, <1>3, <1>5 DEF Skip, Pass, Looking, Move
  <2>2. command[index] \notin Options
    BY <1>5 DEF Skip, Pass, Looking, Options, Skipped, IsOutput, IsSemantic, TakesIgnoredValue,
       TakesSemanticValue
  <2>3. QED
    BY <2>1, <2>2, AfterAnArgument
<1>6. CASE SkipWithValue \/ PassWithValue
  <2>1. index' = index + 2 /\ index + 2 <= Len(command) /\ index \in 2 .. Len(command)
    BY <1>2, <1>3, <1>6 DEF SkipWithValue, PassWithValue, Looking, Move
  <2>2. command[index] \in Options
    BY <1>6 DEF SkipWithValue, PassWithValue, Looking, Options
  <2>3. ~ ReadAsValue[index]
    BY <1>3, <1>6, <2>1 DEF AtArgument, SkipWithValue, PassWithValue, Looking
  <2>4. QED
    BY <2>1, <2>2, <2>3, AfterAnOption
<1>7. CASE DropWithoutValue
  BY <1>2, <1>3, <1>7 DEF DropWithoutValue, Looking, Move
<1>8. CASE UNCHANGED vars
  BY <1>2, <1>3, <1>8 DEF vars, AtArgument
<1>9. QED
  BY <1>2, <1>4, <1>5, <1>6, <1>7, <1>8 DEF Next, CommandDone, PassExtra, ExtraDone, ResourceFails,
     Resource, Sysroot, Move

\* A new option comes with its value, and no later step comes between them.
LEMMA ValuesAreKept ==
  ASSUME Types, Advancing, OptionsKeepTheirValues, [Next]_vars
  PROVE  OptionsKeepTheirValues'
<1>1. /\ command' = command
      /\ passed' \in Seq(Passable) /\ Len(passed) \in Nat /\ Len(passed') \in Nat
      /\ Len(passed) <= Len(passed')
      /\ \A k \in 1 .. Len(passed) : passed'[k] = passed[k]
      /\ DOMAIN passed = 1 .. Len(passed) /\ DOMAIN passed' = 1 .. Len(passed')
  BY CommandIsFixed, PassedStays, LenProperties DEF Types
<1>2. SUFFICES ASSUME NEW k \in 1 .. Len(passed'), passed'[k].from = "command",
                      command[passed'[k].at] \in TakesSemanticValue,
                      ~ PassedAsValue(k)'
               PROVE  k < Len(passed') /\ passed'[k + 1] = Given(passed'[k].at + 1)
  BY <1>1 DEF OptionsKeepTheirValues
<1>3. CASE k \in 1 .. Len(passed)
  <2>1. k - 1 \in 1 .. Len(passed) \/ ~ (k > 1)
    BY <1>1, <1>3
  <2>2. ~ PassedAsValue(k)
    BY <1>1, <1>2, <1>3, <2>1 DEF PassedAsValue
  <2>3. k < Len(passed) /\ passed[k + 1] = Given(passed[k].at + 1)
    BY <1>1, <1>2, <1>3, <2>2 DEF OptionsKeepTheirValues
  <2>4. k + 1 \in 1 .. Len(passed)
    BY <1>1, <2>3
  <2>5. QED
    BY <1>1, <1>3, <2>3, <2>4
<1>4. CASE k \notin 1 .. Len(passed)
  <2>1. CASE PassWithValue /\ AddsBoth(Given(index), Given(index + 1))
    <3>1. /\ Given(index).at = index /\ Given(index).from = "command"
          /\ command[index] \in TakesSemanticValue
      BY <2>1 DEF Given, PassWithValue, Looking
    <3>2. k = Len(passed) + 1 \/ k = Len(passed) + 2
      BY <1>1, <1>4, <2>1 DEF AddsBoth
    <3>3. k # Len(passed) + 2
      <4>1. SUFFICES ASSUME k = Len(passed) + 2 PROVE FALSE
        OBVIOUS
      <4>2. k > 1 /\ k - 1 = Len(passed) + 1
        BY <1>1, <4>1
      <4>3. passed'[k - 1] = Given(index) /\ passed'[k] = Given(index + 1)
        BY <2>1, <4>1, <4>2 DEF AddsBoth
      <4>4. PassedAsValue(k)'
        BY <1>1, <3>1, <4>2, <4>3 DEF PassedAsValue
      <4>5. QED
        BY <1>2, <4>4
    <3>4. k = Len(passed) + 1 /\ k + 1 = Len(passed) + 2
      BY <1>1, <3>2, <3>3
    <3>5. QED
      BY <1>1, <2>1, <3>1, <3>4 DEF AddsBoth
  <2>2. CASE Pass /\ Adds(Given(index))
    <3>1. k = Len(passed) + 1
      BY <1>1, <1>4, <2>2 DEF Adds
    <3>2. passed'[k].at = index
      BY <2>2, <3>1 DEF Adds, Given
    <3>3. QED
      BY <1>2, <2>2, <3>2 DEF Pass, Looking, IsSemantic, TakesSemanticValue
  <2>3. CASE Adds(Extra(index))
    <3>1. k = Len(passed) + 1
      BY <1>1, <1>4, <2>3 DEF Adds
    <3>2. QED
      BY <1>2, <2>3, <3>1 DEF Adds, Extra
  <2>4. CASE Adds(Default("-resource-dir"))
    <3>1. k = Len(passed) + 1
      BY <1>1, <1>4, <2>4 DEF Adds
    <3>2. QED
      BY <1>2, <2>4, <3>1 DEF Adds, Default
  <2>5. CASE AddsBoth(Default("-isysroot"), Default("SYSROOT"))
    <3>1. k = Len(passed) + 1 \/ k = Len(passed) + 2
      BY <1>1, <1>4, <2>5 DEF AddsBoth
    <3>2. QED
      BY <1>2, <2>5, <3>1 DEF AddsBoth, Default
  <2>6. CASE UNCHANGED passed
    BY <1>2, <1>4, <2>6
  <2>7. QED
    BY <2>1, <2>2, <2>3, <2>4, <2>5, <2>6, Additions
<1>5. QED
  BY <1>3, <1>4

\* The step that passes a chosen root notes it; the default waits for the end.
LEMMA SysrootsHold ==
  ASSUME Types, Advancing, AtArgument, Sysroots, [Next]_vars
  PROVE  Sysroots'
<1> DEFINE n == Len(passed)
           known(k) == /\ passed'[k].from = "command"
                       /\ command[passed'[k].at] \in IsSysroot
                       /\ ~ ReadAsValue[passed'[k].at]
           joined(k) == passed'[k] = Default("-isysroot")
<1>1. /\ command' = command /\ ReadAsValue' = ReadAsValue
      /\ Len(passed) \in Nat /\ Len(passed') \in Nat
      /\ Len(passed) <= Len(passed')
      /\ \A k \in 1 .. Len(passed) : k \in 1 .. Len(passed') /\ passed'[k] = passed[k]
      /\ HasRoomForTwo' => HasRoomForTwo
  BY CommandIsFixed, PassedStays
<1>2. SUFFICES
        /\ (\E k \in 1 .. Len(passed') : known(k)) => hasSysroot'
        /\ hasSysroot' => (\E k \in 1 .. Len(passed') : known(k)) \/ ~ HasRoomForTwo'
        /\ (\E k \in 1 .. Len(passed') : joined(k)) => pc' = "done" /\ ~ hasSysroot'
        /\ pc' = "done" /\ "sysroot" \in Defaults /\ HasRoomForTwo' /\ ~ hasSysroot' =>
             \E k \in 1 .. Len(passed') : joined(k)
  BY <1>1 DEF Sysroots, Chosen, Defaulted
<1>3. \A k \in 1 .. n : (known(k) <=> Chosen(k)) /\ (joined(k) <=> Defaulted(k))
  BY <1>1 DEF Chosen, Defaulted
<1>4. /\ (\E k \in 1 .. n : known(k)) => hasSysroot
      /\ hasSysroot => (\E k \in 1 .. Len(passed') : known(k)) \/ ~ HasRoomForTwo'
      /\ (\E k \in 1 .. n : joined(k)) => pc = "done" /\ ~ hasSysroot
      /\ pc = "done" /\ "sysroot" \in Defaults /\ HasRoomForTwo' /\ ~ hasSysroot =>
           \E k \in 1 .. Len(passed') : joined(k)
  BY <1>1, <1>3 DEF Sysroots
<1> HIDE DEF known, joined
<1>5. CASE PassWithValue /\ AddsBoth(Given(index), Given(index + 1))
  <2>1. /\ pc = "command" /\ pc' = "command" /\ HasRoomForTwo
        /\ index \in 2 .. Len(command) /\ index + 1 <= Len(command)
        /\ command[index] \in Options
        /\ hasSysroot' = (hasSysroot \/ command[index] \in IsSysroot)
    BY <1>5 DEF PassWithValue, Looking, Move, NoteSysroot, Options, Types
  <2>2. ~ ReadAsValue[index] /\ ReadAsValue[index + 1]
    BY <2>1, AfterAnOption DEF AtArgument
  <2>3. /\ Len(passed') = n + 2 /\ n + 1 \in 1 .. Len(passed')
        /\ passed'[n + 1] = Given(index) /\ passed'[n + 2] = Given(index + 1)
    BY <1>1, <1>5 DEF AddsBoth
  <2>4. known(n + 1) <=> command[index] \in IsSysroot
    BY <2>2, <2>3 DEF known, Given
  <2>5. ~ known(n + 2)
    BY <2>2, <2>3 DEF known, Given
  <2>6. ~ joined(n + 1) /\ ~ joined(n + 2)
    BY <2>3 DEF joined, Given, Default
  <2>7. \A k \in 1 .. Len(passed') : k \in 1 .. n \/ k = n + 1 \/ k = n + 2
    BY <1>1, <2>3
  <2>8. QED
    BY <1>4, <2>1, <2>3, <2>4, <2>5, <2>6, <2>7
<1>6. CASE Pass /\ Adds(Given(index))
  <2>1. /\ pc = "command" /\ pc' = "command"
        /\ index <= Len(command)
        /\ hasSysroot' = (hasSysroot \/ command[index] \in IsSysroot)
    BY <1>6 DEF Pass, Looking, Move, NoteSysroot
  <2>2. HasRoomForTwo' => ~ ReadAsValue[index]
    BY <1>1, <2>1 DEF AtArgument
  <2>3. /\ Len(passed') = n + 1 /\ n + 1 \in 1 .. Len(passed') /\ passed'[n + 1] = Given(index)
    BY <1>1, <1>6 DEF Adds
  <2>4. known(n + 1) <=> command[index] \in IsSysroot /\ ~ ReadAsValue[index]
    BY <2>3 DEF known, Given
  <2>5. ~ joined(n + 1)
    BY <2>3 DEF joined, Given, Default
  <2>6. \A k \in 1 .. Len(passed') : k \in 1 .. n \/ k = n + 1
    BY <1>1, <2>3
  <2>7. QED
    BY <1>4, <2>1, <2>2, <2>3, <2>4, <2>5, <2>6
<1>7. CASE PassExtra /\ Adds(Extra(index))
  <2>1. pc = "extra" /\ pc' = "extra" /\ hasSysroot' = hasSysroot
    BY <1>7 DEF PassExtra, Move
  <2>2. ~ known(n + 1) /\ ~ joined(n + 1)
    BY <1>7 DEF Adds, known, joined, Extra, Default
  <2>3. \A k \in 1 .. Len(passed') : k \in 1 .. n \/ k = n + 1
    BY <1>1, <1>7 DEF Adds
  <2>4. QED
    BY <1>4, <2>1, <2>2, <2>3
<1>8. CASE Resource /\ Adds(Default("-resource-dir"))
  <2>1. pc = "resource" /\ pc' = "sysroot" /\ hasSysroot' = hasSysroot
    BY <1>8 DEF Resource
  <2>2. ~ known(n + 1) /\ ~ joined(n + 1)
    BY <1>8 DEF Adds, known, joined, Default
  <2>3. \A k \in 1 .. Len(passed') : k \in 1 .. n \/ k = n + 1
    BY <1>1, <1>8 DEF Adds
  <2>4. QED
    BY <1>4, <2>1, <2>2, <2>3
<1>9. CASE Sysroot /\ AddsBoth(Default("-isysroot"), Default("SYSROOT"))
  <2>1. Len(passed') = n + 2 /\ n + 1 \in 1 .. Len(passed') /\ Len(passed') # Len(passed)
    BY <1>1, <1>9 DEF AddsBoth
  <2>2. ~ hasSysroot
    BY <1>9, <2>1, ConcatEmptySeq DEF Sysroot, Types
  <2>3. pc = "sysroot" /\ pc' = "done" /\ hasSysroot' = hasSysroot
    BY <1>9 DEF Sysroot
  <2>4. ~ known(n + 1) /\ ~ known(n + 2) /\ joined(n + 1)
    BY <1>9 DEF AddsBoth, known, joined, Default
  <2>5. \A k \in 1 .. Len(passed') : k \in 1 .. n \/ k = n + 1 \/ k = n + 2
    BY <1>1, <2>1
  <2>6. QED
    BY <1>4, <2>1, <2>2, <2>3, <2>4, <2>5
<1>10. CASE UNCHANGED passed /\ Quiet
  <2>1. CASE Sysroot
    <3>1. pc = "sysroot" /\ pc' = "done" /\ hasSysroot' = hasSysroot
      BY <2>1 DEF Sysroot
    <3>2. "sysroot" \in Defaults /\ HasRoomForTwo' => hasSysroot
      <4>1. SUFFICES ASSUME "sysroot" \in Defaults, HasRoomForTwo', ~ hasSysroot PROVE FALSE
        OBVIOUS
      <4>2. passed' = passed \o <<Default("-isysroot"), Default("SYSROOT")>>
        BY <1>1, <2>1, <4>1 DEF Sysroot
      <4>3. /\ passed \in Seq(Passable)
            /\ Default("-isysroot") \in Passable /\ Default("SYSROOT") \in Passable
        BY DEF Types, Passable
      <4>4. Len(passed') = Len(passed) + 2
        BY <4>2, <4>3, TwoMore
      <4>5. QED
        BY <1>1, <1>10, <4>4
    <3>3. QED
      BY <1>4, <1>10, <3>1, <3>2
  <2>2. CASE ~ Sysroot
    <3>1. hasSysroot' = hasSysroot /\ (pc' = "done" <=> pc = "done")
      BY <1>10, <2>2 DEF Quiet, vars, SkipCompiler, Skip, SkipWithValue, DropWithoutValue, Looking,
         Move, CommandDone, ExtraDone, ResourceFails, Resource
    <3>2. QED
      BY <1>4, <1>10, <3>1
  <2>3. QED
    BY <2>1, <2>2
<1>11. QED
  BY <1>5, <1>6, <1>7, <1>8, <1>9, <1>10, Additions

\* What the loop leaves out is not admitted: a step over arguments it does not pass
\* moves past none that is.
LEMMA NothingIsMissed ==
  ASSUME Types, Advancing, AtArgument, HasRoomForTwo, NEW i \in Admitted,
         SkipCompiler \/ Skip \/ SkipWithValue \/ DropWithoutValue, i < index'
  PROVE  i < index
<1>1. SUFFICES ASSUME ~ (i < index) PROVE FALSE
  OBVIOUS
<1>2. i \in 2 .. Len(command) /\ Admissible(i) /\ Len(command) \in Nat /\ index \in Nat \ {0}
  BY DEF Admitted, Types
<1>3. CASE SkipCompiler
  BY <1>1, <1>2, <1>3 DEF SkipCompiler, Move
<1>4. CASE Skip
  <2>1. i = index /\ ~ ReadAsValue[i]
    BY <1>1, <1>2, <1>4 DEF Skip, Looking, Move, AtArgument
  <2>2. QED
    BY <1>2, <1>4, <2>1 DEF Skip, Looking, Admissible, Skipped, IsOutput, IsSemantic,
       TakesSemanticValue
<1>5. CASE SkipWithValue
  <2>1. /\ index \in 2 .. Len(command) /\ command[index] \in TakesIgnoredValue
        /\ ~ ReadAsValue[index] /\ (i = index \/ i = index + 1)
    BY <1>1, <1>2, <1>5 DEF SkipWithValue, Looking, Move, AtArgument
  <2>2. command[index] \notin IsSemantic \cup TakesSemanticValue
    BY <2>1 DEF TakesIgnoredValue, IsSemantic, TakesSemanticValue
  <2>3. i = index + 1
    BY <1>2, <2>1, <2>2 DEF Admissible
  <2>4. ReadAsValue[i] /\ i - 1 = index
    BY <1>2, <2>1, <2>3, AfterAnOption DEF Options
  <2>5. QED
    BY <1>2, <2>2, <2>4 DEF Admissible
<1>6. CASE DropWithoutValue
  <2>1. i = index /\ ~ ReadAsValue[i] /\ ~ (i < Len(command)) /\ command[i] \in TakesSemanticValue
    BY <1>1, <1>2, <1>6 DEF DropWithoutValue, Looking, Move, AtArgument
  <2>2. QED
    BY <1>2, <2>1 DEF Admissible, IsSemantic, TakesSemanticValue
<1>7. QED
  BY <1>3, <1>4, <1>5, <1>6

\* What the loop passes on is admitted: an option on its own, and one with its value.
LEMMA WhatPassesIsAdmitted ==
  ASSUME Types, AtArgument
  PROVE  /\ Pass /\ HasRoomForTwo => index \in Admitted
         /\ PassWithValue => index \in Admitted /\ index + 1 \in Admitted
<1>1. ASSUME Pass, HasRoomForTwo PROVE index \in Admitted
  <2>1. index \in 2 .. Len(command) /\ ~ ReadAsValue[index] /\ command[index] \in IsSemantic
    BY <1>1 DEF Pass, Looking, AtArgument, Types
  <2>2. QED
    BY <2>1 DEF Admitted, Admissible
<1>2. ASSUME PassWithValue PROVE index \in Admitted /\ index + 1 \in Admitted
  <2>1. /\ index \in 2 .. Len(command) /\ index < Len(command) /\ ~ ReadAsValue[index]
        /\ command[index] \in TakesSemanticValue /\ Len(command) \in Nat
    BY <1>2 DEF PassWithValue, Looking, AtArgument, Types
  <2>2. index + 1 \in 2 .. Len(command) /\ index + 1 - 1 = index /\ ReadAsValue[index + 1]
    BY <2>1, AfterAnOption DEF Options
  <2>3. QED
    BY <2>1, <2>2 DEF Admitted, Admissible
<1>3. QED
  BY <1>1, <1>2

\* While there is room, a step passes on what is admitted of what it goes past, in order.
LEMMA PassedSoFarHolds ==
  ASSUME Types, Advancing, AtArgument, PassedSoFar, [Next]_vars
  PROVE  PassedSoFar'
<1> DEFINE n == Len(passed)
           given(k) == passed'[k].from = "command"
           at(k) == passed'[k].at
<1>1. /\ command' = command /\ Admitted' = Admitted
      /\ Len(passed) \in Nat /\ Len(passed') \in Nat
      /\ Len(passed) <= Len(passed')
      /\ \A k \in 1 .. Len(passed) : k \in 1 .. Len(passed') /\ passed'[k] = passed[k]
      /\ HasRoomForTwo' => HasRoomForTwo
      /\ DOMAIN passed = 1 .. Len(passed) /\ DOMAIN passed' = 1 .. Len(passed')
  BY CommandIsFixed, PassedStays, LenProperties DEF Types
<1>2. SUFFICES ASSUME pc' \in {"command", "extra"}, HasRoomForTwo'
      PROVE  /\ \A k \in 1 .. Len(passed') :
                   given(k) => at(k) \in Admitted /\ (pc' = "command" => at(k) < index')
             /\ \A i \in Admitted : (pc' = "command" => i < index') =>
                   \E k \in 1 .. Len(passed') : given(k) /\ at(k) = i
             /\ \A j, k \in 1 .. Len(passed') : given(j) /\ given(k) /\ j < k => at(j) < at(k)
  BY <1>1 DEF PassedSoFar, FromCommand, Met
<1>3. HasRoomForTwo /\ pc \in {"command", "extra"}
  BY <1>1, <1>2 DEF Next, vars, SkipCompiler, Skip, SkipWithValue, PassWithValue, DropWithoutValue,
     Pass, Looking, CommandDone, PassExtra, ExtraDone, ResourceFails, Resource, Sysroot
<1>4. /\ \A k \in 1 .. n : given(k) => at(k) \in Admitted /\ (pc = "command" => at(k) < index)
      /\ \A i \in Admitted : (pc = "command" => i < index) =>
            \E k \in 1 .. n : given(k) /\ at(k) = i
      /\ \A j, k \in 1 .. n : given(j) /\ given(k) /\ j < k => at(j) < at(k)
  BY <1>1, <1>3 DEF PassedSoFar, FromCommand, Met
<1>5. Admitted \subseteq 2 .. Len(command) /\ Len(command) \in Nat /\ index \in Nat \ {0}
  BY DEF Admitted, Types
<1>6. \A i \in Admitted : i \in Nat
  BY <1>5
<1> HIDE DEF given, at
<1>7. CASE PassWithValue /\ AddsBoth(Given(index), Given(index + 1))
  <2>1. index \in Admitted /\ index + 1 \in Admitted
    BY <1>7, WhatPassesIsAdmitted
  <2>2. pc = "command" /\ pc' = "command" /\ index' = index + 2
    BY <1>7 DEF PassWithValue, Looking, Move
  <2>3. Len(passed') = n + 2 /\ n + 1 \in 1 .. Len(passed') /\ n + 2 \in 1 .. Len(passed')
    BY <1>1, <1>7 DEF AddsBoth
  <2>4. given(n + 1) /\ at(n + 1) = index /\ given(n + 2) /\ at(n + 2) = index + 1
    BY <1>7 DEF AddsBoth, given, at, Given
  <2>5. \A k \in 1 .. Len(passed') : k \in 1 .. n \/ k = n + 1 \/ k = n + 2
    BY <1>1, <2>3
  <2>6. ASSUME NEW k \in 1 .. Len(passed'), given(k)
        PROVE  at(k) \in Admitted /\ at(k) < index'
    <3>1. CASE k \in 1 .. n
      <4>1. at(k) \in Admitted /\ at(k) < index
        BY <1>4, <2>2, <2>6, <3>1
      <4>2. at(k) \in Nat
        BY <1>6, <4>1
      <4>3. QED
        BY <1>5, <2>2, <4>1, <4>2
    <3>2. CASE k = n + 1 \/ k = n + 2
      BY <1>5, <2>1, <2>2, <2>4, <3>2
    <3>3. QED
      BY <2>5, <3>1, <3>2
  <2>7. \A i \in Admitted : i < index' => i < index \/ i = index \/ i = index + 1
    BY <1>5, <2>2
  <2>8. \A i \in Admitted : i < index' => \E k \in 1 .. Len(passed') : given(k) /\ at(k) = i
    BY <1>1, <1>4, <2>2, <2>3, <2>4, <2>7
  <2>9. ASSUME NEW j \in 1 .. Len(passed'), NEW k \in 1 .. Len(passed'), given(j), given(k), j < k
        PROVE  at(j) < at(k)
    <3>1. \/ j \in 1 .. n /\ k \in 1 .. n
          \/ j \in 1 .. n /\ (k = n + 1 \/ k = n + 2)
          \/ j = n + 1 /\ k = n + 2
      BY <1>1, <2>5, <2>9
    <3>2. j \in 1 .. n => at(j) \in Admitted /\ at(j) < index
      BY <1>4, <2>2, <2>9
    <3>3. CASE j \in 1 .. n /\ k \in 1 .. n
      BY <1>4, <2>9, <3>3
    <3>4. CASE j \in 1 .. n /\ (k = n + 1 \/ k = n + 2)
      <4>1. at(j) \in Nat /\ at(j) < index
        BY <1>6, <3>2, <3>4
      <4>2. at(k) = index \/ at(k) = index + 1
        BY <2>4, <3>4
      <4>3. QED
        BY <1>5, <4>1, <4>2
    <3>5. CASE j = n + 1 /\ k = n + 2
      BY <1>5, <2>4, <3>5
    <3>6. QED
      BY <3>1, <3>3, <3>4, <3>5
  <2>10. QED
    BY <2>2, <2>6, <2>8, <2>9
<1>8. CASE Pass /\ Adds(Given(index))
  <2>1. index \in Admitted
    BY <1>3, <1>8, WhatPassesIsAdmitted
  <2>2. pc = "command" /\ pc' = "command" /\ index' = index + 1
    BY <1>8 DEF Pass, Looking, Move
  <2>3. Len(passed') = n + 1 /\ n + 1 \in 1 .. Len(passed')
    BY <1>1, <1>8 DEF Adds
  <2>4. given(n + 1) /\ at(n + 1) = index
    BY <1>8 DEF Adds, given, at, Given
  <2>5. \A k \in 1 .. Len(passed') : k \in 1 .. n \/ k = n + 1
    BY <1>1, <2>3
  <2>6. ASSUME NEW k \in 1 .. Len(passed'), given(k)
        PROVE  at(k) \in Admitted /\ at(k) < index'
    <3>1. CASE k \in 1 .. n
      <4>1. at(k) \in Admitted /\ at(k) < index
        BY <1>4, <2>2, <2>6, <3>1
      <4>2. at(k) \in Nat
        BY <1>6, <4>1
      <4>3. QED
        BY <1>5, <2>2, <4>1, <4>2
    <3>2. CASE k = n + 1
      BY <1>5, <2>1, <2>2, <2>4, <3>2
    <3>3. QED
      BY <2>5, <3>1, <3>2
  <2>7. \A i \in Admitted : i < index' => i < index \/ i = index
    BY <1>5, <2>2
  <2>8. \A i \in Admitted : i < index' => \E k \in 1 .. Len(passed') : given(k) /\ at(k) = i
    BY <1>1, <1>4, <2>2, <2>3, <2>4, <2>7
  <2>9. ASSUME NEW j \in 1 .. Len(passed'), NEW k \in 1 .. Len(passed'), given(j), given(k), j < k
        PROVE  at(j) < at(k)
    <3>1. j \in 1 .. n /\ (k \in 1 .. n \/ k = n + 1)
      BY <1>1, <2>5, <2>9
    <3>2. at(j) < index
      BY <1>4, <2>2, <2>9, <3>1
    <3>3. QED
      BY <1>4, <2>4, <2>9, <3>1, <3>2
  <2>10. QED
    BY <2>2, <2>6, <2>8, <2>9
<1>9. CASE PassExtra /\ Adds(Extra(index))
  <2>1. pc = "extra" /\ pc' = "extra"
    BY <1>9 DEF PassExtra, Move
  <2>2. ~ given(n + 1)
    BY <1>9 DEF Adds, given, Extra
  <2>3. \A k \in 1 .. Len(passed') : k \in 1 .. n \/ k = n + 1
    BY <1>1, <1>9 DEF Adds
  <2>4. \A k \in 1 .. Len(passed') : given(k) => k \in 1 .. n
    BY <2>2, <2>3
  <2>5. QED
    BY <1>1, <1>4, <2>1, <2>4
<1>10. CASE UNCHANGED passed /\ Quiet
  <2>1. CASE SkipCompiler \/ Skip \/ SkipWithValue \/ DropWithoutValue
    <3>1. pc = "command" /\ pc' = "command" /\ index <= index'
      BY <1>5, <2>1 DEF SkipCompiler, Skip, SkipWithValue, DropWithoutValue, Looking, Move
    <3>2. \A i \in Admitted : i < index' => i < index
      BY <1>3, <2>1, NothingIsMissed
    <3>3. \A i \in Admitted : i < index => i < index'
      BY <1>5, <2>1 DEF SkipCompiler, Skip, SkipWithValue, DropWithoutValue, Looking, Move
    <3>4. QED
      BY <1>4, <1>10, <3>1, <3>2, <3>3
  <2>2. CASE CommandDone
    <3>1. pc = "command" /\ pc' = "extra" /\ index > Len(command)
      BY <1>1, <1>3, <2>2, LimitAssumption DEF CommandDone, HasRoom, HasRoomForTwo
    <3>2. \A i \in Admitted : i < index
      BY <1>5, <3>1
    <3>3. QED
      BY <1>4, <1>10, <3>1, <3>2
  <2>3. CASE UNCHANGED vars
    BY <1>4, <2>3 DEF vars
  <2>4. QED
    BY <1>2, <1>10, <2>1, <2>2, <2>3 DEF Quiet, ExtraDone, ResourceFails, Resource, Sysroot
<1>11. QED
  BY <1>2, <1>7, <1>8, <1>9, <1>10, Additions DEF Resource, Sysroot

-----------------------------------------------------------------------------
(* The invariant.                                                          *)

\* What a sequence of bounded length is.
LEMMA BoundedSequences ==
  ASSUME NEW S, NEW n \in Nat, NEW s \in BoundedSeq(S, n)
  PROVE  s \in Seq(S) /\ Len(s) <= n
<1>1. PICK m \in 0 .. n : s \in [1 .. m -> S]
  BY DEF BoundedSeq, SeqOf
<1>2. m \in Nat /\ m <= n
  OBVIOUS
<1>3. s \in Seq(S) /\ Len(s) = m
  BY <1>1, <1>2
<1>4. QED
  BY <1>2, <1>3

\* At the start of a source nothing is passed, and the command is still to be read.
LEMMA Initially == Init => IInv
<1>1. SUFFICES ASSUME Init PROVE IInv
  OBVIOUS
<1>2. command \in Seq(Spelling) /\ Len(command) <= MaxCommand /\ Len(command) \in Nat
  BY <1>1, BoundedSequences, LimitAssumption DEF Init
<1>3. passed = << >> /\ Len(passed) = 0 /\ 1 .. Len(passed) = {} /\ passed \in Seq(Passable)
  BY <1>1 DEF Init
<1>4. Types /\ Advancing
  <2>1. /\ extra \in 0 .. MaxExtra /\ index = 1 /\ hasSysroot = FALSE /\ pc = "command"
        /\ MaxExtra \in Nat /\ MaxArguments \in Nat
    BY <1>1, LimitAssumption DEF Init
  <2>2. index \in 1 .. Len(command) + MaxExtra + 2 /\ index <= Len(command) + 2
    BY <1>2, <2>1
  <2>3. Len(passed) <= MaxArguments
    BY <1>3, <2>1
  <2>4. Types
    BY <1>2, <1>3, <2>1, <2>2, <2>3 DEF Types
  <2>5. QED
    BY <1>3, <2>1, <2>2, <2>4 DEF Advancing
<1>5. AtArgument
  <2>1. 1 <= Len(command) => 1 \in 1 .. MaxCommand
    BY <1>2, LimitAssumption
  <2>2. 1 <= Len(command) => ~ ReadAsValue[1]
    BY <2>1, ReadsAsValue
  <2>3. QED
    BY <1>1, <2>2 DEF Init, AtArgument
<1>6. DOMAIN passed = {} /\ FromCommand = {}
  BY <1>3 DEF FromCommand
<1>7. PassedSoFar
  BY <1>1, <1>6 DEF Init, PassedSoFar, Met, Admitted
<1>8. OptionsKeepTheirValues
  BY <1>6 DEF OptionsKeepTheirValues
<1>9. Sysroots
  BY <1>1, <1>3 DEF Init, Sysroots
<1>10. QED
  BY <1>4, <1>5, <1>7, <1>8, <1>9 DEF IInv

\* The filter's invariant holds of every command.
LEMMA Invariant == Spec => []IInv
<1>1. IInv /\ [Next]_vars => IInv'
  BY TypesHold, AtArgumentHolds, PassedSoFarHolds, ValuesAreKept, SysrootsHold DEF IInv
<1>2. QED
  BY <1>1, Initially, PTL DEF Spec

\* The array is never written past its end, and holds nothing but arguments of the
\* command, extra arguments and defaults.
THEOREM TypeCorrect == Spec => []TypeOK
<1>1. IInv => TypeOK
  <2>1. SUFFICES ASSUME Types PROVE TypeOK
    BY DEF IInv
  <2>2. \A k \in DOMAIN passed : passed[k] \in Passable
    BY <2>1 DEF Types
  <2>3. QED
    BY <2>1, <2>2 DEF Types, TypeOK, Passable
<1>2. QED
  BY <1>1, Invariant, PTL

\* A command that leaves room is passed on as a compiler reads it, however long it is
\* and whatever its texts look like.
THEOREM CommandsArePassedWhole == Spec => []CommandIsPassedWhole
<1>1. IInv => CommandIsPassedWhole
  <2>1. SUFFICES ASSUME IInv, pc = "extra", HasRoomForTwo
                 PROVE  /\ {passed[k].at : k \in FromCommand} = Admitted
                        /\ \A j, k \in FromCommand : j < k => passed[j].at < passed[k].at
    BY DEF CommandIsPassedWhole
  <2>2. /\ \A k \in FromCommand : passed[k].at \in Admitted
        /\ \A i \in Admitted : \E k \in FromCommand : passed[k].at = i
        /\ \A j, k \in FromCommand : j < k => passed[j].at < passed[k].at
    BY <2>1 DEF IInv, PassedSoFar, Met
  <2>3. QED
    BY <2>2
<1>2. QED
  BY <1>1, Invariant, PTL

\* No option is passed without the value that belongs to it.
THEOREM ValuesFollowTheirOptions == Spec => []OptionsKeepTheirValues
<1>1. IInv => OptionsKeepTheirValues
  BY DEF IInv
<1>2. QED
  BY <1>1, Invariant, PTL

\* The default system root is passed exactly when the command chose none.
THEOREM SysrootIsChosenOnce == Spec => []OneSysroot
<1>1. IInv => OneSysroot
  <2>1. SUFFICES ASSUME Sysroots, Types PROVE OneSysroot
    BY DEF IInv
  <2>2. DOMAIN passed = 1 .. Len(passed)
    BY <2>1 DEF Types
  <2>3. QED
    BY <2>1, <2>2 DEF OneSysroot, Sysroots, Chosen, Defaulted
<1>2. QED
  BY <1>1, Invariant, PTL

=============================================================================
