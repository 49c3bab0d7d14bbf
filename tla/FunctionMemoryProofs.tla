------------------------- MODULE FunctionMemoryProofs -------------------------
(***************************************************************************)
(* The tables of one function say what the function did, for every program *)
(* and every nesting of calls.                                             *)
(***************************************************************************)
EXTENDS FunctionMemory, FiniteSetTheorems, SequenceTheorems, TLAPS

\* In C only the outermost cursor is a function.
OneFunction == language = "C" => \A k \in 2 .. Len(stack) : stack[k].kind = "call"

\* A function gives back an uncertain progress that fits the account it gives back.
Resumes ==
  ~ err =>
    /\ progress = history.last
    /\ \A k \in 1 .. Len(stack) :
         stack[k].kind = "function" => stack[k].saved = stack[k].before.last

\* Each signal action has one slot, with the handler assigned last, and none is
\* without a slot while there are slots.
SlotsFit ==
  /\ \A i, j \in 1 .. bound : bindings[i].owner = bindings[j].owner => i = j
  /\ \A i \in 1 .. bound :
       /\ bindings[i].owner \in Owner /\ bindings[i].handler # None
       /\ bindings[i].handler = history.handlers[bindings[i].owner]
  /\ bound < Capacity => \A o \in Assigned : \E i \in 1 .. bound : bindings[i].owner = o
  /\ IsFiniteSet(Assigned)

\* The variables that were given a borrow, or will be by a call in progress.
Known == {v \in Var : history.borrowed[v] # "no"} \cup Borrowing

\* Each of them has one entry, and none is without an entry while there is room.
EntriesFit ==
  /\ \A i, j \in 1 .. Len(borrows) : borrows[i].identity = borrows[j].identity => i = j
  /\ \A i \in 1 .. Len(borrows) : borrows[i].identity \in Known
  /\ Len(borrows) < Capacity =>
       \A v \in Known : \E i \in 1 .. Len(borrows) : borrows[i].identity = v
  /\ IsFiniteSet(Known)

\* A variable that has no entry can get one.
Room(t, v) == (\A i \in 1 .. Len(t) : t[i].identity # v) /\ Len(t) < Capacity

\* A borrow that will end does so with a call in progress.
Ends(b) ==
  /\ b.until \in 0 .. Len(stack)
  /\ b.until > 0 => b.invalidated /\ stack[b.until].call.invalidates

\* A borrow that stands was taken, or is being taken, and no call in progress will
\* end it but the one that takes it.
Stands(b) ==
  /\ history.borrowed[b.identity] = "fresh" \/ b.identity \in Borrowing
  /\ \A k \in 1 .. Len(stack) :
       stack[k].call.invalidates => stack[k].call.borrower = b.identity

\* A borrow that is or will be ended was taken, and is not being taken again.
Falls(b) ==
  /\ b.identity \notin Borrowing
  /\ history.borrowed[b.identity] # "no"
  /\ b.until = 0 => Spent(b.identity)

Fits(b) ==
  /\ Ends(b)
  /\ b.identity \notin history.crossed => IF b.invalidated THEN Falls(b) ELSE Stands(b)
BorrowsFit == \A i \in 1 .. Len(borrows) : Fits(borrows[i])

IInv ==
  /\ TypeOK /\ OneFunction /\ Resumes
  /\ InOneFunction =>
       /\ ~ err => SlotsFit
       /\ EntriesFit /\ BorrowsFit
       /\ PathsWereChecked

-----------------------------------------------------------------------------
(* Sequences and counting.                                                 *)

\* A cursor is entered: its frame comes last, and the others stay.
LEMMA Pushed ==
  ASSUME NEW S, NEW s \in Seq(S), NEW e \in S
  PROVE  /\ Append(s, e) \in Seq(S)
         /\ Len(s) \in Nat /\ Len(Append(s, e)) = Len(s) + 1
         /\ Append(s, e)[Len(s) + 1] = e
         /\ \A k \in 1 .. Len(s) : Append(s, e)[k] = s[k]
OBVIOUS

\* A cursor is left: its frame goes, and the others stay.
LEMMA Popped ==
  ASSUME NEW S, NEW s \in Seq(S), s # << >>, NEW t, t = SubSeq(s, 1, Len(s) - 1)
  PROVE  /\ t \in Seq(S)
         /\ Len(s) \in Nat \ {0} /\ Len(t) = Len(s) - 1
         /\ \A k \in 1 .. Len(s) - 1 : t[k] = s[k]
<1>1. Len(s) \in Nat \ {0}
  BY EmptySeq
<1>2. \A i \in 1 .. Len(s) - 1 : s[i] \in S
  BY <1>1, ElementOfSeq
<1>3. 1 \in Int /\ Len(s) - 1 \in Int
  BY <1>1
<1>4. /\ t \in Seq(S)
      /\ Len(t) = IF 1 <= Len(s) - 1 THEN Len(s) - 1 - 1 + 1 ELSE 0
      /\ \A i \in 1 .. Len(s) - 1 - 1 + 1 : t[i] = s[1 + i - 1]
  BY <1>2, <1>3, SubSeqProperties
<1>5. Len(t) = Len(s) - 1
  <2>1. \A n \in Nat \ {0} : (IF 1 <= n - 1 THEN n - 1 - 1 + 1 ELSE 0) = n - 1
    OBVIOUS
  <2>2. QED
    BY <1>1, <1>4, <2>1
<1>6. ASSUME NEW k \in 1 .. Len(s) - 1 PROVE t[k] = s[k]
  <2>1. k \in 1 .. Len(s) - 1 - 1 + 1 /\ 1 + k - 1 = k
    BY <1>1
  <2>2. QED
    BY <1>4, <2>1
<1>7. QED
  BY <1>1, <1>4, <1>5, <1>6

\* A table of a given length is a sequence of that length.
LEMMA Table ==
  ASSUME NEW S, NEW n \in Nat, NEW t \in [1 .. n -> S]
  PROVE  t \in Seq(S) /\ Len(t) = n /\ DOMAIN t = 1 .. n
<1>1. t \in Seq(S)
  BY SeqDef
<1>2. DOMAIN t = 1 .. Len(t) /\ Len(t) \in Nat
  BY <1>1, LenProperties
<1>3. QED
  BY <1>1, <1>2

\* Different members in n slots and one more make more than n members.
LEMMA OneTooMany ==
  ASSUME NEW n \in Nat, NEW f, NEW S, IsFiniteSet(S), NEW x \in S,
         \A i \in 1 .. n : f[i] \in S \ {x},
         \A i, j \in 1 .. n : f[i] = f[j] => i = j
  PROVE  Cardinality(S) > n
<1> DEFINE g == [i \in 1 .. n |-> f[i]]
<1>1. IsFiniteSet(S \ {x}) /\ Cardinality(S \ {x}) = Cardinality(S) - 1
  BY FS_RemoveElement
<1>2. IsFiniteSet(1 .. n) /\ Cardinality(1 .. n) = n
  BY FS_Interval
<1>3. Cardinality(S) \in Nat
  BY FS_CardinalityType
<1>4. g \in [1 .. n -> S \ {x}]
  OBVIOUS
<1>5. ~ \E i, j \in 1 .. n : i # j /\ g[i] = g[j]
  OBVIOUS
<1> HIDE DEF g
<1>6. ASSUME Cardinality(S \ {x}) < Cardinality(1 .. n) PROVE FALSE
  <2>1. \E i, j \in 1 .. n : i # j /\ g[i] = g[j]
    BY <1>1, <1>2, <1>4, <1>6, FS_PigeonHole
  <2>2. QED
    BY <1>5, <2>1
<1>7. QED
  BY <1>1, <1>2, <1>3, <1>6

-----------------------------------------------------------------------------
(* What the operators on the tables give.                                  *)

\* A call in progress is one of the frames'.
LEMMA Open ==
  ASSUME stack \in Seq(Frame)
  PROVE  /\ Len(stack) \in Nat /\ DOMAIN stack = 1 .. Len(stack)
         /\ \A k \in 1 .. Len(stack) : stack[k] \in Frame /\ stack[k].call \in Call
         /\ OpenCalls = {stack[k].call : k \in 1 .. Len(stack)} /\ OpenCalls \subseteq Call
         /\ Borrowing \subseteq Var
<1>1. Len(stack) \in Nat /\ DOMAIN stack = 1 .. Len(stack)
  BY LenProperties
<1>2. ASSUME NEW k \in 1 .. Len(stack) PROVE stack[k] \in Frame /\ stack[k].call \in Call
  <2>1. stack[k] \in Frame
    BY ElementOfSeq
  <2>2. QED
    BY <2>1 DEF Frame
<1>3. OpenCalls = {stack[k].call : k \in 1 .. Len(stack)} /\ OpenCalls \subseteq Call
  BY <1>1, <1>2 DEF OpenCalls
<1>4. Borrowing \subseteq Var
  BY <1>3 DEF Borrowing, Call
<1>5. QED
  BY <1>1, <1>2, <1>3, <1>4

\* Ending the borrows marks every entry.
LEMMA EndedTable ==
  ASSUME NEW t \in Seq(Borrow), NEW depth \in Nat
  PROVE  /\ Invalidated(t, depth) \in Seq(Borrow) /\ Len(Invalidated(t, depth)) = Len(t)
         /\ \A i \in 1 .. Len(t) :
              Invalidated(t, depth)[i] = [t[i] EXCEPT !.invalidated = TRUE, !.until = depth]
<1>1. Len(t) \in Nat /\ DOMAIN t = 1 .. Len(t) /\ \A i \in 1 .. Len(t) : t[i] \in Borrow
  BY LenProperties, ElementOfSeq
<1>2. \A i \in 1 .. Len(t) : [t[i] EXCEPT !.invalidated = TRUE, !.until = depth] \in Borrow
  BY <1>1 DEF Borrow
<1>3. Invalidated(t, depth) \in [1 .. Len(t) -> Borrow]
  BY <1>1, <1>2 DEF Invalidated
<1>4. QED
  BY <1>1, <1>3, Table DEF Invalidated

\* The source behind a call ends what is to end there.
LEMMA PassedTable ==
  ASSUME NEW t \in Seq(Borrow), NEW depth \in Nat
  PROVE  /\ Passed(t, depth) \in Seq(Borrow) /\ Len(Passed(t, depth)) = Len(t)
         /\ \A i \in 1 .. Len(t) :
              Passed(t, depth)[i] = IF t[i].until = depth THEN [t[i] EXCEPT !.until = 0] ELSE t[i]
<1>1. Len(t) \in Nat /\ DOMAIN t = 1 .. Len(t) /\ \A i \in 1 .. Len(t) : t[i] \in Borrow
  BY LenProperties, ElementOfSeq
<1>2. \A i \in 1 .. Len(t) :
        (IF t[i].until = depth THEN [t[i] EXCEPT !.until = 0] ELSE t[i]) \in Borrow
  BY <1>1 DEF Borrow
<1>3. Passed(t, depth) \in [1 .. Len(t) -> Borrow]
  BY <1>1, <1>2 DEF Passed
<1>4. QED
  BY <1>1, <1>3, Table DEF Passed

\* A variable that is remembered has a fresh entry in place of its old one, or a new
\* one while there is room.
LEMMA RememberedTable ==
  ASSUME NEW t \in Seq(Borrow), Len(t) <= Capacity, NEW v \in Var
  PROVE  /\ Remembered(t, v) \in Seq(Borrow)
         /\ Len(Remembered(t, v)) = IF Room(t, v) THEN Len(t) + 1 ELSE Len(t)
         /\ Len(Remembered(t, v)) <= Capacity
         /\ Room(t, v) => Remembered(t, v)[Len(t) + 1] = FreshBorrow(v)
         /\ \A i \in 1 .. Len(t) :
              Remembered(t, v)[i] = IF t[i].identity = v THEN FreshBorrow(v) ELSE t[i]
<1>1. Len(t) \in Nat /\ DOMAIN t = 1 .. Len(t) /\ \A i \in 1 .. Len(t) : t[i] \in Borrow
  BY LenProperties, ElementOfSeq
<1>2. FreshBorrow(v) \in Borrow
  BY DEF FreshBorrow, Borrow
<1>3. CASE \E i \in 1 .. Len(t) : t[i].identity = v
  <2>1. [i \in 1 .. Len(t) |-> IF t[i].identity = v THEN FreshBorrow(v) ELSE t[i]]
          \in [1 .. Len(t) -> Borrow]
    BY <1>1, <1>2
  <2>2. Remembered(t, v)
          = [i \in 1 .. Len(t) |-> IF t[i].identity = v THEN FreshBorrow(v) ELSE t[i]]
    BY <1>1, <1>3 DEF Remembered
  <2>3. ~ Room(t, v)
    BY <1>3 DEF Room
  <2>4. QED
    BY <1>1, <2>1, <2>2, <2>3, Table
<1>4. CASE Room(t, v)
  <2>1. Remembered(t, v) = Append(t, FreshBorrow(v))
    BY <1>1, <1>4 DEF Remembered, Room
  <2>2. Len(t) + 1 <= Capacity
    BY <1>1, <1>4, SizeAssumption DEF Room
  <2>3. QED
    BY <1>2, <1>4, <2>1, <2>2, Pushed DEF Room
<1>5. CASE ~ Room(t, v) /\ ~ \E i \in 1 .. Len(t) : t[i].identity = v
  <2>1. Remembered(t, v) = t
    BY <1>1, <1>5 DEF Remembered, Room
  <2>2. QED
    BY <1>1, <1>5, <2>1
<1>6. QED
  BY <1>3, <1>4, <1>5

\* A call may end the borrows, and what it returns is borrowed after that.
LEMMA CallTable ==
  ASSUME borrows \in Seq(Borrow), Len(borrows) <= Capacity,
         NEW c \in Call, NEW depth \in Nat
  PROVE  LET t == BorrowsAfter(c, depth)
             grows == c.borrower # None /\ Room(borrows, c.borrower)
         IN  /\ t \in Seq(Borrow) /\ Len(t) <= Capacity
             /\ Len(t) = IF grows THEN Len(borrows) + 1 ELSE Len(borrows)
             /\ grows => t[Len(borrows) + 1] = FreshBorrow(c.borrower)
             /\ \A i \in 1 .. Len(borrows) :
                  t[i] = IF borrows[i].identity = c.borrower THEN FreshBorrow(c.borrower)
                         ELSE IF c.invalidates
                         THEN [borrows[i] EXCEPT !.invalidated = TRUE, !.until = depth]
                         ELSE borrows[i]
<1> DEFINE e == IF c.invalidates THEN Invalidated(borrows, depth) ELSE borrows
<1>1. \A i \in 1 .. Len(borrows) : borrows[i] \in Borrow
  BY ElementOfSeq
<1>2. /\ e \in Seq(Borrow) /\ Len(e) = Len(borrows)
      /\ \A i \in 1 .. Len(borrows) :
           e[i] = IF c.invalidates
                  THEN [borrows[i] EXCEPT !.invalidated = TRUE, !.until = depth]
                  ELSE borrows[i]
  <2>1. CASE c.invalidates
    <3>1. e = Invalidated(borrows, depth)
      BY <2>1
    <3>2. /\ Invalidated(borrows, depth) \in Seq(Borrow)
          /\ Len(Invalidated(borrows, depth)) = Len(borrows)
          /\ \A i \in 1 .. Len(borrows) : Invalidated(borrows, depth)[i]
               = [borrows[i] EXCEPT !.invalidated = TRUE, !.until = depth]
      BY EndedTable
    <3> HIDE DEF e
    <3>3. QED
      BY <2>1, <3>1, <3>2
  <2>2. CASE ~ c.invalidates
    BY <2>2
  <2>3. QED
    BY <2>1, <2>2
<1>3. \A i \in 1 .. Len(borrows) : e[i].identity = borrows[i].identity
  BY <1>1, <1>2 DEF Borrow
<1>4. BorrowsAfter(c, depth) = IF c.borrower = None THEN e ELSE Remembered(e, c.borrower)
  BY DEF BorrowsAfter
<1> HIDE DEF e
<1>5. CASE c.borrower = None
  <2>1. \A i \in 1 .. Len(borrows) : borrows[i].identity # c.borrower
    BY <1>1, <1>5, NoneAssumption DEF Borrow
  <2>2. QED
    BY <1>2, <1>4, <1>5, <2>1
<1>6. CASE c.borrower # None
  <2>1. c.borrower \in Var
    BY <1>6 DEF Call
  <2>2. Room(e, c.borrower) <=> Room(borrows, c.borrower)
    BY <1>2, <1>3 DEF Room
  <2>3. /\ Remembered(e, c.borrower) \in Seq(Borrow)
        /\ Len(Remembered(e, c.borrower)) = IF Room(e, c.borrower) THEN Len(e) + 1 ELSE Len(e)
        /\ Len(Remembered(e, c.borrower)) <= Capacity
        /\ Room(e, c.borrower) =>
             Remembered(e, c.borrower)[Len(e) + 1] = FreshBorrow(c.borrower)
        /\ \A i \in 1 .. Len(e) :
             Remembered(e, c.borrower)[i]
               = IF e[i].identity = c.borrower THEN FreshBorrow(c.borrower) ELSE e[i]
    BY <1>2, <2>1, RememberedTable
  <2>4. QED
    BY <1>2, <1>3, <1>4, <1>6, <2>2, <2>3
<1>7. QED
  BY <1>5, <1>6

-----------------------------------------------------------------------------
(* Types.                                                                  *)

\* The five tables of the context, and the rest.
TableTypes ==
  /\ bindings \in [1 .. Capacity -> Binding] /\ bound \in 0 .. Capacity
  /\ borrows \in Seq(Borrow) /\ Len(borrows) <= Capacity
  /\ path \in Path \cup {None} /\ progress \in Progress
VisitTypes ==
  /\ language \in {"C", "C++"} /\ program \in Programs
  /\ stack \in Seq(Frame) /\ Len(stack) <= MaxNesting[language]
  /\ stopped \in BOOLEAN /\ err \in BOOLEAN
  /\ history \in History

\* These are the types, and a program is made of calls and of signal actions.
LEMMA Types ==
  /\ TypeOK <=> TableTypes /\ VisitTypes
  /\ TableTypes' /\ VisitTypes' => TypeOK'
  /\ TypeOK => program.calls \subseteq Call
BY ProgramAssumption DEF TypeOK, TableTypes, VisitTypes

\* Nothing has happened at the start of a function.
LEMMA BlankType == Blank \in History /\ Blank.last = NoProgress /\ NoProgress \in Progress
<1>1. NoProgress \in Progress
  BY DEF NoProgress, Progress
<1>2. QED
  BY <1>1 DEF Blank, History

\* The types hold at the start.
LEMMA TypeStart == Init => TypeOK
<1> SUFFICES ASSUME Init PROVE TypeOK
  OBVIOUS
<1>1. TableTypes
  <2>1. bindings \in [1 .. Capacity -> Binding] /\ bound \in 0 .. Capacity
    BY SizeAssumption DEF Init, Binding
  <2>2. borrows \in Seq(Borrow) /\ Len(borrows) <= Capacity
    BY SizeAssumption DEF Init
  <2>3. QED
    BY <2>1, <2>2, BlankType DEF Init, TableTypes
<1>2. VisitTypes
  <2>1. stack \in Seq(Frame) /\ Len(stack) <= MaxNesting[language]
    BY SizeAssumption DEF Init
  <2>2. QED
    BY <2>1, BlankType DEF Init, VisitTypes
<1>3. QED
  BY <1>1, <1>2, Types

\* What a cursor pushes is a frame, and there is room for it.
LEMMA PushType ==
  ASSUME TypeOK, Len(stack) < MaxNesting[language],
         NEW f \in Frame, stack' = Append(stack, f), UNCHANGED language
  PROVE  /\ stack' \in Seq(Frame) /\ Len(stack') <= MaxNesting[language']
         /\ Len(stack) \in Nat /\ Len(stack') = Len(stack) + 1 /\ stack'[Len(stack) + 1] = f
         /\ \A k \in 1 .. Len(stack) : stack'[k] = stack[k]
<1>1. stack \in Seq(Frame) /\ MaxNesting[language] \in Nat
  BY SizeAssumption DEF TypeOK
<1>2. /\ stack' \in Seq(Frame) /\ Len(stack) \in Nat /\ Len(stack') = Len(stack) + 1
      /\ stack'[Len(stack) + 1] = f /\ \A k \in 1 .. Len(stack) : stack'[k] = stack[k]
  BY <1>1, Pushed
<1>3. QED
  BY <1>1, <1>2

\* A function's frame keeps the progress and the account around it.
LEMMA FunctionFrame ==
  ASSUME TypeOK, PushFunction
  PROVE  \E f \in Frame :
           /\ stack' = Append(stack, f) /\ f.kind = "function" /\ f.call = NoCall
           /\ f.saved = progress /\ f.before = history
<1> DEFINE f == [kind |-> "function", call |-> NoCall, saved |-> progress,
                 before |-> history]
<1>1. NoCall \in Call
  BY DEF NoCall, Call
<1>2. f \in Frame
  BY <1>1 DEF TypeOK, Frame
<1>3. stack' = Append(stack, f)
  BY DEF PushFunction
<1>4. QED
  BY <1>2, <1>3

\* A call's frame keeps the call.
LEMMA CallFrame ==
  ASSUME TypeOK, NEW c \in Call, PushCall(c)
  PROVE  \E f \in Frame : stack' = Append(stack, f) /\ f.kind = "call" /\ f.call = c
<1> DEFINE f == [kind |-> "call", call |-> c, saved |-> NoProgress, before |-> Blank]
<1>1. f \in Frame
  BY BlankType DEF Frame
<1>2. stack' = Append(stack, f)
  BY DEF PushCall
<1>3. QED
  BY <1>1, <1>2

\* Leaving a cursor takes its frame, the last one.
LEMMA LeaveType ==
  ASSUME TypeOK, Leave
  PROVE  /\ stack' \in Seq(Frame) /\ Top \in Frame
         /\ Len(stack) \in Nat \ {0} /\ Len(stack') = Len(stack) - 1
         /\ \A k \in 1 .. Len(stack) - 1 : stack'[k] = stack[k]
<1>1. /\ stack \in Seq(Frame) /\ stack # << >>
      /\ stack' = SubSeq(stack, 1, Len(stack) - 1)
  BY DEF Leave, TypeOK
<1>2. /\ stack' \in Seq(Frame)
      /\ Len(stack) \in Nat \ {0} /\ Len(stack') = Len(stack) - 1
      /\ \A k \in 1 .. Len(stack) - 1 : stack'[k] = stack[k]
  BY <1>1, Popped
<1>3. Top \in Frame
  BY <1>1, <1>2, ElementOfSeq DEF Top
<1>4. QED
  BY <1>2, <1>3

\* Meeting a call keeps the account an account.
LEMMA MetType ==
  ASSUME TypeOK, NEW c \in Call, Met(c)
  PROVE  /\ history' \in History
         /\ history'.handlers = history.handlers /\ history'.borrowed = history.borrowed
         /\ history'.crossed = Crossed(c)
         /\ history'.checked = history.checked \cup ({c.checks} \ {None})
         /\ history'.last = ProgressAfter(history.last, c)
<1>1. Crossed(c) \subseteq Var
  BY Open DEF Crossed, Borrowing, TypeOK, History, Call
<1>2. {c.checks} \ {None} \subseteq Path
  BY DEF Call
<1>3. ProgressAfter(history.last, c) \in Progress
  BY BlankType DEF ProgressAfter, Progress, Call, TypeOK, History
<1>4. QED
  BY <1>1, <1>2, <1>3 DEF Met, TypeOK, History

\* A call that has been evaluated keeps the account an account.
LEMMA EvaluatedType ==
  ASSUME NEW h \in History, NEW c \in Call
  PROVE  [h EXCEPT !.borrowed = Evaluated(h.borrowed, c)] \in History
<1>1. Evaluated(h.borrowed, c) \in [Var -> {"no", "fresh", "spent"}]
  BY DEF Evaluated, History
<1>2. QED
  BY <1>1 DEF History

\* Whether or not its operation could be copied, a call that is met does this.
Meets(c) ==
  /\ Inside /\ Len(stack) < MaxNesting[language]
  /\ PushCall(c)
  /\ borrows' = BorrowsAfter(c, Len(stack) + 1)
  /\ path' = IF c.checks # None THEN c.checks ELSE path
  /\ Met(c)
  /\ UNCHANGED <<unit, bindings, bound, stopped>>

\* Both ways of meeting a call do so.
LEMMA CallsMeet ==
  ASSUME NEW c, EnterCall(c) \/ EnterCallFails(c)
  PROVE  Meets(c)
BY DEF EnterCall, EnterCallFails, Meets, Cursor

\* What a call pushes, and what it leaves in the table of borrows.
LEMMA MeetsTypes ==
  ASSUME TypeOK, NEW c \in Call, Meets(c)
  PROVE  /\ stack' \in Seq(Frame) /\ Len(stack') <= MaxNesting[language']
         /\ Len(stack) \in Nat /\ Len(stack') = Len(stack) + 1
         /\ stack'[Len(stack) + 1].kind = "call" /\ stack'[Len(stack) + 1].call = c
         /\ \A k \in 1 .. Len(stack) : stack'[k] = stack[k]
         /\ borrows' \in Seq(Borrow) /\ Len(borrows') <= Capacity
         /\ path' \in Path \cup {None} /\ history' \in History
<1>1. /\ stack' \in Seq(Frame) /\ Len(stack') <= MaxNesting[language']
      /\ Len(stack) \in Nat /\ Len(stack') = Len(stack) + 1
      /\ stack'[Len(stack) + 1].kind = "call" /\ stack'[Len(stack) + 1].call = c
      /\ \A k \in 1 .. Len(stack) : stack'[k] = stack[k]
  <2>1. PICK f \in Frame : stack' = Append(stack, f) /\ f.kind = "call" /\ f.call = c
    BY CallFrame DEF Meets
  <2>2. QED
    BY <2>1, PushType DEF Meets, unit
<1>2. borrows' \in Seq(Borrow) /\ Len(borrows') <= Capacity
  <2>1. Len(stack) + 1 \in Nat
    BY <1>1
  <2>2. QED
    BY <2>1, CallTable DEF Meets, TypeOK
<1>3. path' \in Path \cup {None} /\ history' \in History
  BY MetType DEF Meets, TypeOK, Call
<1>4. QED
  BY <1>1, <1>2, <1>3

\* Each action keeps the types.
LEMMA TypeStep == TypeOK /\ [Next]_vars => TypeOK'
<1> SUFFICES ASSUME TypeOK, [Next]_vars PROVE TypeOK'
  OBVIOUS
<1> USE Types
<1>1. CASE EnterFunction
  <2>1. stack' \in Seq(Frame) /\ Len(stack') <= MaxNesting[language']
    <3>1. PICK f \in Frame : stack' = Append(stack, f)
      BY <1>1, FunctionFrame DEF EnterFunction
    <3>2. QED
      BY <1>1, <3>1, PushType DEF EnterFunction, Cursor, unit
  <2>2. TableTypes'
    BY <1>1, BlankType, SizeAssumption DEF EnterFunction, TypeOK, TableTypes
  <2>3. VisitTypes'
    BY <1>1, <2>1, BlankType DEF EnterFunction, Cursor, unit, VisitTypes
  <2>4. QED
    BY <2>2, <2>3
<1>2. ASSUME NEW o \in Owner, NEW h \in Handler, Bind(o, h) PROVE TypeOK'
  <2>1. /\ bindings' \in [1 .. Capacity -> Binding] /\ bound' \in 0 .. Capacity
    <3>1. [owner |-> o, handler |-> h] \in Binding
      BY DEF Binding
    <3>2. CASE SlotOf(o) <= Capacity
      <4>1. bindings' \in [1 .. Capacity -> Binding]
        BY <1>2, <3>1, <3>2 DEF Bind, TypeOK
      <4>2. bound' \in 0 .. Capacity
        BY <1>2, <3>2, SizeAssumption DEF Bind, Count, TypeOK
      <4>3. QED
        BY <4>1, <4>2
    <3>3. CASE ~ (SlotOf(o) <= Capacity)
      BY <1>2, <3>3 DEF Bind, TypeOK
    <3>4. QED
      BY <3>2, <3>3
  <2>2. history' \in History
    BY <1>2 DEF Bind, TypeOK, History
  <2>3. TableTypes'
    BY <1>2, <2>1 DEF Bind, TableTypes
  <2>4. VisitTypes'
    BY <1>2, <2>2 DEF Bind, Cursor, unit, VisitTypes
  <2>5. QED
    BY <2>3, <2>4
<1>3. ASSUME NEW o \in Owner, NEW h \in Handler, BindFails(o, h) PROVE TypeOK'
  <2>1. bound' \in 0 .. Capacity
    BY <1>3, SizeAssumption DEF BindFails, Count, TypeOK
  <2>2. history' \in History
    BY <1>3 DEF BindFails, TypeOK, History
  <2>3. TableTypes'
    BY <1>3, <2>1 DEF BindFails, TableTypes
  <2>4. VisitTypes'
    BY <1>3, <2>2 DEF BindFails, unit, VisitTypes
  <2>5. QED
    BY <2>3, <2>4
<1>4. ASSUME NEW c \in program.calls, EnterCall(c) \/ EnterCallFails(c) PROVE TypeOK'
  <2>1. c \in Call /\ Meets(c)
    BY <1>4, CallsMeet
  <2>2. progress' \in Progress
    BY <1>4, <2>1, BlankType
      DEF EnterCall, EnterCallFails, ProgressAfter, Progress, Call, TypeOK
  <2>3. TableTypes'
    BY <2>1, <2>2, MeetsTypes DEF Meets, TableTypes
  <2>4. err' \in BOOLEAN
    BY <1>4 DEF EnterCall, EnterCallFails, Cursor, VisitTypes
  <2>5. VisitTypes'
    BY <2>1, <2>4, MeetsTypes DEF Meets, unit, VisitTypes
  <2>6. QED
    BY <2>3, <2>5
<1>5. CASE Leave
  <2>1. /\ stack' \in Seq(Frame) /\ Len(stack') = Len(stack) - 1
        /\ Len(stack) \in Nat \ {0}
    BY <1>5, LeaveType
  <2>2. Top \in Frame
    BY <1>5, LeaveType
  <2>3. borrows' \in Seq(Borrow) /\ Len(borrows') <= Capacity
    <3>1. Len(stack) \in Nat
      BY <2>1
    <3>2. QED
      BY <1>5, <3>1, PassedTable DEF Leave, TypeOK
  <2>4. progress' \in Progress /\ history' \in History
    BY <1>5, <2>2, EvaluatedType DEF Leave, Frame, TypeOK
  <2>5. Len(stack') <= MaxNesting[language]
    BY <2>1, SizeAssumption DEF TypeOK
  <2>6. TableTypes'
    BY <1>5, <2>3, <2>4 DEF Leave, TableTypes
  <2>7. VisitTypes'
    BY <1>5, <2>1, <2>4, <2>5 DEF Leave, unit, VisitTypes
  <2>8. QED
    BY <2>6, <2>7
<1>6. CASE Stop
  BY <1>6 DEF Stop, tables, unit, TableTypes, VisitTypes
<1>7. CASE UNCHANGED vars
  BY <1>7 DEF vars, tables, unit, TableTypes, VisitTypes
<1>8. QED
  BY <1>1, <1>2, <1>3, <1>4, <1>5, <1>6, <1>7 DEF Next

-----------------------------------------------------------------------------
(* Functions.                                                              *)

\* In C a cursor that is left inside a function is a call.
LEMMA LeavesCall ==
  ASSUME TypeOK, OneFunction, Leave, language = "C", stack' # << >>
  PROVE  Top.kind = "call" /\ stack # << >>
<1>1. Len(stack) \in Nat \ {0} /\ stack' \in Seq(Frame) /\ Len(stack') = Len(stack) - 1
  BY LeaveType
<1>2. Len(stack') # 0
  BY <1>1, EmptySeq
<1>3. Len(stack) \in 2 .. Len(stack)
  BY <1>1, <1>2
<1>4. QED
  BY <1>3 DEF OneFunction, Top, Leave

\* Each action keeps the function outermost.
LEMMA OneFunctionStep == TypeOK /\ OneFunction /\ [Next]_vars => OneFunction'
<1> SUFFICES ASSUME TypeOK, OneFunction, [Next]_vars, language' = "C"
             PROVE  \A k \in 2 .. Len(stack') : stack'[k].kind = "call"
  BY DEF OneFunction
<1>1. CASE EnterFunction
  <2>1. stack = << >>
    BY <1>1 DEF EnterFunction, Nests, Cursor, unit
  <2>2. PICK f \in Frame : stack' = Append(stack, f)
    BY <1>1, FunctionFrame DEF EnterFunction
  <2>3. Len(stack') = 1
    BY <2>1, <2>2
  <2>4. QED
    BY <2>3
<1>2. ASSUME NEW c \in program.calls, EnterCall(c) \/ EnterCallFails(c)
      PROVE  \A k \in 2 .. Len(stack') : stack'[k].kind = "call"
  <2>1. c \in Call /\ Meets(c)
    BY <1>2, CallsMeet, Types
  <2>2. language = "C"
    BY <2>1 DEF Meets, unit
  <2>3. QED
    BY <2>1, <2>2, MeetsTypes DEF OneFunction
<1>3. CASE Leave
  <2>1. /\ Len(stack) \in Nat \ {0} /\ Len(stack') = Len(stack) - 1
        /\ \A k \in 1 .. Len(stack) - 1 : stack'[k] = stack[k]
    BY <1>3, LeaveType
  <2>2. QED
    BY <1>3, <2>1 DEF Leave, unit, OneFunction
<1>4. ASSUME NEW o \in Owner, NEW h \in Handler, Bind(o, h) \/ BindFails(o, h)
      PROVE  \A k \in 2 .. Len(stack') : stack'[k].kind = "call"
  BY <1>4 DEF Bind, BindFails, Cursor, unit, OneFunction
<1>5. CASE Stop \/ UNCHANGED vars
  BY <1>5 DEF Stop, vars, unit, OneFunction
<1>6. QED
  BY <1>1, <1>2, <1>3, <1>4, <1>5 DEF Next

-----------------------------------------------------------------------------
(* Uncertain progress.                                                     *)

\* Each action keeps the progress what the account says, until an error.
LEMMA ResumesStep == TypeOK /\ Resumes /\ [Next]_vars => Resumes'
<1> SUFFICES ASSUME TypeOK, Resumes, [Next]_vars, ~ err'
             PROVE  /\ progress' = history'.last
                    /\ \A k \in 1 .. Len(stack') :
                         stack'[k].kind = "function" => stack'[k].saved = stack'[k].before.last
  BY DEF Resumes
<1>1. CASE EnterFunction
  <2>1. PICK f \in Frame : /\ stack' = Append(stack, f)
                          /\ f.saved = progress /\ f.before = history
    BY <1>1, FunctionFrame DEF EnterFunction
  <2>2. /\ Len(stack) \in Nat /\ Len(stack') = Len(stack) + 1 /\ stack'[Len(stack) + 1] = f
        /\ \A k \in 1 .. Len(stack) : stack'[k] = stack[k]
    BY <2>1, Pushed DEF TypeOK
  <2>3. progress' = NoProgress /\ history' = Blank /\ ~ err
    BY <1>1 DEF EnterFunction, Cursor
  <2>4. QED
    BY <2>1, <2>2, <2>3, BlankType DEF Resumes
<1>2. ASSUME NEW c \in program.calls, EnterCall(c) \/ EnterCallFails(c)
      PROVE  /\ progress' = history'.last
             /\ \A k \in 1 .. Len(stack') :
                  stack'[k].kind = "function" => stack'[k].saved = stack'[k].before.last
  <2>1. c \in Call /\ Meets(c)
    BY <1>2, CallsMeet, Types
  <2>2. ~ err /\ progress' = ProgressAfter(progress, c)
    BY <1>2 DEF EnterCall, EnterCallFails, Cursor
  <2>3. history'.last = ProgressAfter(history.last, c)
    BY <2>1, MetType DEF Meets
  <2>4. \A k \in 1 .. Len(stack') :
          stack'[k].kind = "function" => stack'[k].saved = stack'[k].before.last
    BY <2>1, <2>2, MeetsTypes DEF Resumes
  <2>5. QED
    BY <2>2, <2>3, <2>4 DEF Resumes
<1>3. CASE Leave
  <2>1. /\ Len(stack) \in Nat \ {0} /\ Len(stack') = Len(stack) - 1
        /\ \A k \in 1 .. Len(stack) - 1 : stack'[k] = stack[k]
    BY <1>3, LeaveType
  <2>2. ~ err
    BY <1>3 DEF Leave
  <2>3. \A k \in 1 .. Len(stack') :
          stack'[k].kind = "function" => stack'[k].saved = stack'[k].before.last
    BY <2>1, <2>2 DEF Resumes
  <2>4. CASE Top.kind = "function"
    BY <1>3, <2>1, <2>2, <2>3, <2>4 DEF Leave, Top, Resumes
  <2>5. CASE Top.kind # "function"
    <3>1. history'.last = history.last /\ progress' = progress
      BY <1>3, <2>5 DEF Leave, TypeOK, History
    <3>2. QED
      BY <2>2, <2>3, <3>1 DEF Resumes
  <2>6. QED
    BY <2>4, <2>5
<1>4. ASSUME NEW o \in Owner, NEW h \in Handler, Bind(o, h) \/ BindFails(o, h)
      PROVE  /\ progress' = history'.last
             /\ \A k \in 1 .. Len(stack') :
                  stack'[k].kind = "function" => stack'[k].saved = stack'[k].before.last
  <2>1. ~ err /\ progress' = progress /\ stack' = stack
    BY <1>4 DEF Bind, BindFails, Cursor
  <2>2. history'.last = history.last
    BY <1>4 DEF Bind, BindFails, TypeOK, History
  <2>3. QED
    BY <2>1, <2>2 DEF Resumes
<1>5. CASE Stop \/ UNCHANGED vars
  BY <1>5 DEF Stop, vars, tables, Resumes
<1>6. QED
  BY <1>1, <1>2, <1>3, <1>4, <1>5 DEF Next

-----------------------------------------------------------------------------
(* Checked paths.                                                          *)

\* In C the visit is in one function from its cursor to the end of its cursor.
LEMMA StaysInside ==
  ASSUME TypeOK, OneFunction, [Next]_vars, InOneFunction'
  PROVE  \/ EnterFunction
         \/ InOneFunction /\ ~ (Leave /\ Top.kind = "function")
<1>1. language = "C" /\ (stack' # << >>)
  <2>1. language' = language
    BY DEF Next, EnterFunction, Bind, BindFails, EnterCall, EnterCallFails, Leave, Stop,
           Cursor, vars, unit
  <2>2. QED
    BY <2>1 DEF InOneFunction, Inside, Nests, TypeOK
<1>2. CASE Leave
  BY <1>1, <1>2, LeavesCall DEF InOneFunction, Inside, Nests
<1>3. CASE ~ Leave /\ ~ EnterFunction
  <2>1. stack' = stack \/ Inside
    BY <1>3 DEF Next, Bind, BindFails, EnterCall, EnterCallFails, Stop, vars
  <2>2. QED
    BY <1>1, <1>3, <2>1 DEF InOneFunction, Inside, Nests
<1>4. QED
  BY <1>2, <1>3

\* The path that was checked last was checked by the function being visited.
LEMMA PathStep ==
  ASSUME TypeOK, OneFunction, InOneFunction => PathsWereChecked, [Next]_vars, InOneFunction'
  PROVE  PathsWereChecked'
<1> SUFFICES path' \in history'.checked \cup {None}
  BY DEF PathsWereChecked
<1>1. CASE EnterFunction
  BY <1>1 DEF EnterFunction
<1>2. ASSUME InOneFunction, ~ (Leave /\ Top.kind = "function"), ~ EnterFunction
      PROVE  path' \in history'.checked \cup {None}
  <2>1. path \in history.checked \cup {None}
    BY <1>2 DEF PathsWereChecked
  <2>2. ASSUME NEW c \in program.calls, EnterCall(c) \/ EnterCallFails(c)
        PROVE  path' \in history'.checked \cup {None}
    <3>1. c \in Call /\ Meets(c)
      BY <2>2, CallsMeet, Types
    <3>2. /\ path' = IF c.checks # None THEN c.checks ELSE path
          /\ history'.checked = history.checked \cup ({c.checks} \ {None})
      BY <3>1, MetType DEF Meets
    <3>3. QED
      BY <2>1, <3>2
  <2>3. ASSUME NEW o \in Owner, NEW h \in Handler, Bind(o, h) \/ BindFails(o, h)
        PROVE  path' \in history'.checked \cup {None}
    BY <2>1, <2>3 DEF Bind, BindFails, TypeOK, History
  <2>4. CASE Leave
    BY <1>2, <2>1, <2>4 DEF Leave, TypeOK, History
  <2>5. CASE Stop \/ UNCHANGED vars
    BY <2>1, <2>5 DEF Stop, vars, tables
  <2>6. QED
    BY <1>2, <2>2, <2>3, <2>4, <2>5 DEF Next
<1>3. QED
  BY <1>1, <1>2, StaysInside

-----------------------------------------------------------------------------
(* Signal actions.                                                         *)

\* The slot of a signal action is its own, or the next one when it has none.
LEMMA Slot ==
  ASSUME bound \in Nat, NEW o \in Owner,
         \A i, j \in 1 .. bound : bindings[i].owner = bindings[j].owner => i = j
  PROVE  \/ SlotOf(o) \in 1 .. bound /\ bindings[SlotOf(o)].owner = o
         \/ SlotOf(o) = bound + 1 /\ \A i \in 1 .. bound : bindings[i].owner # o
<1> DEFINE own == {i \in 1 .. bound : bindings[i].owner = o}
<1>1. CASE own = {}
  BY <1>1 DEF SlotOf
<1>2. CASE own # {}
  <2>1. PICK k \in own : own = {k}
    BY <1>2
  <2>2. SlotOf(o) = CHOOSE i \in own : \A j \in own : i <= j
    BY <1>2 DEF SlotOf
  <2>3. SlotOf(o) \in own
    BY <2>1, <2>2
  <2>4. QED
    BY <2>3
<1>3. QED
  BY <1>1, <1>2

\* While no action is assigned and no slot written, the slots fit.
LEMMA SlotsStay ==
  ASSUME SlotsFit, bindings' = bindings, bound' = bound, history'.handlers = history.handlers
  PROVE  SlotsFit'
BY DEF SlotsFit, Assigned

\* At the start of a function no slot counts.
LEMMA SlotsStart == EnterFunction => SlotsFit'
<1> SUFFICES ASSUME EnterFunction PROVE SlotsFit'
  OBVIOUS
<1>1. bound' = 0 /\ history'.handlers = [o \in Owner |-> None]
  BY DEF EnterFunction, Blank
<1>2. Assigned' = {}
  BY <1>1 DEF Assigned
<1>3. QED
  BY <1>1, <1>2, FS_EmptySet DEF SlotsFit

\* An assignment writes the slot of its signal action, if there is one.
LEMMA SlotsBind ==
  ASSUME TypeOK, SlotsFit, NEW o \in Owner, NEW h \in Handler, Bind(o, h)
  PROVE  SlotsFit'
<1>1. /\ bound \in Nat /\ bound <= Capacity /\ Capacity \in Nat
      /\ bindings \in [1 .. Capacity -> Binding]
  BY SizeAssumption DEF TypeOK
<1>2. h # None
  BY NoneAssumption
<1>3. /\ \A p \in Owner : history'.handlers[p] = IF p = o THEN h ELSE history.handlers[p]
      /\ Assigned' = Assigned \cup {o}
  BY <1>2 DEF Bind, TypeOK, History, Assigned
<1>4. IsFiniteSet(Assigned')
  BY <1>3, FS_AddElement DEF SlotsFit
<1>5. CASE SlotOf(o) \in 1 .. bound /\ bindings[SlotOf(o)].owner = o
  <2>1. PICK k \in 1 .. bound : k = SlotOf(o) /\ bindings[k].owner = o
    BY <1>5
  <2>2. bindings' = [bindings EXCEPT ![k] = [owner |-> o, handler |-> h]] /\ bound' = bound
    BY <1>1, <2>1 DEF Bind, Count
  <2>3. \A i \in 1 .. bound : /\ bindings'[i].owner = bindings[i].owner
                              /\ i # k => bindings'[i].handler = bindings[i].handler
                              /\ i = k => bindings'[i].handler = h
    BY <1>1, <2>1, <2>2
  <2>4. \A i \in 1 .. bound : i # k => bindings[i].owner # o
    BY <2>1 DEF SlotsFit
  <2>5. \A i \in 1 .. bound' :
          /\ bindings'[i].owner \in Owner /\ bindings'[i].handler # None
          /\ bindings'[i].handler = history'.handlers[bindings'[i].owner]
    BY <1>2, <1>3, <2>1, <2>2, <2>3, <2>4 DEF SlotsFit
  <2>6. bound' < Capacity => \A p \in Assigned' : \E i \in 1 .. bound' : bindings'[i].owner = p
    BY <1>3, <2>1, <2>2, <2>3 DEF SlotsFit
  <2>7. \A i, j \in 1 .. bound' : bindings'[i].owner = bindings'[j].owner => i = j
    BY <2>2, <2>3 DEF SlotsFit
  <2>8. QED
    BY <1>4, <2>5, <2>6, <2>7 DEF SlotsFit
<1>6. CASE SlotOf(o) = bound + 1 /\ \A i \in 1 .. bound : bindings[i].owner # o
  <2>1. CASE bound < Capacity
    <3>1. /\ bindings' = [bindings EXCEPT ![bound + 1] = [owner |-> o, handler |-> h]]
          /\ bound' = bound + 1
      BY <1>1, <1>6, <2>1 DEF Bind, Count
    <3>2. /\ \A i \in 1 .. bound : bindings'[i] = bindings[i]
          /\ bindings'[bound + 1].owner = o /\ bindings'[bound + 1].handler = h
      BY <1>1, <2>1, <3>1
    <3>3. \A i \in 1 .. bound' :
            /\ bindings'[i].owner \in Owner /\ bindings'[i].handler # None
            /\ bindings'[i].handler = history'.handlers[bindings'[i].owner]
      BY <1>1, <1>2, <1>3, <1>6, <3>1, <3>2 DEF SlotsFit
    <3>4. bound' < Capacity =>
            \A p \in Assigned' : \E i \in 1 .. bound' : bindings'[i].owner = p
      BY <1>1, <1>3, <2>1, <3>1, <3>2 DEF SlotsFit
    <3>5. \A i, j \in 1 .. bound' : bindings'[i].owner = bindings'[j].owner => i = j
      BY <1>1, <1>6, <3>1, <3>2 DEF SlotsFit
    <3>6. QED
      BY <1>4, <3>3, <3>4, <3>5 DEF SlotsFit
  <2>2. CASE ~ (bound < Capacity)
    <3>1. bindings' = bindings /\ bound' = bound
      BY <1>1, <1>6, <2>2 DEF Bind
    <3>2. \A i \in 1 .. bound' :
            /\ bindings'[i].owner \in Owner /\ bindings'[i].handler # None
            /\ bindings'[i].handler = history'.handlers[bindings'[i].owner]
      BY <1>3, <1>6, <3>1 DEF SlotsFit
    <3>3. QED
      BY <1>4, <2>2, <3>1, <3>2 DEF SlotsFit
  <2>3. QED
    BY <2>1, <2>2
<1>7. QED
  BY <1>1, <1>5, <1>6, Slot DEF SlotsFit

\* Each action keeps the slots fitting, until an error.
LEMMA SlotsStep ==
  ASSUME TypeOK, OneFunction, InOneFunction /\ ~ err => SlotsFit,
         [Next]_vars, InOneFunction', ~ err'
  PROVE  SlotsFit'
<1>1. CASE EnterFunction
  BY <1>1, SlotsStart
<1>2. ASSUME InOneFunction, ~ (Leave /\ Top.kind = "function"), ~ EnterFunction
      PROVE  SlotsFit'
  <2>1. ASSUME NEW c \in program.calls, EnterCall(c) \/ EnterCallFails(c)
        PROVE  SlotsFit'
    <3>1. c \in Call /\ Meets(c)
      BY <2>1, CallsMeet, Types
    <3>2. ~ err
      BY <2>1 DEF EnterCall, EnterCallFails
    <3>3. history'.handlers = history.handlers
      BY <3>1, MetType DEF Meets
    <3>4. QED
      BY <1>2, <3>1, <3>2, <3>3, SlotsStay DEF Meets
  <2>2. ASSUME NEW o \in Owner, NEW h \in Handler, Bind(o, h) \/ BindFails(o, h)
        PROVE  SlotsFit'
    BY <1>2, <2>2, SlotsBind DEF Bind, BindFails, Cursor
  <2>3. CASE Leave
    BY <1>2, <2>3, SlotsStay DEF Leave, TypeOK, History
  <2>4. CASE Stop \/ UNCHANGED vars
    BY <1>2, <2>4, SlotsStay DEF Stop, vars, tables
  <2>5. QED
    BY <1>2, <2>1, <2>2, <2>3, <2>4 DEF Next
<1>3. QED
  BY <1>1, <1>2, StaysInside

-----------------------------------------------------------------------------
(* Borrowed pointers.                                                      *)

\* A call that is met is in progress from then on.
LEMMA OpensOne ==
  ASSUME TypeOK, NEW c \in Call, Meets(c)
  PROVE  Borrowing' = Borrowing \cup ({c.borrower} \ {None})
<1> PICK n \in Nat : n = Len(stack)
  BY Open DEF TypeOK
<1>1. /\ DOMAIN stack = 1 .. n /\ DOMAIN stack' = 1 .. n + 1 /\ stack'[n + 1].call = c
      /\ \A k \in 1 .. n : stack'[k] = stack[k]
  BY MeetsTypes, LenProperties DEF TypeOK
<1>2. OpenCalls' = OpenCalls \cup {c}
  BY <1>1 DEF OpenCalls
<1>3. QED
  BY <1>2 DEF Borrowing

\* A call that is left is in progress no more, and no other call is left.
LEMMA ClosesOne ==
  ASSUME TypeOK, Leave
  PROVE  /\ Borrowing = Borrowing' \cup ({Top.call.borrower} \ {None})
         /\ Top.call \in Call
<1> PICK n \in Nat \ {0} : n = Len(stack)
  BY LeaveType
<1>1. /\ DOMAIN stack = 1 .. n /\ DOMAIN stack' = 1 .. n - 1
      /\ \A k \in 1 .. n - 1 : stack'[k] = stack[k]
  BY LeaveType, LenProperties DEF TypeOK
<1>2. OpenCalls = OpenCalls' \cup {Top.call}
  BY <1>1 DEF OpenCalls, Top
<1>3. Top.call \in Call
  BY LeaveType DEF Frame
<1>4. QED
  BY <1>2, <1>3 DEF Borrowing

\* The end of a cursor ends the borrows that were to end there.
LEMMA PassesTable ==
  ASSUME TypeOK, Leave
  PROVE  /\ Len(borrows') = Len(borrows)
         /\ \A i \in 1 .. Len(borrows) :
              borrows'[i] = IF borrows[i].until = Len(stack) THEN [borrows[i] EXCEPT !.until = 0]
                            ELSE borrows[i]
<1>1. borrows \in Seq(Borrow) /\ Len(stack) \in Nat
  BY LeaveType DEF TypeOK
<1>2. borrows' = Passed(borrows, Len(stack))
  BY DEF Leave
<1>3. QED
  BY <1>1, <1>2, PassedTable

\* A call that is met keeps the variable of each entry, and may add one entry.
LEMMA MeetsTable ==
  ASSUME TypeOK, NEW c \in Call, Meets(c)
  PROVE  LET grows == c.borrower # None /\ Room(borrows, c.borrower)
         IN  /\ Len(borrows') = IF grows THEN Len(borrows) + 1 ELSE Len(borrows)
             /\ grows => /\ borrows'[Len(borrows) + 1] = FreshBorrow(c.borrower)
                         /\ borrows'[Len(borrows) + 1].identity = c.borrower
             /\ \A i \in 1 .. Len(borrows) :
                  /\ borrows'[i].identity = borrows[i].identity
                  /\ borrows'[i] =
                       IF borrows[i].identity = c.borrower THEN FreshBorrow(c.borrower)
                       ELSE IF c.invalidates
                       THEN [borrows[i] EXCEPT !.invalidated = TRUE, !.until = Len(stack) + 1]
                       ELSE borrows[i]
<1>1. /\ borrows \in Seq(Borrow) /\ Len(borrows) <= Capacity /\ Len(stack) + 1 \in Nat
      /\ borrows' = BorrowsAfter(c, Len(stack) + 1)
  BY Open DEF Meets, TypeOK
<1>2. FreshBorrow(c.borrower).identity = c.borrower
  BY DEF FreshBorrow
<1>3. ASSUME NEW i \in 1 .. Len(borrows)
      PROVE  borrows'[i] =
               IF borrows[i].identity = c.borrower THEN FreshBorrow(c.borrower)
               ELSE IF c.invalidates
               THEN [borrows[i] EXCEPT !.invalidated = TRUE, !.until = Len(stack) + 1]
               ELSE borrows[i]
  BY <1>1, CallTable
<1>4. ASSUME NEW i \in 1 .. Len(borrows) PROVE borrows'[i].identity = borrows[i].identity
  <2>1. borrows[i] \in Borrow
    BY <1>1, ElementOfSeq
  <2>2. [borrows[i] EXCEPT !.invalidated = TRUE, !.until = Len(stack) + 1].identity
          = borrows[i].identity
    BY <2>1 DEF Borrow
  <2>3. QED
    BY <1>2, <1>3, <2>2
<1>5. QED
  BY <1>1, <1>2, <1>3, <1>4, CallTable

\* At the start of a function nothing is borrowed and nothing remembered.
LEMMA EntriesStart ==
  ASSUME TypeOK, EnterFunction, InOneFunction'
  PROVE  EntriesFit' /\ BorrowsFit'
<1>1. stack = << >>
  BY DEF EnterFunction, InOneFunction, Nests, Cursor, unit
<1>2. PICK f \in Frame : stack' = Append(stack, f) /\ f.call = NoCall
  BY FunctionFrame DEF EnterFunction
<1>3. stack' = << f >>
  BY <1>1, <1>2
<1>4. OpenCalls' = {NoCall}
  BY <1>2, <1>3 DEF OpenCalls
<1>5. Borrowing' = {}
  BY <1>4 DEF Borrowing, NoCall
<1>6. Known' = {}
  BY <1>5 DEF Known, EnterFunction, Blank
<1>7. Len(borrows') = 0
  BY DEF EnterFunction
<1>8. QED
  BY <1>6, <1>7, FS_EmptySet DEF EntriesFit, BorrowsFit

\* A call that borrows gets an entry while there is room.
LEMMA EntriesMeet ==
  ASSUME TypeOK, EntriesFit, NEW c \in Call, Meets(c)
  PROVE  EntriesFit'
<1> DEFINE grows == c.borrower # None /\ Room(borrows, c.borrower)
<1> PICK n \in Nat : n = Len(borrows)
  BY LenProperties DEF TypeOK
<1>1. /\ Len(borrows') = IF grows THEN n + 1 ELSE n
      /\ grows => borrows'[n + 1].identity = c.borrower
      /\ \A i \in 1 .. n : borrows'[i].identity = borrows[i].identity
  BY MeetsTable
<1>2. Known' = Known \cup ({c.borrower} \ {None})
  <2>1. history'.borrowed = history.borrowed
    BY MetType DEF Meets
  <2>2. QED
    BY <2>1, OpensOne DEF Known
<1>3. IsFiniteSet(Known')
  <2>1. IsFiniteSet(Known \cup {c.borrower})
    BY FS_AddElement DEF EntriesFit
  <2>2. Known' \subseteq Known \cup {c.borrower}
    BY <1>2
  <2>3. QED
    BY <2>1, <2>2, FS_Subset
<1>4. Capacity \in Nat /\ n <= Capacity
  BY SizeAssumption DEF TypeOK
<1>5. CASE grows
  <2>1. \A i \in 1 .. n : borrows[i].identity # c.borrower
    BY <1>5 DEF Room
  <2>2. \A i, j \in 1 .. n + 1 : borrows'[i].identity = borrows'[j].identity => i = j
    BY <1>1, <1>5, <2>1 DEF EntriesFit
  <2>3. \A i \in 1 .. n + 1 : borrows'[i].identity \in Known'
    BY <1>1, <1>2, <1>5 DEF EntriesFit
  <2>4. ASSUME NEW v \in Known' PROVE \E i \in 1 .. n + 1 : borrows'[i].identity = v
    <3>1. CASE v = c.borrower
      BY <1>1, <1>5, <3>1
    <3>2. CASE v \in Known
      <4>1. Len(borrows) < Capacity
        BY <1>5 DEF Room
      <4>2. PICK i \in 1 .. n : borrows[i].identity = v
        BY <3>2, <4>1 DEF EntriesFit
      <4>3. i \in 1 .. n + 1 /\ borrows'[i].identity = v
        BY <1>1, <4>2
      <4>4. QED
        BY <4>3
    <3>3. QED
      BY <1>2, <3>1, <3>2
  <2>5. Len(borrows') = n + 1
    BY <1>1, <1>5
  <2>6. QED
    BY <1>3, <2>2, <2>3, <2>4, <2>5 DEF EntriesFit
<1>6. CASE ~ grows
  <2>1. Len(borrows') = n
    BY <1>1, <1>6
  <2>2. \A i, j \in 1 .. n : borrows'[i].identity = borrows'[j].identity => i = j
    BY <1>1 DEF EntriesFit
  <2>3. \A i \in 1 .. n : borrows'[i].identity \in Known'
    BY <1>1, <1>2 DEF EntriesFit
  <2>4. ASSUME n < Capacity, NEW v \in Known'
        PROVE  \E i \in 1 .. n : borrows'[i].identity = v
    <3>1. \E i \in 1 .. n : borrows[i].identity = v
      BY <1>2, <1>6, <2>4 DEF Room, EntriesFit
    <3>2. QED
      BY <1>1, <3>1
  <2>5. QED
    BY <1>3, <2>1, <2>2, <2>3, <2>4 DEF EntriesFit
<1>7. QED
  BY <1>5, <1>6

\* The end of a call keeps every entry and forgets no variable.
LEMMA EntriesLeave ==
  ASSUME TypeOK, EntriesFit, Leave, Top.kind = "call"
  PROVE  EntriesFit'
<1> PICK n \in Nat : n = Len(borrows)
  BY LenProperties DEF TypeOK
<1>1. Len(borrows') = n /\ \A i \in 1 .. n : borrows'[i].identity = borrows[i].identity
  <2>1. \A i \in 1 .. n : borrows[i] \in Borrow
    BY ElementOfSeq DEF TypeOK
  <2>2. QED
    BY <2>1, PassesTable DEF Borrow
<1>2. Known' = Known
  <2>1. history'.borrowed = Evaluated(history.borrowed, Top.call)
    BY DEF Leave, TypeOK, History
  <2>2. \A v \in Var : history'.borrowed[v] # "no" <=>
                       v = Top.call.borrower \/ history.borrowed[v] # "no"
    BY <2>1 DEF Evaluated
  <2>3. {Top.call.borrower} \ {None} \subseteq Var /\ None \notin Var
    BY ClosesOne, NoneAssumption DEF Call
  <2>4. QED
    BY <2>2, <2>3, ClosesOne DEF Known
<1>3. QED
  BY <1>1, <1>2 DEF EntriesFit

\* The account of the borrows when a call is met.
LEMMA MeetsCrossed ==
  ASSUME TypeOK, NEW c \in Call, Meets(c), NEW v \in Var, v \notin history'.crossed
  PROVE  /\ v # c.borrower => v \notin history.crossed
         /\ v = c.borrower =>
              \A k \in 1 .. Len(stack) : ~ stack[k].call.invalidates
         /\ c.invalidates => v \notin Borrowing
<1>1. history'.crossed = Crossed(c)
  BY MetType DEF Meets
<1>2. v = c.borrower => ~ \E d \in OpenCalls : d.invalidates
  BY <1>1, NoneAssumption DEF Crossed
<1>3. \A k \in 1 .. Len(stack) : stack[k].call \in OpenCalls
  BY Open DEF TypeOK
<1>4. v # c.borrower => v \notin history.crossed
  BY <1>1 DEF Crossed
<1>5. c.invalidates => v \notin Borrowing
  BY <1>1 DEF Crossed, Borrowing
<1>6. QED
  BY <1>2, <1>3, <1>4, <1>5

\* The borrow that a call takes fits.
LEMMA FreshFits ==
  ASSUME TypeOK, NEW c \in Call, Meets(c), c.borrower # None
  PROVE  Fits(FreshBorrow(c.borrower))'
<1> PICK b : b = FreshBorrow(c.borrower)
  OBVIOUS
<1>1. b.identity = c.borrower /\ b.invalidated = FALSE /\ b.until = 0 /\ c.borrower \in Var
  BY DEF FreshBorrow, Call
<1>2. Ends(b)'
  BY <1>1, MeetsTypes DEF Ends
<1>3. ASSUME b.identity \notin history'.crossed PROVE Stands(b)'
  <2>1. b.identity \in Borrowing'
    BY <1>1, OpensOne
  <2>2. \A k \in 1 .. Len(stack) : ~ stack[k].call.invalidates
    BY <1>1, <1>3, MeetsCrossed
  <2>3. \A k \in 1 .. Len(stack') :
          stack'[k].call.invalidates => stack'[k].call.borrower = b.identity
    BY <1>1, <2>2, MeetsTypes
  <2>4. QED
    BY <2>1, <2>3 DEF Stands
<1>4. Fits(b)'
  BY <1>1, <1>2, <1>3 DEF Fits
<1>5. QED
  BY <1>4

\* The borrows that other calls took fit when a call is met that may end them.
LEMMA MetFits ==
  ASSUME TypeOK, NEW c \in Call, Meets(c), NEW b \in Borrow, Fits(b),
         b.identity # c.borrower, NEW n \in Nat, n = Len(stack)
  PROVE  /\ c.invalidates =>
              Fits([b EXCEPT !.invalidated = TRUE, !.until = n + 1])'
         /\ ~ c.invalidates => Fits(b)'
<1>1. /\ Len(stack') = n + 1 /\ stack'[n + 1].call = c
      /\ \A k \in 1 .. n : stack'[k] = stack[k]
  BY MeetsTypes
<1>2. b.identity \in Var /\ b.until \in 0 .. n
  BY DEF Borrow, Fits, Ends
<1>3. Borrowing' = Borrowing \cup ({c.borrower} \ {None})
  BY OpensOne
<1>4. history'.borrowed = history.borrowed
  BY MetType DEF Meets
<1>5. b.identity \notin history'.crossed =>
        /\ IF b.invalidated THEN Falls(b) ELSE Stands(b)
        /\ c.invalidates => b.identity \notin Borrowing
  BY <1>2, MeetsCrossed DEF Fits
<1>6. ASSUME c.invalidates
      PROVE  Fits([b EXCEPT !.invalidated = TRUE, !.until = n + 1])'
  <2> PICK e : e = [b EXCEPT !.invalidated = TRUE, !.until = n + 1]
    OBVIOUS
  <2>1. e.identity = b.identity /\ e.invalidated = TRUE /\ e.until = n + 1
    BY DEF Borrow
  <2>2. Ends(e)'
    BY <1>1, <1>6, <2>1 DEF Ends
  <2>3. ASSUME e.identity \notin history'.crossed PROVE Falls(e)'
    <3>1. b.identity \notin Borrowing'
      BY <1>3, <1>5, <1>6, <2>1, <2>3
    <3>2. history.borrowed[b.identity] # "no"
      BY <1>5, <1>6, <2>1, <2>3 DEF Falls, Stands
    <3>3. QED
      BY <1>4, <2>1, <3>1, <3>2 DEF Falls
  <2>4. Fits(e)'
    BY <2>1, <2>2, <2>3 DEF Fits
  <2>5. QED
    BY <2>4
<1>7. ASSUME ~ c.invalidates PROVE Fits(b)'
  <2>1. Ends(b)'
    BY <1>1, <1>2 DEF Fits, Ends
  <2>2. ASSUME b.identity \notin history'.crossed, b.invalidated PROVE Falls(b)'
    BY <1>3, <1>4, <1>5, <2>2 DEF Falls, Spent
  <2>3. ASSUME b.identity \notin history'.crossed, ~ b.invalidated PROVE Stands(b)'
    BY <1>1, <1>3, <1>4, <1>5, <1>7, <2>3 DEF Stands
  <2>4. QED
    BY <2>1, <2>2, <2>3 DEF Fits
<1>8. QED
  BY <1>6, <1>7

\* The borrows fit when a call is left, which may end them.
LEMMA LeftFits ==
  ASSUME TypeOK, Leave, Top.kind = "call", NEW b \in Borrow, Fits(b),
         NEW n \in Nat \ {0}, n = Len(stack)
  PROVE  /\ b.until = n => Fits([b EXCEPT !.until = 0])'
         /\ b.until # n => Fits(b)'
<1> PICK c : c = Top.call
  OBVIOUS
<1> DEFINE v == b.identity
<1>1. Len(stack') = n - 1 /\ \A k \in 1 .. n - 1 : stack'[k] = stack[k]
  BY LeaveType
<1>2. v \in Var /\ b.until \in 0 .. n /\ stack[n].call = c
  BY DEF Borrow, Fits, Ends, Top
<1>3. Borrowing = Borrowing' \cup ({c.borrower} \ {None}) /\ v # None
  BY <1>2, ClosesOne, NoneAssumption
<1>4. /\ history'.crossed = history.crossed
      /\ history'.borrowed = Evaluated(history.borrowed, c)
  BY DEF Leave, TypeOK, History
<1>5. /\ history.borrowed[v] \in {"no", "fresh", "spent"}
      /\ history'.borrowed[v] = IF v = c.borrower THEN "fresh"
                                ELSE IF c.invalidates /\ history.borrowed[v] = "fresh"
                                THEN "spent" ELSE history.borrowed[v]
  BY <1>2, <1>4 DEF TypeOK, History, Evaluated
<1>6. ASSUME b.until = n PROVE Fits([b EXCEPT !.until = 0])'
  <2> PICK e : e = [b EXCEPT !.until = 0]
    OBVIOUS
  <2>1. e.identity = v /\ e.invalidated = b.invalidated /\ e.until = 0
    BY DEF Borrow
  <2>2. b.invalidated /\ c.invalidates
    BY <1>2, <1>6 DEF Fits, Ends
  <2>3. Ends(e)'
    BY <1>1, <2>1 DEF Ends
  <2>4. ASSUME e.identity \notin history'.crossed PROVE Falls(e)'
    <3>1. v \notin Borrowing /\ history.borrowed[v] # "no"
      BY <1>4, <2>1, <2>2, <2>4 DEF Fits, Falls
    <3>2. v \notin Borrowing' /\ history'.borrowed[v] = "spent"
      BY <1>3, <1>5, <2>2, <3>1
    <3>3. QED
      BY <2>1, <3>2 DEF Falls, Spent
  <2>5. Fits(e)'
    BY <2>1, <2>2, <2>3, <2>4 DEF Fits
  <2>6. QED
    BY <2>5
<1>7. ASSUME b.until # n PROVE Fits(b)'
  <2>1. Ends(b)'
    BY <1>1, <1>2, <1>7 DEF Fits, Ends
  <2>2. ASSUME v \notin history'.crossed, b.invalidated PROVE Falls(b)'
    BY <1>3, <1>4, <1>5, <2>2 DEF Fits, Falls, Spent
  <2>3. ASSUME v \notin history'.crossed, ~ b.invalidated PROVE Stands(b)'
    <3>1. history.borrowed[v] = "fresh" \/ v \in Borrowing
      BY <1>4, <2>3 DEF Fits, Stands
    <3>2. \A k \in 1 .. n : stack[k].call.invalidates => stack[k].call.borrower = v
      BY <1>4, <2>3 DEF Fits, Stands
    <3>3. history'.borrowed[v] = "fresh" \/ v \in Borrowing'
      BY <1>2, <1>3, <1>5, <3>1, <3>2
    <3>4. QED
      BY <1>1, <3>2, <3>3 DEF Stands
  <2>4. QED
    BY <2>1, <2>2, <2>3 DEF Fits
<1>8. QED
  BY <1>6, <1>7

\* So every entry fits when a call is met.
LEMMA BorrowsMeet ==
  ASSUME TypeOK, BorrowsFit, NEW c \in Call, Meets(c)
  PROVE  BorrowsFit'
<1> PICK n \in Nat : n = Len(stack)
  BY Open DEF TypeOK
<1> PICK m \in Nat : m = Len(borrows)
  BY LenProperties DEF TypeOK
<1>1. ASSUME NEW i \in 1 .. m PROVE Fits(borrows[i])'
  <2> PICK b \in Borrow : b = borrows[i]
    BY ElementOfSeq DEF TypeOK
  <2> PICK e : e = borrows'[i]
    OBVIOUS
  <2>1. e = IF b.identity = c.borrower THEN FreshBorrow(c.borrower)
            ELSE IF c.invalidates THEN [b EXCEPT !.invalidated = TRUE, !.until = n + 1]
            ELSE b
    BY MeetsTable
  <2>2. Fits(b)
    BY DEF BorrowsFit
  <2>3. Fits(e)'
    <3>1. CASE b.identity = c.borrower
      <4>1. c.borrower # None
        BY <3>1, NoneAssumption DEF Borrow
      <4>2. QED
        BY <2>1, <3>1, <4>1, FreshFits
    <3>2. CASE b.identity # c.borrower
      <4>1. /\ c.invalidates =>
                 Fits([b EXCEPT !.invalidated = TRUE, !.until = n + 1])'
            /\ ~ c.invalidates => Fits(b)'
        BY <2>2, <3>2, MetFits
      <4>2. CASE c.invalidates
        <5>1. e = [b EXCEPT !.invalidated = TRUE, !.until = n + 1]
          BY <2>1, <3>2, <4>2
        <5>2. QED
          BY <4>1, <4>2, <5>1
      <4>3. CASE ~ c.invalidates
        <5>1. e = b
          BY <2>1, <3>2, <4>3
        <5>2. QED
          BY <4>1, <4>3, <5>1
      <4>4. QED
        BY <4>2, <4>3
    <3>3. QED
      BY <3>1, <3>2
  <2>4. QED
    BY <2>3 DEF Fits, Ends, Falls, Stands, Spent
<1>2. ASSUME c.borrower # None, Room(borrows, c.borrower)
      PROVE  Fits(borrows[m + 1])'
  <2>1. borrows'[m + 1] = FreshBorrow(c.borrower)
    BY <1>2, MeetsTable
  <2>2. Fits(FreshBorrow(c.borrower))'
    BY <1>2, FreshFits
  <2>3. QED
    BY <2>1, <2>2 DEF Fits, Ends, Falls, Stands, Spent
<1>3. Len(borrows') = IF c.borrower # None /\ Room(borrows, c.borrower) THEN m + 1 ELSE m
  BY MeetsTable
<1>4. QED
  BY <1>1, <1>2, <1>3 DEF BorrowsFit

\* And when one is left.
LEMMA BorrowsLeave ==
  ASSUME TypeOK, BorrowsFit, Leave, Top.kind = "call"
  PROVE  BorrowsFit'
<1> PICK n \in Nat \ {0} : n = Len(stack)
  BY LeaveType
<1>1. ASSUME NEW i \in 1 .. Len(borrows) PROVE Fits(borrows[i])'
  <2> PICK b \in Borrow : b = borrows[i]
    BY ElementOfSeq DEF TypeOK
  <2> PICK e : e = borrows'[i]
    OBVIOUS
  <2>1. e = IF b.until = n THEN [b EXCEPT !.until = 0] ELSE b
    BY PassesTable
  <2>2. Fits(b)
    BY DEF BorrowsFit
  <2>3. Fits(e)'
    BY <2>1, <2>2, LeftFits
  <2>4. QED
    BY <2>3 DEF Fits, Ends, Falls, Stands, Spent
<1>2. Len(borrows') = Len(borrows)
  BY PassesTable
<1>3. QED
  BY <1>1, <1>2 DEF BorrowsFit

\* No other action reads or writes a borrow.
LEMMA BorrowsStay ==
  ASSUME EntriesFit, BorrowsFit, borrows' = borrows, stack' = stack,
         history'.borrowed = history.borrowed, history'.crossed = history.crossed
  PROVE  EntriesFit' /\ BorrowsFit'
<1>1. Borrowing' = Borrowing
  BY DEF Borrowing, OpenCalls
<1>2. Known' = Known
  BY <1>1 DEF Known
<1>3. EntriesFit'
  BY <1>2 DEF EntriesFit
<1>4. BorrowsFit'
  BY <1>1 DEF BorrowsFit, Fits, Ends, Falls, Stands, Spent
<1>5. QED
  BY <1>3, <1>4

\* Each action keeps the entries and the borrows fitting.
LEMMA BorrowsStep ==
  ASSUME TypeOK, OneFunction, InOneFunction => EntriesFit /\ BorrowsFit,
         [Next]_vars, InOneFunction'
  PROVE  EntriesFit' /\ BorrowsFit'
<1>1. CASE EnterFunction
  BY <1>1, EntriesStart
<1>2. ASSUME InOneFunction, ~ (Leave /\ Top.kind = "function"), ~ EnterFunction
      PROVE  EntriesFit' /\ BorrowsFit'
  <2>1. ASSUME NEW c \in program.calls, EnterCall(c) \/ EnterCallFails(c)
        PROVE  EntriesFit' /\ BorrowsFit'
    <3>1. c \in Call /\ Meets(c)
      BY <2>1, CallsMeet, Types
    <3>2. QED
      BY <1>2, <3>1, EntriesMeet, BorrowsMeet
  <2>2. ASSUME NEW o \in Owner, NEW h \in Handler, Bind(o, h) \/ BindFails(o, h)
        PROVE  EntriesFit' /\ BorrowsFit'
    <3>1. /\ borrows' = borrows /\ stack' = stack
          /\ history'.borrowed = history.borrowed /\ history'.crossed = history.crossed
      BY <2>2 DEF Bind, BindFails, TypeOK, History
    <3>2. QED
      BY <1>2, <3>1, BorrowsStay
  <2>3. CASE Leave
    <3>1. Top.kind = "call"
      BY <1>2, <2>3, LeaveType DEF Frame
    <3>2. QED
      BY <1>2, <2>3, <3>1, EntriesLeave, BorrowsLeave
  <2>4. CASE Stop \/ UNCHANGED vars
    BY <1>2, <2>4, BorrowsStay DEF Stop, vars, tables
  <2>5. QED
    BY <1>2, <2>1, <2>2, <2>3, <2>4 DEF Next
<1>3. QED
  BY <1>1, <1>2, StaysInside

-----------------------------------------------------------------------------
(* The theorems.                                                           *)

\* In every reachable state the tables say what the function did.
LEMMA Invariant == Spec => []IInv
<1>1. Init => IInv
  <2> SUFFICES ASSUME Init PROVE IInv
    OBVIOUS
  <2>1. OneFunction /\ Resumes
    BY BlankType DEF Init, OneFunction, Resumes
  <2>2. InOneFunction => FALSE
    BY DEF Init, InOneFunction, Inside
  <2>3. QED
    BY <2>1, <2>2, TypeStart DEF IInv
<1>2. IInv /\ [Next]_vars => IInv'
  <2> SUFFICES ASSUME IInv, [Next]_vars PROVE IInv'
    OBVIOUS
  <2>1. TypeOK' /\ OneFunction' /\ Resumes'
    BY TypeStep, OneFunctionStep, ResumesStep DEF IInv
  <2>2. ASSUME InOneFunction'
        PROVE  (~ err => SlotsFit)' /\ EntriesFit' /\ BorrowsFit' /\ PathsWereChecked'
    BY <2>2, SlotsStep, BorrowsStep, PathStep DEF IInv
  <2>3. QED
    BY <2>1, <2>2 DEF IInv
<1>3. QED
  BY <1>1, <1>2, PTL DEF Spec

\* Type correctness: no table ever holds more than its capacity, and what it holds is
\* an entry of its kind.
THEOREM TypeCorrect == Spec => []TypeOK
<1>1. IInv => TypeOK
  BY DEF IInv
<1>2. QED
  BY <1>1, Invariant, PTL

\* A handler that is reported as registered is the one the function assigned last,
\* and none is missing unless there were more signal actions than slots.
THEOREM RegisteredHandlersAreCurrent == Spec => []HandlersAreCurrent
<1>1. IInv => HandlersAreCurrent
  <2> SUFFICES ASSUME TypeOK, SlotsFit, NEW o \in Owner
               PROVE  \/ Registered(o) = history.handlers[o]
                      \/ Registered(o) = None /\ Cardinality(Assigned) > Capacity
    BY DEF IInv, HandlersAreCurrent
  <2>1. bound \in Nat /\ bound <= Capacity /\ Capacity \in Nat
    BY SizeAssumption DEF TypeOK
  <2>2. CASE SlotOf(o) \in 1 .. bound /\ bindings[SlotOf(o)].owner = o
    BY <2>1, <2>2 DEF Registered, SlotsFit
  <2>3. CASE SlotOf(o) = bound + 1 /\ \A i \in 1 .. bound : bindings[i].owner # o
    <3>1. Registered(o) = None
      BY <2>1, <2>3 DEF Registered
    <3>2. ASSUME history.handlers[o] # None PROVE Cardinality(Assigned) > Capacity
      <4>1. o \in Assigned
        BY <3>2 DEF Assigned
      <4>2. bound = Capacity
        BY <2>1, <2>3, <4>1 DEF SlotsFit
      <4>3. \A i \in 1 .. bound : bindings[i].owner \in Assigned \ {o}
        BY <2>3 DEF SlotsFit, Assigned
      <4> DEFINE f == [i \in 1 .. bound |-> bindings[i].owner]
      <4>4. /\ \A i \in 1 .. bound : f[i] \in Assigned \ {o}
            /\ \A i, j \in 1 .. bound : f[i] = f[j] => i = j
        BY <4>3 DEF SlotsFit
      <4>5. IsFiniteSet(Assigned)
        BY DEF SlotsFit
      <4> HIDE DEF f
      <4>6. Cardinality(Assigned) > bound
        BY <2>1, <4>1, <4>4, <4>5, OneTooMany
      <4>7. QED
        BY <4>2, <4>6
    <3>3. QED
      BY <3>1, <3>2
  <2>4. QED
    BY <2>1, <2>2, <2>3, Slot DEF SlotsFit
<1>2. QED
  BY <1>1, Invariant, PTL

\* A borrow is reported as invalidated only when a call has ended it since it was
\* taken, and every such borrow is reported while the variables fit the table.
THEOREM ReportedBorrowsAreSpent == Spec => []SpentBorrowsAreReported
<1>1. IInv => SpentBorrowsAreReported
  <2> SUFFICES ASSUME TypeOK, EntriesFit, BorrowsFit, NEW v \in Var \ history.crossed
               PROVE  /\ ReportsBorrow(v) => Spent(v)
                      /\ AllFit /\ ~ Ending /\ v \notin Borrowing =>
                           (Spent(v) => ReportsBorrow(v))
    BY DEF IInv, SpentBorrowsAreReported
  <2> PICK n \in Nat : n = Len(borrows) /\ DOMAIN borrows = 1 .. n
    BY LenProperties DEF TypeOK
  <2>1. ASSUME ReportsBorrow(v) PROVE Spent(v)
    BY <2>1 DEF ReportsBorrow, BorrowsFit, Fits, Falls
  <2>2. ASSUME AllFit, Spent(v) PROVE \E i \in 1 .. n : borrows[i].identity = v
    <3>1. v \in Known
      BY <2>2 DEF Known, Spent
    <3>2. SUFFICES ASSUME \A i \in 1 .. n : borrows[i].identity # v PROVE FALSE
      OBVIOUS
    <3>3. n = Capacity
      BY <3>1, <3>2, SizeAssumption DEF EntriesFit, TypeOK
    <3> DEFINE f == [i \in 1 .. n |-> borrows[i].identity]
    <3>4. /\ \A i \in 1 .. n : f[i] \in Known \ {v}
          /\ \A i, j \in 1 .. n : f[i] = f[j] => i = j
      BY <3>2 DEF EntriesFit
    <3>5. IsFiniteSet(Known)
      BY DEF EntriesFit
    <3> HIDE DEF f
    <3>6. Cardinality(Known) > n
      BY <3>1, <3>4, <3>5, OneTooMany
    <3>7. Cardinality(Known) \in Nat /\ Cardinality(Known) <= Capacity
      BY <2>2, <3>5, FS_CardinalityType DEF AllFit, Known
    <3>8. QED
      BY <3>3, <3>6, <3>7
  <2>3. ASSUME AllFit, ~ Ending, v \notin Borrowing, Spent(v) PROVE ReportsBorrow(v)
    <3>1. PICK i \in 1 .. n : borrows[i].identity = v
      BY <2>2, <2>3
    <3>2. Fits(borrows[i])
      BY DEF BorrowsFit
    <3>3. borrows[i].invalidated
      BY <2>3, <3>1, <3>2 DEF Fits, Stands, Spent
    <3>4. borrows[i].until = 0
      <4>1. \A k \in 1 .. Len(stack) : stack[k].call \in OpenCalls
        BY Open DEF TypeOK
      <4>2. borrows[i].until \in 0 .. Len(stack) /\ Len(stack) \in Nat
        BY <3>2, Open DEF Fits, Ends, TypeOK
      <4>3. QED
        BY <2>3, <3>2, <4>1, <4>2 DEF Fits, Ends, Ending
    <3>5. QED
      BY <3>1, <3>3, <3>4 DEF ReportsBorrow
  <2>4. QED
    BY <2>1, <2>3
<1>2. QED
  BY <1>1, Invariant, PTL

\* PATH_TOCTOU is reported only of a path that the function being visited checked.
THEOREM ReportedPathsWereChecked == Spec => []PathsWereChecked
<1>1. IInv => PathsWereChecked
  BY DEF IInv, PathsWereChecked
<1>2. QED
  BY <1>1, Invariant, PTL

\* UNCERTAIN_PROGRESS_RETRIED is reported exactly of the calls that repeat the last
\* call of uncertain progress of their function while it is unresolved.
THEOREM ReportedRetriesAreUnresolved == Spec => []RetriesAreUnresolved
<1>1. IInv => RetriesAreUnresolved
  BY DEF IInv, Resumes, RetriesAreUnresolved
<1>2. QED
  BY <1>1, Invariant, PTL

=============================================================================
