---------------------------- MODULE FunctionMemory ----------------------------
(***************************************************************************)
(* What the AST visitor remembers while it visits one function: which      *)
(* handler was assigned to which signal action, which variables hold a     *)
(* pointer borrowed from the environment, which path was checked, and      *)
(* which call of uncertain progress has not been resolved.  Later cursors  *)
(* of the function are reported according to these tables.                 *)
(*                                                                         *)
(* Cursors are met in preorder: a call is met before the calls in its      *)
(* arguments, although it takes effect after them.  Any tree of functions, *)
(* calls and assignments may be met.  Functions and assignments count in   *)
(* every file and calls in admitted ones; a call elsewhere is not met.     *)
(* What a cursor reports changes nothing but stopped.                      *)
(***************************************************************************)
EXTENDS Naturals, Sequences, FiniteSets

CONSTANTS
  Owner,       \* identities of signal actions, as left-hand sides spell them
  Handler,     \* functions assigned to them
  Var,         \* identities of variables that hold a borrowed pointer
  Path,        \* identities of paths
  Callee,      \* functions of uncertain progress
  Operation,   \* what they operate on
  None,        \* the empty identity, or one that could not be told
  Capacity,    \* SEMANTIC_IDENTITY_CAPACITY
  MaxNesting,  \* bound: functions and calls open at once, per language
  Programs     \* bound: what a translation unit is made of

\* The roles of the function a call refers to.
Call == [invalidates : BOOLEAN,            \* it ends every environment borrow
         borrower    : Var \cup {None},    \* what holds the borrow it returns
         checks      : Path \cup {None},   \* the path it checks
         resolves    : BOOLEAN,            \* it resolves uncertain progress
         uncertain   : Callee \cup {None}, \* itself, if its progress is uncertain
         operation   : Operation \cup {None}]

ASSUME NoneAssumption == None \notin UNION {Owner, Handler, Var, Path, Callee, Operation}
ASSUME SizeAssumption == Capacity \in Nat /\ MaxNesting \in [{"C", "C++"} -> Nat]
ASSUME ProgramAssumption == Programs \subseteq [calls : SUBSET Call, owners : SUBSET Owner]

VARIABLES
  language,  \* of the translation unit
  program,   \* the calls and signal actions it is made of
  bindings,  \* signal_action_bindings
  bound,     \* signal_action_binding_count
  borrows,   \* environment_borrows below environment_borrow_count
  path,      \* checked_path_identity
  progress,  \* uncertain_progress_usr and uncertain_progress_identity
  stack,     \* the functions and calls in progress, outermost first
  stopped,   \* context->stopped
  err,       \* whether the error object holds an error
  history    \* what really happened in the function being visited

tables == <<bindings, bound, borrows, path, progress>>
unit == <<language, program>>
vars == <<unit, tables, stack, stopped, err, history>>

Binding == [owner : Owner \cup {None}, handler : Handler \cup {None}]

\* until is the depth of the call the borrow ends with, 0 when that is past.
Borrow == [identity : Var, invalidated : BOOLEAN, until : Nat]

Progress == [usr : Callee \cup {None}, operation : Operation \cup {None}]
NoProgress == [usr |-> None, operation |-> None]

(***************************************************************************)
(* The account the notes are judged by, of one function at a time and in   *)
(* the order of evaluation: a call takes effect when its arguments have    *)
(* been evaluated.  A borrow is crossed when the two orders disagree.      *)
(***************************************************************************)
History == [handlers : [Owner -> Handler \cup {None}],
            borrowed : [Var -> {"no", "fresh", "spent"}],
            crossed  : SUBSET Var,
            checked  : SUBSET Path,
            last     : Progress]
Blank == [handlers |-> [o \in Owner |-> None], borrowed |-> [v \in Var |-> "no"],
          crossed |-> {}, checked |-> {}, last |-> NoProgress]

NoCall == [invalidates |-> FALSE, borrower |-> None, checks |-> None,
           resolves |-> FALSE, uncertain |-> None, operation |-> None]
Frame == [kind : {"function", "call"}, call : Call, saved : Progress, before : History]

Init ==
  /\ language \in {"C", "C++"}
  /\ program \in Programs
  /\ bindings = [i \in 1 .. Capacity |-> [owner |-> None, handler |-> None]]
  /\ bound = 0
  /\ borrows = << >>
  /\ path = None
  /\ progress = NoProgress
  /\ stack = << >>
  /\ stopped = FALSE
  /\ err = FALSE
  /\ history = Blank

-----------------------------------------------------------------------------
(* Functions.                                                              *)

Cursor ==
  /\ ~ stopped /\ Len(stack) < MaxNesting[language]
  /\ UNCHANGED <<unit, err>>

\* Only in C++ are there functions inside others, and calls outside them.
Nests == language = "C++"

PushFunction == stack' = Append(stack, [kind |-> "function", call |-> NoCall,
                                        saved |-> progress, before |-> history])
PushCall(c) == stack' = Append(stack, [kind |-> "call", call |-> c,
                                       saved |-> NoProgress, before |-> Blank])

\* Faults.  An operator named after a definition and a mistake
\* (EnterFunctionChecked) is that definition with the mistake in it; no other
\* definition uses it.
EnterFunctionChecked ==
  /\ Cursor
  /\ Nests \/ stack = << >>
  /\ PushFunction
  /\ bound' = 0 /\ borrows' = << >> /\ progress' = NoProgress
  /\ history' = Blank
  /\ UNCHANGED <<bindings, path, stopped>>

\* A function starts with empty tables; what the slots held stays in them.
EnterFunction ==
  /\ Cursor
  /\ Nests \/ stack = << >>
  /\ PushFunction
  /\ bound' = 0 /\ borrows' = << >> /\ path' = None /\ progress' = NoProgress
  /\ history' = Blank
  /\ UNCHANGED <<bindings, stopped>>

-----------------------------------------------------------------------------
(* remember_signal_action_binding                                          *)

Inside == Nests \/ stack # << >>

\* The slot to write: the owner's own, or the next one, which may not be there.
SlotOf(o) ==
  LET own == {i \in 1 .. bound : bindings[i].owner = o}
  IN  IF own = {} THEN bound + 1 ELSE CHOOSE i \in own : \A j \in own : i <= j

\* The slot is counted before it is known whether it can be filled.
Count(slot) == bound' = IF slot = bound + 1 THEN slot ELSE bound

BindAlways(o, h) ==
  /\ Cursor /\ Inside /\ o \in program.owners
  /\ IF bound < Capacity
     THEN /\ bindings' = [bindings EXCEPT ![bound + 1] = [owner |-> o, handler |-> h]]
          /\ Count(bound + 1)
     ELSE UNCHANGED <<bindings, bound>>
  /\ history' = [history EXCEPT !.handlers[o] = h]
  /\ UNCHANGED <<borrows, path, progress, stack, stopped>>

Bind(o, h) ==
  /\ Cursor /\ Inside /\ o \in program.owners
  /\ IF SlotOf(o) <= Capacity
     THEN /\ bindings' = [bindings EXCEPT ![SlotOf(o)] = [owner |-> o, handler |-> h]]
          /\ Count(SlotOf(o))
     ELSE UNCHANGED <<bindings, bound>>
  /\ history' = [history EXCEPT !.handlers[o] = h]
  /\ UNCHANGED <<borrows, path, progress, stack, stopped>>

\* The handler's name could not be copied: the slot keeps what it held.
BindFails(o, h) ==
  /\ ~ stopped /\ Len(stack) < MaxNesting[language]
  /\ Inside /\ o \in program.owners
  /\ SlotOf(o) <= Capacity /\ Count(SlotOf(o))
  /\ err' = TRUE
  /\ history' = [history EXCEPT !.handlers[o] = h]
  /\ UNCHANGED <<unit, bindings, borrows, path, progress, stack, stopped>>

-----------------------------------------------------------------------------
(* Calls.                                                                  *)

Invalidated(table, depth) ==
  [i \in DOMAIN table |-> [table[i] EXCEPT !.invalidated = TRUE, !.until = depth]]

FreshBorrow(v) == [identity |-> v, invalidated |-> FALSE, until |-> 0]

RememberedOnce(table, v) ==
  IF (\E i \in DOMAIN table : table[i].identity = v) \/ Len(table) >= Capacity
  THEN table ELSE Append(table, FreshBorrow(v))

RememberedOneTooMany(table, v) ==
  IF \E i \in DOMAIN table : table[i].identity = v
  THEN [i \in DOMAIN table |-> IF table[i].identity = v THEN FreshBorrow(v) ELSE table[i]]
  ELSE IF Len(table) <= Capacity THEN Append(table, FreshBorrow(v)) ELSE table

\* A variable has one entry; one that finds no room is not remembered.
Remembered(table, v) ==
  IF \E i \in DOMAIN table : table[i].identity = v
  THEN [i \in DOMAIN table |-> IF table[i].identity = v THEN FreshBorrow(v) ELSE table[i]]
  ELSE IF Len(table) < Capacity THEN Append(table, FreshBorrow(v)) ELSE table

\* A function may do both: its result is borrowed after it ended the others.
BorrowsAfter(c, depth) ==
  LET ended == IF c.invalidates THEN Invalidated(borrows, depth) ELSE borrows
  IN  IF c.borrower = None THEN ended ELSE Remembered(ended, c.borrower)

ProgressAfter(p, c) ==
  IF c.uncertain # None THEN [usr |-> c.uncertain, operation |-> c.operation]
  ELSE IF c.resolves THEN NoProgress ELSE p

OpenCalls == {stack[i].call : i \in DOMAIN stack}

\* A call in the arguments of another is met after it and happens before it.
Crossed(c) ==
  LET borrowers == {d.borrower : d \in OpenCalls} \ {None}
  IN  (history.crossed \ {c.borrower})
        \cup (IF c.invalidates THEN borrowers ELSE {})
        \cup (IF c.borrower # None /\ \E d \in OpenCalls : d.invalidates
              THEN {c.borrower} ELSE {})

Met(c) == history' = [history EXCEPT !.crossed = Crossed(c),
                                    !.checked = @ \cup ({c.checks} \ {None}),
                                    !.last = ProgressAfter(@, c)]

\* The call's own record is emitted first, and with it an earlier error ends
\* the visit.
EnterCall(c) ==
  /\ Cursor /\ Inside /\ c \in program.calls
  /\ ~ err
  /\ PushCall(c)
  /\ borrows' = BorrowsAfter(c, Len(stack) + 1)
  /\ path' = IF c.checks # None THEN c.checks ELSE path
  /\ progress' = ProgressAfter(progress, c)
  /\ Met(c)
  /\ UNCHANGED <<bindings, bound, stopped>>

\* What the call operates on could not be copied: the call counts as one on
\* something unknown, and the next record ends the visit.
EnterCallFails(c) ==
  /\ ~ stopped /\ Len(stack) < MaxNesting[language]
  /\ Inside /\ c \in program.calls
  /\ c.uncertain # None /\ c.operation # None /\ ~ err
  /\ err' = TRUE
  /\ PushCall(c)
  /\ borrows' = BorrowsAfter(c, Len(stack) + 1)
  /\ path' = IF c.checks # None THEN c.checks ELSE path
  /\ progress' = [usr |-> c.uncertain, operation |-> None]
  /\ Met(c)
  /\ UNCHANGED <<unit, bindings, bound, stopped>>

-----------------------------------------------------------------------------
(* The end of a cursor, and of the visit.                                  *)

Top == stack[Len(stack)]

\* The source behind the call lies beyond invalidated_after.
Passed(table, depth) ==
  [i \in DOMAIN table |-> IF table[i].until = depth THEN [table[i] EXCEPT !.until = 0]
                                                     ELSE table[i]]

Evaluated(borrowed, c) ==
  [v \in Var |-> IF v = c.borrower THEN "fresh"
                 ELSE IF c.invalidates /\ borrowed[v] = "fresh" THEN "spent"
                 ELSE borrowed[v]]

LeaveAnyAlike ==
  /\ stack # << >>
  /\ stack' = SubSeq(stack, 1, Len(stack) - 1)
  /\ borrows' = Passed(borrows, Len(stack))
  /\ history' = IF Top.kind = "function" THEN Top.before
                ELSE [history EXCEPT !.borrowed = Evaluated(@, Top.call)]
  /\ UNCHANGED <<unit, bindings, bound, path, progress, stopped, err>>

\* Of the tables only the uncertain progress is put back.
Leave ==
  /\ stack # << >>
  /\ stack' = SubSeq(stack, 1, Len(stack) - 1)
  /\ borrows' = Passed(borrows, Len(stack))
  /\ IF Top.kind = "function"
     THEN progress' = Top.saved /\ history' = Top.before
     ELSE /\ history' = [history EXCEPT !.borrowed = Evaluated(@, Top.call)]
          /\ UNCHANGED progress
  /\ UNCHANGED <<unit, bindings, bound, path, stopped, err>>

\* A record is emitted and refused, or is emitted with an error pending.
Stop ==
  /\ ~ stopped
  /\ stopped' = TRUE
  /\ UNCHANGED <<unit, tables, stack, err, history>>

Next ==
  \/ EnterFunction \/ Leave \/ Stop
  \/ \E o \in Owner, h \in Handler : Bind(o, h) \/ BindFails(o, h)
  \/ \E c \in program.calls : EnterCall(c) \/ EnterCallFails(c)

Spec == Init /\ [][Next]_vars

-----------------------------------------------------------------------------
(* Properties.                                                             *)

TypeOK ==
  /\ language \in {"C", "C++"} /\ program \in Programs
  /\ bindings \in [1 .. Capacity -> Binding] /\ bound \in 0 .. Capacity
  /\ borrows \in Seq(Borrow) /\ Len(borrows) <= Capacity
  /\ path \in Path \cup {None} /\ progress \in Progress
  /\ stack \in Seq(Frame) /\ Len(stack) <= MaxNesting[language]
  /\ {stopped, err} \subseteq BOOLEAN
  /\ history \in History

\* In C++ a local class's method empties the tables of the function around it.
InOneFunction == ~ Nests /\ Inside

(* SIGNAL_HANDLER_REGISTERED names the handler that this function assigned *)
(* last to the signal action it registers, never one a slot still held,    *)
(* not even when copying a name has failed: the error is heard first.  It  *)
(* is missing only when there were more signal actions than slots.         *)
Registered(o) == IF SlotOf(o) <= bound THEN bindings[SlotOf(o)].handler ELSE None
Assigned == {o \in Owner : history.handlers[o] # None}
HandlersAreCurrent ==
  InOneFunction /\ ~ stopped /\ ~ err =>
    \A o \in Owner :
      \/ Registered(o) = history.handlers[o]
      \/ Registered(o) = None /\ Cardinality(Assigned) > Capacity

(* ENV_BORROWED_POINTER_INVALIDATED is reported only of a variable whose   *)
(* borrow an evaluated call has ended since it was taken, unless one of    *)
(* the two calls stands in the arguments of the other.  And it is reported *)
(* of every such variable while there are no more of them than slots, but  *)
(* not inside a call that ends the borrows once more.                      *)
ReportsBorrow(v) ==
  \E i \in DOMAIN borrows :
    borrows[i].identity = v /\ borrows[i].invalidated /\ borrows[i].until = 0
Spent(v) == history.borrowed[v] = "spent"
Borrowing == {d.borrower : d \in OpenCalls} \ {None}
AllFit == Cardinality({v \in Var : history.borrowed[v] # "no"} \cup Borrowing) <= Capacity
Ending == \E d \in OpenCalls : d.invalidates
SpentBorrowsAreReported ==
  InOneFunction =>
    \A v \in Var \ history.crossed :
      /\ ReportsBorrow(v) => Spent(v)
      /\ AllFit /\ ~ Ending /\ v \notin Borrowing => (Spent(v) => ReportsBorrow(v))

(* PATH_TOCTOU is reported only of a path that the same function checked.  *)
PathsWereChecked == InOneFunction => path \in history.checked \cup {None}

(* UNCERTAIN_PROGRESS_RETRIED is reported exactly when the last call of    *)
(* uncertain progress in the same function was to the same callee, is      *)
(* known to be on the same operation, and has not been resolved since;     *)
(* functions inside the function do not disturb it.                        *)
Retries(p, c) ==
  /\ c.uncertain # None /\ ~ c.resolves
  /\ c.operation # None
  /\ p = [usr |-> c.uncertain, operation |-> c.operation]
RetriesAreUnresolved ==
  Inside /\ ~ stopped /\ ~ err =>
    \A c \in program.calls : Retries(progress, c) <=> Retries(history.last, c)

=============================================================================
