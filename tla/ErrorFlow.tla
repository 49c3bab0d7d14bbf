------------------------------ MODULE ErrorFlow ------------------------------
(***************************************************************************)
(* The error-flow notes of the AST visitor: which calls take an error      *)
(* object that an earlier call may have left set, and which results are    *)
(* read before anyone asked whether they are valid.                        *)
(*                                                                         *)
(* The visitor walks each translation unit in preorder with one mutable    *)
(* context.  visit_cursor lets a cursor report and change the context, and *)
(* puts part of it back when the cursor's children have been visited; what *)
(* it puts back differs between functions, conditionals and the rest.      *)
(*                                                                         *)
(* Any tree of cursors may be met here.  A cursor is a function            *)
(* definition, a conditional, a return, a call, or a leaf that matters: a  *)
(* goto to the function's final return, a reference to a variable, or an   *)
(* assignment to one.  Cursors outside the admitted files change none of   *)
(* what is modelled, except that scopes are scopes wherever they are.      *)
(***************************************************************************)
EXTENDS Naturals, Sequences, FiniteSets

CONSTANTS
  Error,       \* identities of error objects, as arguments spell them
  Var,         \* identities of variables that hold a call's result
  None,        \* the empty identity
  MaxNesting   \* bound: cursors open at once, for each language

ASSUME NoneAssumption == None \notin Error \cup Var
ASSUME NestingAssumption == MaxNesting \in [{"C", "C++"} -> Nat]

VARIABLES
  language, \* of the translation unit
  flow,     \* the fields of scan_context the error-flow notes use
  stack,    \* the visit_cursor calls in progress, outermost first
  stopped,  \* context->stopped
  history   \* what really happened in the function being visited so far

vars == <<language, flow, stack, stopped, history>>

Identity == Error \cup {None}

Flow == [pending     : Identity,          \* pending_error_identity
         checked     : Identity,          \* checked_error_identity
         result      : Var \cup {None},   \* pending_result_identity
         resultError : Identity,          \* pending_result_error_identity
         passed      : BOOLEAN,           \* pending_result_end lies behind
         reported    : BOOLEAN,           \* pending_result_reported
         depth       : Nat,               \* conditional_depth
         hasReturn   : BOOLEAN,           \* conditional_has_return
         inReturn    : BOOLEAN]           \* inside_return

NoResult(f) == [f EXCEPT !.result = None, !.resultError = None,
                         !.passed = TRUE, !.reported = FALSE]
Calm == [pending |-> None, checked |-> None, result |-> None, resultError |-> None,
         passed |-> TRUE, reported |-> FALSE, depth |-> 0, hasReturn |-> FALSE,
         inReturn |-> FALSE]

(***************************************************************************)
(* The account the notes are judged by.  It is kept for one function at a  *)
(* time; straight means outside every conditional.                         *)
(***************************************************************************)
History == [last     : Identity,               \* error of the last straight call
            queried  : SUBSET Error,           \* queried since, anywhere
            straight : SUBSET Error,           \* queried since, straight
            owed     : SUBSET (Var \X Error),  \* results with their error unqueried
            told     : SUBSET Var]             \* results already reported
Blank == [last |-> None, queried |-> {}, straight |-> {}, owed |-> {}, told |-> {}]

Scope == {"function", "conditional", "return", "call"}
Frame == [kind : Scope, saved : Flow, before : History, owner : BOOLEAN]

Init ==
  /\ language \in {"C", "C++"}
  /\ flow = Calm
  /\ stack = << >>
  /\ stopped = FALSE
  /\ history = Blank

-----------------------------------------------------------------------------
(* Cursors with children.                                                  *)

Cursor ==
  /\ ~ stopped /\ Len(stack) < MaxNesting[language]
  /\ UNCHANGED <<language, stopped>>

\* Only in C++ are there functions inside others, and calls outside them.
Nests == language = "C++"

\* Of the context it saves, a cursor keeps here what it will put back.
Saved(kind) ==
  CASE kind = "function" -> flow
    [] kind = "conditional" -> [Calm EXCEPT !.depth = flow.depth, !.inReturn = flow.inReturn,
                                            !.pending = flow.pending,
                                            !.hasReturn = flow.hasReturn]
    [] OTHER -> [Calm EXCEPT !.depth = flow.depth, !.inReturn = flow.inReturn]

Open(kind, owner) ==
  stack' = Append(stack, [kind |-> kind, saved |-> Saved(kind), owner |-> owner,
                          before |-> IF kind = "function" THEN history ELSE Blank])

\* Faults.  An operator named after a definition and a mistake
\* (EnterFunctionPending) is that definition with the mistake in it; no other
\* definition uses it.
EnterFunctionPending ==
  /\ Cursor
  /\ Nests \/ stack = << >>
  /\ Open("function", FALSE)
  /\ flow' = [flow EXCEPT !.checked = None]
  /\ history' = [history EXCEPT !.last = None, !.queried = {}, !.straight = {}]

\* A function starts with no error pending or checked, but in the middle of
\* whatever surrounds it; only C++ surrounds a function with anything.
EnterFunction ==
  /\ Cursor
  /\ Nests \/ stack = << >>
  /\ Open("function", FALSE)
  /\ flow' = [flow EXCEPT !.pending = None, !.checked = None]
  /\ history' = [history EXCEPT !.last = None, !.queried = {}, !.straight = {}]

EnterConditionalStale ==
  /\ Cursor
  /\ Open("conditional", FALSE)
  /\ flow' = NoResult([flow EXCEPT !.pending = None, !.depth = @ + 1,
                                   !.hasReturn = FALSE])
  /\ UNCHANGED history

EnterConditional ==
  /\ Cursor
  /\ Open("conditional", FALSE)
  /\ flow' = NoResult([flow EXCEPT !.pending = None, !.checked = None,
                                   !.depth = @ + 1, !.hasReturn = FALSE])
  /\ UNCHANGED history

Leaving(f) == [f EXCEPT !.hasReturn = @ \/ f.depth > 0]

EnterReturn ==
  /\ Cursor
  /\ Open("return", FALSE)
  /\ flow' = [Leaving(flow) EXCEPT !.inReturn = TRUE]
  /\ UNCHANGED history

-----------------------------------------------------------------------------
(* Calls.  A call queries an error object, takes one, or does neither.     *)

CallCursor == [query    : BOOLEAN,            \* record.is_error_state_query
               error    : Identity,           \* error_argument_identity
               discards : BOOLEAN,            \* call_discards_error
               result   : Var \cup {None}]    \* call_result_identity

Queries(c) == c.query /\ c.error # None

Queried(f, c) ==
  IF ~ Queries(c) THEN f
  ELSE LET g == [f EXCEPT !.checked = c.error,
                          !.pending = IF @ = c.error THEN None ELSE @]
       IN  IF f.resultError = c.error THEN NoResult(g) ELSE g

Takes(f, c) == ~ c.query /\ ~ c.discards /\ f.depth = 0 /\ c.error # None

Taken(f, c) ==
  IF ~ Takes(f, c) THEN f
  ELSE LET g == [f EXCEPT !.pending = c.error, !.result = c.result]
       IN  IF c.result = None THEN g
           ELSE [g EXCEPT !.resultError = c.error, !.passed = FALSE, !.reported = FALSE]

ReportsChain(c) == Takes(flow, c) /\ flow.pending = c.error

Without(owed, v) == {o \in owed : o[1] # v}

Account(h, c) ==
  IF Queries(c)
  THEN [h EXCEPT !.queried = @ \cup {c.error},
                 !.straight = IF flow.depth = 0 THEN @ \cup {c.error} ELSE @,
                 !.owed = {o \in @ : o[2] # c.error}]
  ELSE IF Takes(flow, c)
  THEN [h EXCEPT !.last = c.error, !.queried = {}, !.straight = {},
                 !.owed = IF c.result = None THEN @
                          ELSE Without(@, c.result) \cup {<<c.result, c.error>>},
                 !.told = @ \ {c.result}]
  ELSE h

EnterCall(c) ==
  /\ Cursor
  /\ Nests \/ stack # << >>
  /\ flow' = Taken(Queried(flow, c), c)
  /\ Open("call", Takes(flow, c) /\ c.result # None)
  /\ history' = Account(history, c)

-----------------------------------------------------------------------------
(* Leaves.                                                                 *)

Goto ==
  /\ Cursor
  /\ flow' = Leaving(flow)
  /\ UNCHANGED <<stack, history>>

\* A reference counts when it feeds a call or a return.
ReportsOutput(v) == flow.result = v /\ ~ flow.reported /\ flow.passed

Reference(v, consumed) ==
  /\ Cursor
  /\ IF consumed /\ ReportsOutput(v)
     THEN /\ flow' = [flow EXCEPT !.reported = TRUE]
          /\ history' = [history EXCEPT !.told = @ \cup {v}]
     ELSE UNCHANGED <<flow, history>>
  /\ UNCHANGED stack

\* What the arguments of a call assign is assigned before its result is.
Assign(v) ==
  /\ Cursor
  /\ IF flow.result = v /\ flow.passed
     THEN /\ flow' = NoResult(flow)
          /\ history' = [history EXCEPT !.owed = Without(@, v)]
     ELSE UNCHANGED <<flow, history>>
  /\ UNCHANGED stack

-----------------------------------------------------------------------------
(* The end of a cursor.                                                    *)

Top == stack[Len(stack)]

PutBackByCounting(s) == [flow EXCEPT !.depth = @ - 1, !.inReturn = s.inReturn]
PutBackInReturn(s) == [flow EXCEPT !.depth = s.depth]

\* What every cursor puts back.
PutBack(s) == [flow EXCEPT !.depth = s.depth, !.inReturn = s.inReturn]

AfterConditional(s) ==
  [PutBack(s) EXCEPT
     !.pending = IF flow.hasReturn /\ s.pending = flow.checked THEN None ELSE s.pending,
     !.hasReturn = s.hasReturn]

LeaveAnyScopeAlike ==
  /\ stack # << >>
  /\ stack' = SubSeq(stack, 1, Len(stack) - 1)
  /\ flow' = CASE Top.kind = "conditional" -> AfterConditional(Top.saved)
               [] Top.kind \in {"function", "return"} -> PutBack(Top.saved)
               [] Top.kind = "call" ->
                    [PutBack(Top.saved) EXCEPT !.passed = @ \/ Top.owner]
  /\ history' = IF Top.kind = "function" THEN Top.before ELSE history
  /\ UNCHANGED <<language, stopped>>

Leave ==
  /\ stack # << >>
  /\ stack' = SubSeq(stack, 1, Len(stack) - 1)
  /\ flow' = CASE Top.kind = "function"    -> Top.saved
               [] Top.kind = "conditional" -> AfterConditional(Top.saved)
               [] Top.kind = "return"      -> PutBack(Top.saved)
               [] Top.kind = "call"        ->
                    [PutBack(Top.saved) EXCEPT !.passed = @ \/ Top.owner]
  /\ history' = IF Top.kind = "function" THEN Top.before ELSE history
  /\ UNCHANGED <<language, stopped>>

\* The observer refuses the cursor's record, or an error is raised over it.
Refuse ==
  /\ ~ stopped
  /\ stopped' = TRUE
  /\ UNCHANGED <<language, flow, stack, history>>

Next ==
  \/ EnterFunction \/ EnterConditional \/ EnterReturn
  \/ \E c \in CallCursor : EnterCall(c)
  \/ Goto
  \/ \E v \in Var : Assign(v) \/ \E consumed \in BOOLEAN : Reference(v, consumed)
  \/ Leave \/ Refuse

Spec == Init /\ [][Next]_vars

-----------------------------------------------------------------------------
(* Properties.                                                             *)

TypeOK ==
  /\ language \in {"C", "C++"}
  /\ flow \in Flow
  /\ stack \in Seq(Frame) /\ Len(stack) <= MaxNesting[language]
  /\ stopped \in BOOLEAN
  /\ history \in History

(* However deep the tree and wherever the visit breaks off, the context    *)
(* says of each cursor what its ancestors say: how many conditionals are   *)
(* around it, and whether a return is.                                     *)
Around(kind) == {i \in DOMAIN stack : stack[i].kind = kind}
ScopeMatchesAncestry ==
  /\ flow.inReturn = (Around("return") # {})
  /\ flow.depth = Cardinality(Around("conditional"))

(* ERROR_UNCHECKED_CHAIN is never reported of an error that was asked for  *)
(* on the way: the last call before this one took the same error, and      *)
(* nobody has queried it since on the straight path between them.          *)
ChainsAreUnchecked ==
  \A c \in CallCursor : ReportsChain(c) =>
    history.last = c.error /\ c.error \notin history.straight

(* And it is always reported when the same error is passed to two calls in *)
(* a row with no query of it between them, not even in a branch.           *)
ChainsAreFound ==
  \A c \in CallCursor :
    Takes(flow, c) /\ history.last = c.error /\ c.error \notin history.queried
      => ReportsChain(c)

(* ERROR_OUTPUT_UNCHECKED is reported only of a variable that holds the    *)
(* result of a call whose error nobody has queried since, and once.        *)
OutputsAreUnchecked ==
  \A v \in Var : ReportsOutput(v) =>
    <<v, flow.resultError>> \in history.owed /\ v \notin history.told

=============================================================================
