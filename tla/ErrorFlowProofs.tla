--------------------------- MODULE ErrorFlowProofs ---------------------------
(***************************************************************************)
(* What the error-flow notes mean in every tree of cursors, however deep   *)
(* it nests and wherever the visit breaks off.                             *)
(***************************************************************************)
EXTENDS ErrorFlow, FiniteSetTheorems, SequenceTheorems, TLAPS

Conditionals(k) == {i \in 1 .. k - 1 : stack[i].kind = "conditional"}
InReturn(k) == \E i \in 1 .. k - 1 : stack[i].kind = "return"

\* What the cursors before place k of the stack say of the context.
Says(f, k) ==
  /\ f.inReturn = InReturn(k)
  /\ f.depth = Cardinality(Conditionals(k))

Scoped ==
  /\ Says(flow, Len(stack) + 1)
  /\ \A k \in 1 .. Len(stack) : Says(stack[k].saved, k)

\* What is pending is what the last call took, unless it was asked for since.
Pending(f, h) ==
  f.depth = 0 =>
    /\ f.pending # None => h.last = f.pending /\ f.pending \notin h.straight
    /\ h.last # None /\ h.last \notin h.queried => f.pending = h.last

\* Inside a conditional, what was checked was asked for since the last call.
Checked(f, h) == f.depth > 0 /\ f.checked # None => f.checked \in h.queried

\* The result that is watched is owed a query of its error.
Owed(f, h) ==
  f.result # None =>
    /\ <<f.result, f.resultError>> \in h.owed
    /\ ~ f.reported => f.result \notin h.told

Judged(f, h) == Pending(f, h) /\ Checked(f, h) /\ Owed(f, h)

\* No function begins between two places of the stack.
Within(k, j) == \A i \in k + 1 .. j - 1 : stack[i].kind # "function"

\* A function gives back a context and an account that fit together.
FunctionsFit ==
  \A k \in 1 .. Len(stack) :
    stack[k].kind = "function" => Judged(stack[k].saved, stack[k].before)

\* What a conditional gives back fits the account of the function it is in, even
\* while a function inside it has an account of its own.
BranchesFit ==
  \A k \in 1 .. Len(stack) : stack[k].kind = "conditional" =>
    /\ Within(k, Len(stack) + 1) => Pending(stack[k].saved, history)
    /\ \A j \in k + 1 .. Len(stack) :
         stack[j].kind = "function" /\ Within(k, j) =>
           Pending(stack[k].saved, stack[j].before)

IInv == TypeOK /\ Scoped /\ Judged(flow, history) /\ FunctionsFit /\ BranchesFit

-----------------------------------------------------------------------------
(* The stack of cursors.                                                   *)

\* A cursor is entered: its frame comes last, and the others stay.
LEMMA Pushed ==
  ASSUME NEW s \in Seq(Frame), NEW f \in Frame
  PROVE  /\ Append(s, f) \in Seq(Frame)
         /\ Len(s) \in Nat /\ Len(Append(s, f)) = Len(s) + 1
         /\ Append(s, f)[Len(s) + 1] = f
         /\ \A k \in 1 .. Len(s) : Append(s, f)[k] = s[k]
OBVIOUS

\* A cursor is left: its frame goes, and the others stay.
LEMMA Popped ==
  ASSUME NEW s \in Seq(Frame), s # << >>, NEW t, t = SubSeq(s, 1, Len(s) - 1)
  PROVE  /\ t \in Seq(Frame)
         /\ Len(s) \in Nat \ {0} /\ Len(t) = Len(s) - 1
         /\ \A k \in 1 .. Len(s) - 1 : t[k] = s[k]
<1>1. Len(s) \in Nat \ {0}
  BY EmptySeq
<1>2. \A i \in 1 .. Len(s) - 1 : s[i] \in Frame
  BY <1>1, ElementOfSeq
<1>3. 1 \in Int /\ Len(s) - 1 \in Int
  BY <1>1
<1>4. /\ t \in Seq(Frame)
      /\ Len(t) = IF 1 <= Len(s) - 1 THEN Len(s) - 1 - 1 + 1 ELSE 0
      /\ \A i \in 1 .. Len(s) - 1 - 1 + 1 : t[i] = s[1 + i - 1]
  BY <1>2, <1>3, SubSeqProperties
<1>5. Len(t) = Len(s) - 1
  <2>1. \A n \in Nat \ {0} : (IF 1 <= n - 1 THEN n - 1 - 1 + 1 ELSE 0) = n - 1
    OBVIOUS
  <2>2. QED
    BY <1>1, <1>4, <2>1
<1>6. ASSUME NEW k \in 1 .. Len(s) - 1 PROVE t[k] = s[k]
  <2>1. k \in 1 .. Len(s) - 1 - 1 + 1 /\ 1 + k - 1 = k
    BY <1>1
  <2>2. QED
    BY <1>4, <2>1
<1>7. QED
  BY <1>1, <1>4, <1>5, <1>6

\* What is kept of the context for the end of a cursor is a context.
LEMMA SavedType ==
  ASSUME flow \in Flow, NEW kind \in Scope
  PROVE  /\ Saved(kind) \in Flow
         /\ Saved(kind).depth = flow.depth /\ Saved(kind).inReturn = flow.inReturn
         /\ kind = "conditional" => Saved(kind).pending = flow.pending
         /\ kind = "function" => Saved(kind) = flow
<1>1. Calm \in Flow
  BY DEF Calm, Flow, Identity
<1>2. QED
  BY <1>1 DEF Saved, Flow, Scope

\* A cursor that is entered leaves such a frame, and a function's keeps the account.
LEMMA OpenType ==
  ASSUME TypeOK, NEW kind \in Scope, NEW owner \in BOOLEAN, Open(kind, owner)
  PROVE  \E f \in Frame :
           /\ stack' = Append(stack, f) /\ f.kind = kind /\ f.saved = Saved(kind)
           /\ kind = "function" => f.before = history
<1> DEFINE before == IF kind = "function" THEN history ELSE Blank
           f == [kind |-> kind, saved |-> Saved(kind), owner |-> owner, before |-> before]
<1>1. before \in History
  BY DEF TypeOK, Blank, History, Identity
<1>2. f \in Frame
  BY <1>1, SavedType DEF TypeOK, Frame
<1>3. stack' = Append(stack, f)
  BY DEF Open
<1>4. f.kind = kind /\ f.saved = Saved(kind) /\ (kind = "function" => f.before = history)
  OBVIOUS
<1>5. QED
  BY <1>2, <1>3, <1>4

\* The types hold at the start.
LEMMA TypeStart == Init => TypeOK
<1> SUFFICES ASSUME Init PROVE TypeOK
  OBVIOUS
<1>1. flow \in Flow
  BY DEF Init, Calm, Flow, Identity
<1>2. history \in History
  BY DEF Init, Blank, History, Identity
<1>3. stack \in Seq(Frame) /\ Len(stack) <= MaxNesting[language]
  BY NestingAssumption DEF Init
<1>4. QED
  BY <1>1, <1>2, <1>3 DEF Init, TypeOK

\* Entering a cursor keeps the types when the context and the account keep theirs.
LEMMA CursorType ==
  ASSUME TypeOK, Cursor, NEW kind \in Scope, NEW owner \in BOOLEAN, Open(kind, owner),
         flow' \in Flow, history' \in History
  PROVE  TypeOK'
<1>1. PICK f \in Frame : stack' = Append(stack, f)
  BY OpenType
<1>2. stack' \in Seq(Frame) /\ Len(stack') = Len(stack) + 1 /\ Len(stack) \in Nat
  BY <1>1, Pushed DEF TypeOK
<1>3. Len(stack') <= MaxNesting[language']
  BY <1>2, NestingAssumption DEF Cursor, TypeOK
<1>4. QED
  BY <1>2, <1>3 DEF TypeOK, Cursor

\* What a call makes of the context and of the account is of their types.
LEMMA CallType ==
  ASSUME TypeOK, NEW c \in CallCursor
  PROVE  /\ Queried(flow, c) \in Flow
         /\ Taken(Queried(flow, c), c) \in Flow
         /\ Account(history, c) \in History
<1>1. c.error \in Identity /\ c.result \in Var \cup {None}
  BY DEF CallCursor
<1>2. Queried(flow, c) \in Flow
  BY <1>1 DEF TypeOK, Queried, NoResult, Flow, Identity
<1>3. Taken(Queried(flow, c), c) \in Flow
  BY <1>1, <1>2 DEF Taken, Flow
<1>4. Account(history, c) \in History
  <2>1. CASE Queries(c)
    BY <2>1 DEF TypeOK, Account, History, CallCursor, Queries, Identity
  <2>2. CASE ~ Queries(c) /\ Takes(flow, c)
    <3>1. c.result # None => Without(history.owed, c.result) \cup {<<c.result, c.error>>}
                             \subseteq Var \X Error
      BY <1>1, <2>2 DEF TypeOK, History, Takes, Without, Identity
    <3>2. QED
      BY <1>1, <2>2, <3>1 DEF TypeOK, Account, History
  <2>3. CASE ~ Queries(c) /\ ~ Takes(flow, c)
    BY <2>3 DEF TypeOK, Account
  <2>4. QED
    BY <2>1, <2>2, <2>3
<1>5. QED
  BY <1>2, <1>3, <1>4

\* Each action keeps the types.
LEMMA TypeStep == TypeOK /\ [Next]_vars => TypeOK'
<1> SUFFICES ASSUME TypeOK, [Next]_vars PROVE TypeOK'
  OBVIOUS
<1>1. CASE EnterFunction
  <2>1. flow' \in Flow /\ history' \in History
    BY <1>1 DEF EnterFunction, TypeOK, Flow, History, Identity
  <2>2. QED
    BY <1>1, <2>1, CursorType DEF EnterFunction, Scope
<1>2. CASE EnterConditional
  <2>1. flow' \in Flow
    <3> DEFINE g == [flow EXCEPT !.pending = None, !.checked = None,
                                 !.depth = @ + 1, !.hasReturn = FALSE]
    <3>1. g \in Flow
      <4>1. flow \in Flow /\ flow.depth + 1 \in Nat
        BY DEF TypeOK, Flow
      <4>2. QED
        BY <4>1 DEF Flow, Identity
    <3>2. NoResult(g) \in Flow
      BY <3>1 DEF NoResult, Flow, Identity
    <3>3. QED
      BY <1>2, <3>2 DEF EnterConditional
  <2>2. history' \in History
    BY <1>2 DEF EnterConditional, TypeOK
  <2>3. QED
    BY <1>2, <2>1, <2>2, CursorType DEF EnterConditional, Scope
<1>3. CASE EnterReturn
  <2>1. flow' \in Flow /\ history' \in History
    BY <1>3 DEF EnterReturn, Leaving, TypeOK, Flow
  <2>2. QED
    BY <1>3, <2>1, CursorType DEF EnterReturn, Scope
<1>4. ASSUME NEW c \in CallCursor, EnterCall(c) PROVE TypeOK'
  <2>1. flow' \in Flow /\ history' \in History
    BY <1>4, CallType DEF EnterCall
  <2>2. (Takes(flow, c) /\ c.result # None) \in BOOLEAN
    BY DEF Takes
  <2>3. QED
    BY <1>4, <2>1, <2>2, CursorType DEF EnterCall, Scope
<1>5. CASE Goto
  <2>1. flow' \in Flow
    BY <1>5 DEF Goto, Leaving, TypeOK, Flow
  <2>2. QED
    BY <1>5, <2>1 DEF Goto, Cursor, TypeOK
<1>6. ASSUME NEW v \in Var, Assign(v) PROVE TypeOK'
  <2>1. flow' \in Flow
    BY <1>6 DEF Assign, NoResult, TypeOK, Flow, Identity
  <2>2. history' \in History
    BY <1>6 DEF Assign, Without, TypeOK, History
  <2>3. QED
    BY <1>6, <2>1, <2>2 DEF Assign, Cursor, TypeOK
<1>7. ASSUME NEW v \in Var, NEW consumed \in BOOLEAN, Reference(v, consumed)
      PROVE  TypeOK'
  <2>1. flow' \in Flow
    BY <1>7 DEF Reference, TypeOK, Flow
  <2>2. history' \in History
    BY <1>7 DEF Reference, TypeOK, History
  <2>3. QED
    BY <1>7, <2>1, <2>2 DEF Reference, Cursor, TypeOK
<1>8. CASE Leave
  <2>1. /\ stack' \in Seq(Frame) /\ Len(stack') = Len(stack) - 1
        /\ Len(stack) \in Nat \ {0}
    BY <1>8, Popped DEF Leave, TypeOK
  <2>2. Top \in Frame
    BY <2>1, ElementOfSeq DEF Top, TypeOK
  <2>3. flow' \in Flow
    <3>1. Top.saved \in Flow /\ Top.owner \in BOOLEAN /\ flow \in Flow
      BY <2>2 DEF Frame, TypeOK
    <3>2. CASE Top.kind = "conditional"
      BY <1>8, <3>1, <3>2 DEF Leave, PutBack, AfterConditional, Flow, Identity
    <3>3. CASE Top.kind \in {"function", "return"}
      BY <1>8, <3>1, <3>3 DEF Leave, PutBack, Flow
    <3>4. CASE Top.kind = "call"
      BY <1>8, <3>1, <3>4 DEF Leave, PutBack, Flow
    <3>5. QED
      BY <2>2, <3>2, <3>3, <3>4 DEF Frame, Scope
  <2>4. history' \in History
    BY <1>8, <2>2 DEF Leave, Frame, TypeOK
  <2>5. Len(stack') <= MaxNesting[language']
    BY <1>8, <2>1, NestingAssumption DEF Leave, TypeOK
  <2>6. QED
    BY <1>8, <2>1, <2>3, <2>4, <2>5 DEF Leave, TypeOK
<1>9. CASE Refuse
  BY <1>9 DEF Refuse, TypeOK
<1>10. CASE UNCHANGED vars
  BY <1>10 DEF vars, TypeOK
<1>11. QED
  BY <1>1, <1>2, <1>3, <1>4, <1>5, <1>6, <1>7, <1>8, <1>9, <1>10 DEF Next

-----------------------------------------------------------------------------
(* The context says of each cursor what its ancestors say.                 *)

\* What the cursors before a place say depends on them alone.
LEMMA ScopesKept ==
  ASSUME NEW k \in Nat, \A i \in 1 .. k - 1 : stack'[i] = stack[i]
  PROVE  Conditionals(k)' = Conditionals(k) /\ InReturn(k)' = InReturn(k)
BY DEF Conditionals, InReturn

\* One more conditional counts one more.
LEMMA OneMore ==
  ASSUME NEW k \in Nat \ {0}
  PROVE  /\ Cardinality(Conditionals(k)) \in Nat
         /\ Cardinality(Conditionals(k) \cup {k}) = Cardinality(Conditionals(k)) + 1
<1>1. IsFiniteSet(1 .. k - 1)
  BY FS_Interval
<1>2. Conditionals(k) \subseteq 1 .. k - 1 /\ k \notin 1 .. k - 1
  BY DEF Conditionals
<1>3. IsFiniteSet(Conditionals(k)) /\ k \notin Conditionals(k)
  BY <1>1, <1>2, FS_Subset
<1>4. QED
  BY <1>3, FS_AddElement, FS_CardinalityType

\* Entering a cursor keeps the scopes true when the context counts the cursor.
LEMMA ScopesPushed ==
  ASSUME TypeOK, Scoped, NEW f \in Frame, stack' = Append(stack, f),
         f.saved.depth = flow.depth, f.saved.inReturn = flow.inReturn,
         flow'.depth = IF f.kind = "conditional" THEN flow.depth + 1 ELSE flow.depth,
         flow'.inReturn = (flow.inReturn \/ f.kind = "return")
  PROVE  Scoped'
<1> PICK n \in Nat : n = Len(stack)
  BY Pushed DEF TypeOK
<1>1. /\ Len(stack') = n + 1 /\ stack'[n + 1] = f
      /\ \A k \in 1 .. n : stack'[k] = stack[k]
  BY Pushed DEF TypeOK
<1>2. ASSUME NEW k \in 1 .. n + 1
      PROVE  Conditionals(k)' = Conditionals(k) /\ InReturn(k)' = InReturn(k)
  BY <1>1, ScopesKept
<1>3. /\ flow.inReturn = InReturn(n + 1)
      /\ flow.depth = Cardinality(Conditionals(n + 1))
  BY DEF Scoped, Says
<1>4. ASSUME NEW k \in 1 .. n + 1 PROVE Says(stack[k].saved, k)'
  <2>1. CASE k = n + 1
    BY <1>1, <1>2, <1>3, <2>1 DEF Says
  <2>2. CASE k \in 1 .. n
    <3>1. Says(stack[k].saved, k)
      BY <2>2 DEF Scoped
    <3>2. stack'[k] = stack[k]
      BY <1>1, <2>2
    <3>3. QED
      BY <1>2, <3>1, <3>2 DEF Says
  <2>3. QED
    BY <2>1, <2>2
<1>5. /\ Cardinality(Conditionals(n + 2))' = flow'.depth
      /\ InReturn(n + 2)' <=> flow'.inReturn
  <2>1. Conditionals(n + 2)' = IF f.kind = "conditional" THEN Conditionals(n + 1) \cup {n + 1}
                                                         ELSE Conditionals(n + 1)
    BY <1>1 DEF Conditionals
  <2>2. InReturn(n + 2)' <=> InReturn(n + 1) \/ f.kind = "return"
    BY <1>1 DEF InReturn
  <2>3. n + 1 \in Nat \ {0}
    OBVIOUS
  <2>4. QED
    BY <1>3, <2>1, <2>2, <2>3, OneMore
<1>6. Says(flow, Len(stack) + 1)'
  <2>1. Len(stack') + 1 = n + 2
    BY <1>1
  <2>2. QED
    BY <1>5, <2>1 DEF Says, Conditionals, InReturn
<1>7. QED
  BY <1>1, <1>4, <1>6 DEF Scoped

\* Leaving a cursor keeps the scopes true when the context is put back.
LEMMA ScopesPopped ==
  ASSUME TypeOK, Scoped, stack # << >>, stack' = SubSeq(stack, 1, Len(stack) - 1),
         flow'.depth = Top.saved.depth, flow'.inReturn = Top.saved.inReturn
  PROVE  Scoped'
<1> PICK n \in Nat \ {0} : n = Len(stack)
  BY Popped DEF TypeOK
<1>1. Len(stack') = n - 1 /\ \A k \in 1 .. n - 1 : stack'[k] = stack[k]
  BY Popped DEF TypeOK
<1>2. ASSUME NEW k \in 1 .. n
      PROVE  Conditionals(k)' = Conditionals(k) /\ InReturn(k)' = InReturn(k)
  BY <1>1, ScopesKept
<1>3. ASSUME NEW k \in 1 .. n - 1 PROVE Says(stack[k].saved, k)'
  BY <1>1, <1>2 DEF Scoped, Says
<1>4. flow'.depth = Cardinality(Conditionals(n))' /\ flow'.inReturn = InReturn(n)'
  BY <1>2 DEF Scoped, Says, Top
<1>5. Says(flow, Len(stack) + 1)'
  <2>1. Len(stack') + 1 = n
    BY <1>1
  <2>2. QED
    BY <1>4, <2>1 DEF Says, Conditionals, InReturn
<1>6. QED
  BY <1>1, <1>3, <1>5 DEF Scoped

\* And a step that opens and closes nothing leaves them alone.
LEMMA ScopesStay ==
  ASSUME TypeOK, Scoped, stack' = stack,
         flow'.depth = flow.depth, flow'.inReturn = flow.inReturn
  PROVE  Scoped'
<1>1. Says(flow, Len(stack) + 1)'
  BY DEF Scoped, Says, Conditionals, InReturn
<1>2. \A k \in 1 .. Len(stack) : Says(stack[k].saved, k)'
  BY DEF Scoped, Says, Conditionals, InReturn
<1>3. QED
  BY <1>1, <1>2 DEF Scoped

\* The scopes are right at the start, where nothing is open.
LEMMA ScopeStart == Init => Scoped
<1> SUFFICES ASSUME Init PROVE Scoped
  OBVIOUS
<1>1. Conditionals(1) = {} /\ InReturn(1) = FALSE
  BY DEF Conditionals, InReturn
<1>2. Cardinality({}) = 0
  BY FS_EmptySet
<1>3. Len(stack) = 0 /\ Len(stack) + 1 = 1
  BY DEF Init
<1>4. Says(flow, 1)
  <2>1. flow.depth = 0 /\ flow.inReturn = FALSE
    BY DEF Init, Calm
  <2>2. QED
    BY <1>1, <1>2, <2>1 DEF Says
<1>5. QED
  BY <1>3, <1>4 DEF Scoped

\* And each action keeps them right.
LEMMA ScopeStep == TypeOK /\ Scoped /\ [Next]_vars => Scoped'
<1> SUFFICES ASSUME TypeOK, Scoped, [Next]_vars PROVE Scoped'
  OBVIOUS
<1>1. CASE EnterFunction
  <2>1. flow'.depth = flow.depth /\ flow'.inReturn = flow.inReturn
    BY <1>1 DEF EnterFunction, TypeOK, Flow
  <2>2. \E f \in Frame : stack' = Append(stack, f) /\ f.kind = "function"
                          /\ f.saved = Saved("function")
    BY <1>1, OpenType DEF EnterFunction, Scope
  <2>3. QED
    BY <2>1, <2>2, SavedType, ScopesPushed DEF TypeOK, Flow, Scope
<1>2. CASE EnterConditional
  <2>1. flow'.depth = flow.depth + 1 /\ flow'.inReturn = flow.inReturn
    BY <1>2 DEF EnterConditional, NoResult, TypeOK, Flow
  <2>2. \E f \in Frame : stack' = Append(stack, f) /\ f.kind = "conditional"
                          /\ f.saved = Saved("conditional")
    BY <1>2, OpenType DEF EnterConditional, Scope
  <2>3. QED
    BY <2>1, <2>2, SavedType, ScopesPushed DEF TypeOK, Flow, Scope
<1>3. CASE EnterReturn
  <2>1. flow'.depth = flow.depth /\ flow'.inReturn = TRUE
    BY <1>3 DEF EnterReturn, Leaving, TypeOK, Flow
  <2>2. \E f \in Frame : stack' = Append(stack, f) /\ f.kind = "return"
                          /\ f.saved = Saved("return")
    BY <1>3, OpenType DEF EnterReturn, Scope
  <2>3. QED
    BY <2>1, <2>2, SavedType, ScopesPushed DEF TypeOK, Flow, Scope
<1>4. ASSUME NEW c \in CallCursor, EnterCall(c) PROVE Scoped'
  <2>1. flow'.depth = flow.depth /\ flow'.inReturn = flow.inReturn
    <3>1. Queried(flow, c).depth = flow.depth /\ Queried(flow, c).inReturn = flow.inReturn
      BY DEF Queried, NoResult, TypeOK, Flow
    <3>2. /\ Taken(Queried(flow, c), c).depth = Queried(flow, c).depth
          /\ Taken(Queried(flow, c), c).inReturn = Queried(flow, c).inReturn
      BY CallType DEF Taken, Flow
    <3>3. QED
      BY <1>4, <3>1, <3>2 DEF EnterCall
  <2>2. \E f \in Frame : stack' = Append(stack, f) /\ f.kind = "call"
                          /\ f.saved = Saved("call")
    <3>1. (Takes(flow, c) /\ c.result # None) \in BOOLEAN
      BY DEF Takes
    <3>2. QED
      BY <1>4, <3>1, OpenType DEF EnterCall, Scope
  <2>3. QED
    BY <2>1, <2>2, SavedType, ScopesPushed DEF TypeOK, Flow, Scope
<1>5. CASE Goto
  BY <1>5, ScopesStay DEF Goto, Leaving, TypeOK, Flow
<1>6. ASSUME NEW v \in Var, Assign(v) PROVE Scoped'
  BY <1>6, ScopesStay DEF Assign, NoResult, TypeOK, Flow
<1>7. ASSUME NEW v \in Var, NEW consumed \in BOOLEAN, Reference(v, consumed)
      PROVE  Scoped'
  BY <1>7, ScopesStay DEF Reference, TypeOK, Flow
<1>8. CASE Leave
  <2>1. Top \in Frame
    BY <1>8, Popped, ElementOfSeq DEF Leave, Top, TypeOK
  <2>2. flow'.depth = Top.saved.depth /\ flow'.inReturn = Top.saved.inReturn
    BY <1>8, <2>1 DEF Leave, PutBack, AfterConditional, TypeOK, Flow, Frame, Scope
  <2>3. QED
    BY <1>8, <2>2, ScopesPopped DEF Leave
<1>9. CASE Refuse \/ UNCHANGED vars
  BY <1>9, ScopesStay DEF Refuse, vars
<1>10. QED
  BY <1>1, <1>2, <1>3, <1>4, <1>5, <1>6, <1>7, <1>8, <1>9 DEF Next

-----------------------------------------------------------------------------
(* The notes and the account they are judged by.                           *)

\* A straight place has no conditional around it, and one in a branch has.
LEMMA Straight ==
  ASSUME TypeOK, Scoped
  PROVE  /\ flow.depth = 0 => \A k \in 1 .. Len(stack) : stack[k].kind # "conditional"
         /\ stack # << >> => IF Top.kind = "conditional" THEN flow.depth = Top.saved.depth + 1
                             ELSE flow.depth = Top.saved.depth
<1> PICK n \in Nat : n = Len(stack)
  BY Pushed DEF TypeOK
<1>1. flow.depth = Cardinality(Conditionals(n + 1))
  BY DEF Scoped, Says
<1>2. ASSUME flow.depth = 0, NEW k \in 1 .. n PROVE stack[k].kind # "conditional"
  <2>1. IsFiniteSet(1 .. n)
    BY FS_Interval
  <2>2. Conditionals(n + 1) \subseteq 1 .. n
    BY DEF Conditionals
  <2>3. Conditionals(n + 1) = {}
    BY <1>1, <1>2, <2>1, <2>2, FS_Subset, FS_EmptySet
  <2>4. QED
    BY <2>3 DEF Conditionals
<1>3. ASSUME stack # << >>
      PROVE  IF Top.kind = "conditional" THEN flow.depth = Top.saved.depth + 1
             ELSE flow.depth = Top.saved.depth
  <2>1. n \in Nat \ {0}
    BY <1>3, EmptySeq DEF TypeOK
  <2>2. Top.saved.depth = Cardinality(Conditionals(n))
    BY <2>1 DEF Scoped, Says, Top
  <2>3. Conditionals(n + 1) = IF Top.kind = "conditional" THEN Conditionals(n) \cup {n}
                                                         ELSE Conditionals(n)
    BY <2>1 DEF Conditionals, Top
  <2>4. QED
    BY <1>1, <2>1, <2>2, <2>3, OneMore
<1>4. QED
  BY <1>2, <1>3

\* Entering a call leaves the notes right, whatever the call is.
LEMMA CallJudged ==
  ASSUME TypeOK, Judged(flow, history), NEW c \in CallCursor, EnterCall(c)
  PROVE  Judged(flow, history)'
<1>1. flow \in Flow /\ history \in History
  BY DEF TypeOK
<1>2. flow' = Taken(Queried(flow, c), c) /\ history' = Account(history, c)
  BY DEF EnterCall
<1>3. CASE Queries(c)
  <2>1. flow' = Queried(flow, c)
    BY <1>2, <1>3 DEF Taken, Takes, Queries
  <2>2. /\ flow'.depth = flow.depth /\ flow'.checked = c.error
        /\ flow'.pending = IF flow.pending = c.error THEN None ELSE flow.pending
        /\ flow'.result # None =>
             /\ flow.resultError # c.error /\ flow'.result = flow.result
             /\ flow'.resultError = flow.resultError /\ flow'.reported = flow.reported
    BY <1>1, <1>3, <2>1 DEF Queried, NoResult, Flow
  <2>3. /\ history'.last = history.last /\ history'.told = history.told
        /\ history'.queried = history.queried \cup {c.error}
        /\ history'.straight = IF flow.depth = 0 THEN history.straight \cup {c.error}
                                                ELSE history.straight
        /\ history'.owed = {o \in history.owed : o[2] # c.error}
    BY <1>1, <1>2, <1>3 DEF Account, History
  <2>4. Pending(flow, history)'
    BY <2>2, <2>3 DEF Judged, Pending
  <2>5. Checked(flow, history)'
    BY <2>2, <2>3 DEF Checked
  <2>6. Owed(flow, history)'
    BY <2>2, <2>3 DEF Judged, Owed
  <2>7. QED
    BY <2>4, <2>5, <2>6 DEF Judged
<1>4. CASE ~ Queries(c) /\ Takes(flow, c)
  <2>1. Queried(flow, c) = flow
    BY <1>4 DEF Queried
  <2>2. /\ flow'.depth = 0 /\ flow'.pending = c.error /\ flow'.result = c.result
        /\ c.result # None => flow'.resultError = c.error
    BY <1>1, <1>2, <1>4, <2>1 DEF Taken, Takes, Flow
  <2>3. /\ history'.last = c.error /\ history'.queried = {} /\ history'.straight = {}
        /\ c.result # None => <<c.result, c.error>> \in history'.owed
        /\ c.result \notin history'.told
    BY <1>1, <1>2, <1>4 DEF Account, History
  <2>4. Pending(flow, history)'
    BY <2>2, <2>3 DEF Pending
  <2>5. Checked(flow, history)'
    BY <2>2 DEF Checked
  <2>6. Owed(flow, history)'
    BY <2>2, <2>3 DEF Owed
  <2>7. QED
    BY <2>4, <2>5, <2>6 DEF Judged
<1>5. CASE ~ Queries(c) /\ ~ Takes(flow, c)
  <2>1. Queried(flow, c) = flow
    BY <1>5 DEF Queried
  <2>2. flow' = flow /\ history' = history
    BY <1>2, <1>5, <2>1 DEF Taken, Account
  <2>3. QED
    BY <2>2 DEF Judged, Pending, Checked, Owed
<1>6. QED
  BY <1>3, <1>4, <1>5

\* Leaving a conditional puts back what was pending before it, unless a branch
\* that may return asked for that error.
LEMMA BranchJudged ==
  ASSUME TypeOK, Scoped, Judged(flow, history), BranchesFit, Leave, Top.kind = "conditional"
  PROVE  Judged(flow, history)'
<1>1. Top \in Frame
  BY Popped, ElementOfSeq DEF Leave, Top, TypeOK
<1>2. Top.saved \in Flow /\ flow \in Flow
  BY <1>1 DEF Frame, TypeOK
<1>3. flow.depth > 0 /\ Pending(Top.saved, history)
  <2>1. flow.depth = Top.saved.depth + 1
    BY Straight DEF Leave
  <2>2. Len(stack) \in Nat \ {0}
    BY EmptySeq DEF Leave, TypeOK
  <2>3. Within(Len(stack), Len(stack) + 1)
    BY <2>2 DEF Within
  <2>4. QED
    BY <1>2, <2>1, <2>2, <2>3 DEF BranchesFit, Top, Flow
<1>4. /\ flow'.depth = Top.saved.depth /\ flow'.checked = flow.checked
      /\ flow'.result = flow.result /\ flow'.resultError = flow.resultError
      /\ flow'.reported = flow.reported
      /\ \/ flow'.pending = Top.saved.pending
         \/ flow'.pending = None /\ Top.saved.pending = flow.checked
  BY <1>2 DEF Leave, PutBack, AfterConditional, Flow
<1>5. history' = history
  BY DEF Leave
<1>6. Pending(flow, history)'
  BY <1>3, <1>4, <1>5 DEF Judged, Pending, Checked
<1>7. Checked(flow, history)'
  BY <1>3, <1>4, <1>5 DEF Judged, Checked
<1>8. Owed(flow, history)'
  BY <1>4, <1>5 DEF Judged, Owed
<1>9. QED
  BY <1>6, <1>7, <1>8 DEF Judged

\* So each step leaves the notes right.
LEMMA JudgedStep == IInv /\ [Next]_vars => Judged(flow, history)'
<1> SUFFICES ASSUME IInv, [Next]_vars PROVE Judged(flow, history)'
  OBVIOUS
<1> USE DEF IInv
<1>1. CASE EnterFunction
  <2>1. /\ flow'.pending = None /\ flow'.checked = None /\ flow'.result = flow.result
        /\ flow'.resultError = flow.resultError /\ flow'.reported = flow.reported
    BY <1>1 DEF EnterFunction, TypeOK, Flow
  <2>2. /\ history'.last = None /\ history'.owed = history.owed
        /\ history'.told = history.told
    BY <1>1 DEF EnterFunction, TypeOK, History
  <2>3. QED
    BY <2>1, <2>2 DEF Judged, Pending, Checked, Owed
<1>2. CASE EnterConditional
  <2>1. /\ flow'.checked = None /\ flow'.depth = flow.depth + 1 /\ flow'.result = None
        /\ flow.depth \in Nat
    BY <1>2 DEF EnterConditional, NoResult, TypeOK, Flow
  <2>2. flow'.depth # 0
    BY <2>1
  <2>3. QED
    BY <2>1, <2>2 DEF Judged, Pending, Checked, Owed
<1>3. CASE EnterReturn \/ Goto
  <2>1. /\ flow'.pending = flow.pending /\ flow'.checked = flow.checked
        /\ flow'.depth = flow.depth /\ flow'.result = flow.result
        /\ flow'.resultError = flow.resultError /\ flow'.reported = flow.reported
    BY <1>3 DEF EnterReturn, Goto, Leaving, TypeOK, Flow
  <2>2. history' = history
    BY <1>3 DEF EnterReturn, Goto
  <2>3. QED
    BY <2>1, <2>2 DEF Judged, Pending, Checked, Owed
<1>4. ASSUME NEW c \in CallCursor, EnterCall(c) PROVE Judged(flow, history)'
  BY <1>4, CallJudged
<1>5. ASSUME NEW v \in Var, Assign(v) PROVE Judged(flow, history)'
  <2>1. CASE flow.result = v /\ flow.passed
    <3>1. /\ flow'.pending = flow.pending /\ flow'.checked = flow.checked
          /\ flow'.depth = flow.depth /\ flow'.result = None
      BY <1>5, <2>1 DEF Assign, NoResult, TypeOK, Flow
    <3>2. /\ history'.last = history.last /\ history'.queried = history.queried
          /\ history'.straight = history.straight
      BY <1>5, <2>1 DEF Assign, TypeOK, History
    <3>3. QED
      BY <3>1, <3>2 DEF Judged, Pending, Checked, Owed
  <2>2. CASE ~ (flow.result = v /\ flow.passed)
    BY <1>5, <2>2 DEF Assign, Judged, Pending, Checked, Owed
  <2>3. QED
    BY <2>1, <2>2
<1>6. ASSUME NEW v \in Var, NEW consumed \in BOOLEAN, Reference(v, consumed)
      PROVE  Judged(flow, history)'
  <2>1. CASE consumed /\ ReportsOutput(v)
    <3>1. /\ flow'.pending = flow.pending /\ flow'.checked = flow.checked
          /\ flow'.depth = flow.depth /\ flow'.result = flow.result
          /\ flow'.resultError = flow.resultError /\ flow'.reported = TRUE
      BY <1>6, <2>1 DEF Reference, TypeOK, Flow
    <3>2. /\ history'.last = history.last /\ history'.queried = history.queried
          /\ history'.straight = history.straight /\ history'.owed = history.owed
      BY <1>6, <2>1 DEF Reference, TypeOK, History
    <3>3. QED
      BY <3>1, <3>2 DEF Judged, Pending, Checked, Owed
  <2>2. CASE ~ (consumed /\ ReportsOutput(v))
    BY <1>6, <2>2 DEF Reference, Judged, Pending, Checked, Owed
  <2>3. QED
    BY <2>1, <2>2
<1>7. CASE Leave
  <2>1. Top \in Frame
    BY <1>7, Popped, ElementOfSeq DEF Leave, Top, TypeOK
  <2>2. CASE Top.kind = "function"
    <3>1. Len(stack) \in Nat \ {0}
      BY <1>7, EmptySeq DEF Leave, TypeOK
    <3>2. Judged(Top.saved, Top.before)
      BY <2>2, <3>1 DEF FunctionsFit, Top
    <3>3. flow' = Top.saved /\ history' = Top.before
      BY <1>7, <2>2 DEF Leave
    <3>4. QED
      BY <3>2, <3>3 DEF Judged, Pending, Checked, Owed
  <2>3. CASE Top.kind = "conditional"
    BY <1>7, <2>3, BranchJudged
  <2>4. CASE Top.kind \in {"return", "call"}
    <3>1. flow.depth = Top.saved.depth
      BY <1>7, <2>4, Straight DEF Leave
    <3>2. /\ flow'.pending = flow.pending /\ flow'.checked = flow.checked
          /\ flow'.depth = flow.depth /\ flow'.result = flow.result
          /\ flow'.resultError = flow.resultError /\ flow'.reported = flow.reported
      BY <1>7, <2>1, <2>4, <3>1 DEF Leave, PutBack, TypeOK, Flow
    <3>3. history' = history
      BY <1>7, <2>4 DEF Leave
    <3>4. QED
      BY <3>2, <3>3 DEF Judged, Pending, Checked, Owed
  <2>5. QED
    BY <2>1, <2>2, <2>3, <2>4 DEF Frame, Scope
<1>8. CASE Refuse \/ UNCHANGED vars
  BY <1>8 DEF Refuse, vars, Judged, Pending, Checked, Owed
<1>9. QED
  BY <1>1, <1>2, <1>3, <1>4, <1>5, <1>6, <1>7, <1>8 DEF Next

-----------------------------------------------------------------------------
(* What cursors will put back.                                             *)

\* Inside a conditional no call is taken for the last one, and nothing is asked
\* for on the straight path: what fitted the account goes on fitting it.
LEMMA BranchesKeepFitting ==
  ASSUME TypeOK, Scoped,
         \/ history' = history
         \/ \E c \in CallCursor : EnterCall(c)
         \/ \E v \in Var : Assign(v) \/ \E consumed \in BOOLEAN : Reference(v, consumed),
         NEW k \in 1 .. Len(stack), stack[k].kind = "conditional",
         Pending(stack[k].saved, history)
  PROVE  Pending(stack[k].saved, history')
<1> DEFINE Grows == /\ history'.last = history.last /\ history'.straight = history.straight
                    /\ history.queried \subseteq history'.queried
<1>1. flow.depth # 0
  BY Straight
<1>2. Grows
  <2>1. ASSUME NEW c \in CallCursor, EnterCall(c) PROVE Grows
    BY <1>1, <2>1 DEF EnterCall, Account, Takes, TypeOK, History
  <2>2. ASSUME NEW v \in Var, Assign(v) PROVE Grows
    BY <2>2 DEF Assign, TypeOK, History
  <2>3. ASSUME NEW v \in Var, NEW consumed \in BOOLEAN, Reference(v, consumed) PROVE Grows
    BY <2>3 DEF Reference, TypeOK, History
  <2>4. QED
    BY <2>1, <2>2, <2>3
<1>3. QED
  BY <1>2 DEF Pending

\* A frame that comes last keeps what the others put back fitting, and fits itself.
LEMMA FramePushed ==
  ASSUME TypeOK, FunctionsFit, BranchesFit, NEW f \in Frame, stack' = Append(stack, f),
         f.kind = "function" => Judged(f.saved, f.before) /\ f.before = history,
         f.kind = "conditional" => Pending(f.saved, history'),
         f.kind # "function" =>
           \A k \in 1 .. Len(stack) :
             stack[k].kind = "conditional" /\ Pending(stack[k].saved, history)
               => Pending(stack[k].saved, history')
  PROVE  FunctionsFit' /\ BranchesFit'
<1> PICK n \in Nat : n = Len(stack)
  BY Pushed DEF TypeOK
<1>1. /\ Len(stack') = n + 1 /\ stack'[n + 1] = f
      /\ \A k \in 1 .. n : stack'[k] = stack[k]
  BY Pushed DEF TypeOK
<1>2. \A k \in 1 .. n + 1 :
        stack'[k].kind = "function" => Judged(stack'[k].saved, stack'[k].before)
  BY <1>1 DEF FunctionsFit
<1>3. ASSUME NEW k \in 1 .. n + 1, stack'[k].kind = "conditional"
      PROVE  /\ (\A i \in k + 1 .. n + 1 : stack'[i].kind # "function") =>
                  Pending(stack'[k].saved, history')
             /\ \A j \in k + 1 .. n + 1 :
                  stack'[j].kind = "function"
                    /\ (\A i \in k + 1 .. j - 1 : stack'[i].kind # "function") =>
                       Pending(stack'[k].saved, stack'[j].before)
  <2>1. CASE k = n + 1
    BY <1>1, <1>3, <2>1
  <2>2. CASE k \in 1 .. n
    <3>1. stack'[k] = stack[k]
      BY <1>1, <2>2
    <3>2. (\A i \in k + 1 .. n : stack'[i].kind # "function") =>
             Pending(stack[k].saved, history)
      BY <1>1, <1>3, <2>2 DEF BranchesFit, Within
    <3>3. ASSUME \A i \in k + 1 .. n + 1 : stack'[i].kind # "function"
          PROVE  Pending(stack[k].saved, history')
      BY <1>1, <1>3, <2>2, <3>1, <3>2, <3>3
    <3>4. ASSUME NEW j \in k + 1 .. n + 1, stack'[j].kind = "function",
                 \A i \in k + 1 .. j - 1 : stack'[i].kind # "function"
          PROVE  Pending(stack[k].saved, stack'[j].before)
      <4>1. CASE j = n + 1
        BY <1>1, <3>2, <3>4, <4>1
      <4>2. CASE j \in k + 1 .. n
        BY <1>1, <1>3, <2>2, <3>4, <4>2 DEF BranchesFit, Within
      <4>3. QED
        BY <4>1, <4>2
    <3>5. QED
      BY <3>1, <3>3, <3>4
  <2>3. QED
    BY <2>1, <2>2
<1>4. FunctionsFit'
  BY <1>1, <1>2 DEF FunctionsFit, Judged, Pending, Checked, Owed
<1>5. BranchesFit'
  BY <1>1, <1>3 DEF BranchesFit, Within, Pending
<1>6. QED
  BY <1>4, <1>5

\* When the last frame goes, a function's account comes back with it.
LEMMA FramePopped ==
  ASSUME TypeOK, FunctionsFit, BranchesFit, stack # << >>,
         stack' = SubSeq(stack, 1, Len(stack) - 1),
         history' = IF Top.kind = "function" THEN Top.before ELSE history
  PROVE  FunctionsFit' /\ BranchesFit'
<1> PICK n \in Nat \ {0} : n = Len(stack)
  BY Popped DEF TypeOK
<1>1. Len(stack') = n - 1 /\ \A k \in 1 .. n - 1 : stack'[k] = stack[k]
  BY Popped DEF TypeOK
<1>2. \A k \in 1 .. n - 1 :
        stack'[k].kind = "function" => Judged(stack'[k].saved, stack'[k].before)
  BY <1>1 DEF FunctionsFit
<1>3. ASSUME NEW k \in 1 .. n - 1, stack'[k].kind = "conditional"
      PROVE  /\ (\A i \in k + 1 .. n - 1 : stack'[i].kind # "function") =>
                  Pending(stack'[k].saved, history')
             /\ \A j \in k + 1 .. n - 1 :
                  stack'[j].kind = "function"
                    /\ (\A i \in k + 1 .. j - 1 : stack'[i].kind # "function") =>
                       Pending(stack'[k].saved, stack'[j].before)
  <2>1. stack'[k] = stack[k]
    BY <1>1
  <2>2. ASSUME \A i \in k + 1 .. n - 1 : stack'[i].kind # "function"
        PROVE  Pending(stack[k].saved, history')
    <3>1. CASE stack[n].kind = "function"
      BY <1>1, <1>3, <2>1, <2>2, <3>1 DEF BranchesFit, Within, Top
    <3>2. CASE stack[n].kind # "function"
      <4>1. \A i \in k + 1 .. n : stack[i].kind # "function"
        BY <1>1, <2>2, <3>2
      <4>2. history' = history
        BY <3>2 DEF Top
      <4>3. Within(k, n + 1)
        BY <4>1 DEF Within
      <4>4. QED
        BY <1>3, <2>1, <4>2, <4>3 DEF BranchesFit
    <3>3. QED
      BY <3>1, <3>2
  <2>3. ASSUME NEW j \in k + 1 .. n - 1, stack'[j].kind = "function",
               \A i \in k + 1 .. j - 1 : stack'[i].kind # "function"
        PROVE  Pending(stack[k].saved, stack'[j].before)
    BY <1>1, <1>3, <2>1, <2>3 DEF BranchesFit, Within
  <2>4. QED
    BY <2>1, <2>2, <2>3
<1>4. FunctionsFit'
  BY <1>1, <1>2 DEF FunctionsFit, Judged, Pending, Checked, Owed
<1>5. BranchesFit'
  BY <1>1, <1>3 DEF BranchesFit, Within, Pending
<1>6. QED
  BY <1>4, <1>5

\* While no cursor comes or goes, what the frames put back goes on fitting.
LEMMA FramesStay ==
  ASSUME TypeOK, FunctionsFit, BranchesFit, stack' = stack,
         \A k \in 1 .. Len(stack) :
           stack[k].kind = "conditional" /\ Pending(stack[k].saved, history)
             => Pending(stack[k].saved, history')
  PROVE  FunctionsFit' /\ BranchesFit'
<1>1. FunctionsFit'
  BY DEF FunctionsFit, Judged, Pending, Checked, Owed
<1>2. ASSUME NEW k \in 1 .. Len(stack), stack[k].kind = "conditional",
             Within(k, Len(stack) + 1)
      PROVE  Pending(stack[k].saved, history')
  BY <1>2 DEF BranchesFit
<1>3. BranchesFit'
  BY <1>2 DEF BranchesFit, Within, Pending
<1>4. QED
  BY <1>1, <1>3

\* So what is put back fits, whatever step is taken.
LEMMA FitStep == IInv /\ [Next]_vars => FunctionsFit' /\ BranchesFit'
<1> SUFFICES ASSUME IInv, [Next]_vars PROVE FunctionsFit' /\ BranchesFit'
  OBVIOUS
<1> USE DEF IInv
<1>1. CASE EnterFunction
  <2>1. \E f \in Frame : /\ stack' = Append(stack, f) /\ f.kind = "function"
                         /\ f.saved = flow /\ f.before = history
    BY <1>1, OpenType, SavedType DEF EnterFunction, TypeOK, Scope
  <2>2. QED
    BY <2>1, FramePushed
<1>2. CASE EnterConditional
  <2>1. \E f \in Frame : /\ stack' = Append(stack, f) /\ f.kind = "conditional"
                         /\ f.saved.depth = flow.depth /\ f.saved.pending = flow.pending
    BY <1>2, OpenType, SavedType DEF EnterConditional, TypeOK, Scope
  <2>2. history' = history
    BY <1>2 DEF EnterConditional
  <2>3. QED
    BY <2>1, <2>2, FramePushed DEF Judged, Pending
<1>3. CASE EnterReturn
  <2>1. \E f \in Frame : stack' = Append(stack, f) /\ f.kind = "return"
    BY <1>3, OpenType DEF EnterReturn, Scope
  <2>2. history' = history
    BY <1>3 DEF EnterReturn
  <2>3. QED
    BY <2>1, <2>2, FramePushed
<1>4. ASSUME NEW c \in CallCursor, EnterCall(c) PROVE FunctionsFit' /\ BranchesFit'
  <2>1. (Takes(flow, c) /\ c.result # None) \in BOOLEAN
    BY DEF Takes
  <2>2. \E f \in Frame : stack' = Append(stack, f) /\ f.kind = "call"
    BY <1>4, <2>1, OpenType DEF EnterCall, Scope
  <2>3. \A k \in 1 .. Len(stack) :
          stack[k].kind = "conditional" /\ Pending(stack[k].saved, history)
            => Pending(stack[k].saved, history')
    BY <1>4, BranchesKeepFitting
  <2>4. QED
    BY <2>2, <2>3, FramePushed
<1>5. CASE \E v \in Var : Assign(v) \/ \E consumed \in BOOLEAN : Reference(v, consumed)
  <2>1. \A k \in 1 .. Len(stack) :
          stack[k].kind = "conditional" /\ Pending(stack[k].saved, history)
            => Pending(stack[k].saved, history')
    BY <1>5, BranchesKeepFitting
  <2>2. stack' = stack
    BY <1>5 DEF Assign, Reference
  <2>3. QED
    BY <2>1, <2>2, FramesStay
<1>6. CASE Goto \/ Refuse \/ UNCHANGED vars
  <2>1. stack' = stack /\ history' = history
    BY <1>6 DEF Goto, Refuse, vars
  <2>2. QED
    BY <2>1, FramesStay
<1>7. CASE Leave
  BY <1>7, FramePopped DEF Leave
<1>8. QED
  BY <1>1, <1>2, <1>3, <1>4, <1>5, <1>6, <1>7 DEF Next

-----------------------------------------------------------------------------
(* The theorems.                                                           *)

\* The account, what is kept of it and of the context, and the scopes are right
\* in every reachable state.
LEMMA Invariant == Spec => []IInv
<1>1. Init => IInv
  <2> SUFFICES ASSUME Init PROVE IInv
    OBVIOUS
  <2>1. Judged(flow, history)
    BY DEF Init, Calm, Blank, Judged, Pending, Checked, Owed
  <2>2. FunctionsFit /\ BranchesFit
    BY DEF Init, FunctionsFit, BranchesFit
  <2>3. QED
    BY <2>1, <2>2, TypeStart, ScopeStart DEF IInv
<1>2. IInv /\ [Next]_vars => IInv'
  BY TypeStep, ScopeStep, JudgedStep, FitStep DEF IInv
<1>3. QED
  BY <1>1, <1>2, PTL DEF Spec

\* Type correctness: the context holds identities, counts and switches, and never
\* more cursors are open than the bound.
THEOREM TypeCorrect == Spec => []TypeOK
<1>1. IInv => TypeOK
  BY DEF IInv
<1>2. QED
  BY <1>1, Invariant, PTL

\* However deep the cursors nest and wherever the visit stops, conditional_depth
\* counts the conditionals around the place the visit is at, and inside_return says
\* whether a return is around it.
THEOREM ScopesAreAncestors == Spec => []ScopeMatchesAncestry
<1>1. IInv => ScopeMatchesAncestry
  <2> SUFFICES ASSUME TypeOK, Scoped PROVE ScopeMatchesAncestry
    BY DEF IInv
  <2>1. PICK n \in Nat : n = Len(stack)
    BY Pushed DEF TypeOK
  <2>2. DOMAIN stack = 1 .. n
    BY <2>1 DEF TypeOK
  <2>3. Conditionals(n + 1) = Around("conditional")
    BY <2>2 DEF Conditionals, Around
  <2>4. InReturn(n + 1) <=> Around("return") # {}
    BY <2>2 DEF InReturn, Around
  <2>5. Says(flow, n + 1)
    BY <2>1 DEF Scoped
  <2>6. flow.inReturn \in BOOLEAN
    BY DEF TypeOK, Flow
  <2>7. flow.inReturn = (Around("return") # {})
    BY <2>4, <2>5, <2>6 DEF Says
  <2>8. QED
    BY <2>3, <2>5, <2>7 DEF Says, ScopeMatchesAncestry
<1>2. QED
  BY <1>1, Invariant, PTL

\* ERROR_UNCHECKED_CHAIN is reported only when the last call before took the same
\* error and nobody asked for it since on the straight path.
THEOREM ReportedChainsAreUnchecked == Spec => []ChainsAreUnchecked
<1>1. IInv => ChainsAreUnchecked
  BY DEF IInv, Judged, Pending, ChainsAreUnchecked, ReportsChain, Takes
<1>2. QED
  BY <1>1, Invariant, PTL

\* And it is reported of every error that two calls in a row take while nobody asks
\* for it between them.
THEOREM UncheckedChainsAreReported == Spec => []ChainsAreFound
<1>1. IInv => ChainsAreFound
  BY DEF IInv, Judged, Pending, ChainsAreFound, ReportsChain, Takes
<1>2. QED
  BY <1>1, Invariant, PTL

\* ERROR_OUTPUT_UNCHECKED is reported only of a variable that still holds the result
\* of a call whose error nobody asked for, and once for each such result.
THEOREM ReportedOutputsAreUnchecked == Spec => []OutputsAreUnchecked
<1>1. IInv => OutputsAreUnchecked
  BY NoneAssumption DEF IInv, Judged, Owed, OutputsAreUnchecked, ReportsOutput
<1>2. QED
  BY <1>1, Invariant, PTL

=============================================================================
