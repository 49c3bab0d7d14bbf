---------------------------- MODULE RecordStream ----------------------------
(***************************************************************************)
(* One translation unit as scan_source works through it once it is parsed: *)
(* its diagnostics, its files, its macro expansions, then its cursors,     *)
(* each by visit_cursor and emit_cursor_record.  A unit is a tree of       *)
(* places: a diagnostic, a file or a cursor, numbered in the order in      *)
(* which libclang presents them.                                           *)
(*                                                                         *)
(* What one kind of place hands to the observer is a program: a sequence   *)
(* of steps, each a record or a call that can only fail.  Whether a note   *)
(* applies is left open except where a property needs to know; the notes   *)
(* that follow the flow of errors and the tables of one function are the   *)
(* subject of ErrorFlow and FunctionMemory.  What a note says besides its  *)
(* name is left out, and signal handlers are reported as handlers.         *)
(***************************************************************************)
EXTENDS Naturals, Sequences, FiniteSets, SequencesExt, FiniteSetsExt

CONSTANTS
  Units,            \* the translation units, see UnitAssumption
  InitialCapacity,  \* ANALYSIS_INITIAL_MACRO_CAPACITY
  MaxCapacity       \* the ranges whose size still fits a size_t

Wrapping == {"unexposed", "label"}   \* labels, cases and defaults alike
Reports  == {"diagnostic", "file"}   \* what is reported before the cursors

VARIABLES
  unit,      \* the translation unit, an index of Units
  phase,     \* "report", "collect" or "visit"
  pc,        \* "walk", "place", "emit", "enter"
  frames,    \* the visits in progress, outermost first, with their ancestry
  place,     \* the place at hand, 0 before the first
  step,      \* the step of its program to take next
  inside,    \* whether the group of notes the step is in was entered
  function,  \* current_function: the place it was taken from, or 0
  enum,      \* current_enum likewise
  ranges,    \* macro_expansions, up to macro_expansion_count
  capacity,  \* macro_expansion_capacity
  considered,\* how many macro expansions have been looked at
  stopped,   \* the scan context's stopped
  err,       \* whether the error object holds an error
  result,    \* what scan_source returns, "none" before
  heard,     \* history: the places whose own record was handed over
  blamed,    \* history: the calls a CALL_NOT_ISOLATED note was made of
  mutated,   \* history: the tokens named by mutation candidates, in order
  last       \* history: the last record with the context it was made in

position == <<phase, pc, frames, place, step, inside>>
scope    == <<function, enum>>
macros   == <<ranges, capacity, considered>>
history  == <<heard, blamed, mutated, last>>
vars == <<unit, position, scope, macros, stopped, err, result, history>>

Unit == Units[unit]
Place == DOMAIN Unit.places
At(p) == Unit.places[p]
Here == At(place)
Top == frames[Len(frames)]
Below(p) == {q \in Place : At(q).parent = p}

-----------------------------------------------------------------------------
(* What each kind of place hands over, in the order of emit_cursor_record. *)
(* A step is taken "always", only when the visit is not stopped ("asked"), *)
(* or when the group it belongs to was entered ("inside"); an asked record *)
(* opens a group if it is made, a "block" step does so either way.         *)

\* What a step can do besides handing over its record: raise an error and
\* leave stopped as it is (FALSE in fails) or set it (TRUE in fails).
Step(says, when, many, fails) ==
  [says |-> says, when |-> when, many |-> many, fails |-> fails]
Note(says, when) == Step(says, when, "one", {})
Try(says, when, fails) == Step(says, when, "none", fails)
Copies == Try("copies", "always", {TRUE})
Own(says) == Note(says, "asked")

\* emit_semantic_role for each annotation, until it finds the visit stopped.
Roles(says, when) == Step(says, when, "until stopped", BOOLEAN)
TypeRoles(when) == Roles("TYPE_SEMANTIC_ROLE", when)

IncludeSteps ==
  << Copies, Try("admission of the target", "asked", {FALSE}), Own("INCLUDE") >>

SignatureNotes == << Note("SIGNATURE_ENV_ORDER", "asked") >>

FunctionSteps ==
  << Copies, Own("FUNCTION"), Roles("SEMANTIC_ROLE", "inside"),
     Note("ENV_CONTRACT", "asked"), Note("ERROR_CONTRACT", "asked") >>
  \o SignatureNotes

AllocationNotes == << Note("ALLOC_SIZEOF_TYPE", "block") >>

\* Registered handlers, and signal handlers among them.
HandlerNotes == << Step("HANDLER_REGISTERED", "inside", "all", {FALSE}) >>

SecureCallNotes ==
  << Note("ZERO_SIZE_ALLOCATION", "inside"), Try("copied objects", "inside", {FALSE}),
     Note("OVERLAPPING_RESTRICTED_COPY", "inside"),
     Note("THREAD_AUTOMATIC_STORAGE_ESCAPE", "inside"),
     Try("borrowed result and path", "inside", {FALSE}), Note("PATH_TOCTOU", "inside"),
     Note("RECURSIVE_CALL", "inside") >>

CallRecordSteps ==
  << Copies, Try("error argument", "always", {FALSE}), Own("CALL"),
     Try("call text", "asked", {FALSE}), Note("CALL_NOT_ISOLATED", "asked") >>
  \o AllocationNotes \o HandlerNotes \o SecureCallNotes

CallResultSteps ==
  << Note("CALL_RESULT_DISCARDED", "asked"),
     Note("MUST_CHECK_RESULT_DISCARDED", "inside"),
     Note("PARTIAL_RESULT_DISCARDED", "inside"),
     Step("UNCERTAIN_PROGRESS_RETRIED", "block", "one", {FALSE}),
     Try("uncertain progress", "inside", {FALSE}),
     Note("CONDITION_WAIT_OUTSIDE_LOOP", "asked"), Note("POST_FORK_UNSAFE_CALL", "asked"),
     Roles("CALLEE_SEMANTIC_ROLE", "asked") >>

CallErrorSteps ==
  << Note("ERROR_CHECK", "asked"), Try("checked error", "inside", {FALSE}),
     Note("ERROR_DISCARD", "block"), Note("ERROR_OPTIONAL", "inside"),
     Note("ERROR_CLEANUP_SHADOW", "inside"), Note("ERROR_PROPAGATED", "asked"),
     Note("ERROR_UNCHECKED_CHAIN", "block"), Try("result identity", "inside", {FALSE}),
     Step("MUTATION", "always", "one", BOOLEAN) >>

ReturnSteps ==
  << Note("FUNCTION_RETURN", "always"), Note("FUNCTION_EARLY_RETURN", "always") >>

EnumSteps == << Copies, Own("ENUM") >>

EnumeratorSteps ==
  << Copies, Own("ENUMERATOR"), Step("API_ENUMERATOR_VALUE", "inside", "one", {TRUE}) >>

TypeSteps == << Copies, Own("TYPE"), Step("API_TYPE_LAYOUT", "inside", "one", {TRUE}) >>

HygieneNotes == << Note("MACRO_ARGUMENT_BARE", "inside"), Note("MACRO_STATEMENT_BARE", "inside") >>

MacroDefinitionSteps ==
  << Copies, Own("MACRO") >> \o HygieneNotes
  \o << Try("definition", "inside", {FALSE}), Step("API_MACRO_VALUE", "inside", "one", {FALSE}) >>

MacroExpansionSteps == << Copies, Own("MACRO") >>

FieldReachNote == << Step("FIELD_REACH", "always", "one", {FALSE}) >>

\* observe_semantic_reference
ReferenceNotes ==
  << Note("SIGNAL_SHARED_OBJECT_ACCESS", "always"), Try("identity", "always", {FALSE}),
     Note("ENV_BORROWED_POINTER_INVALIDATED", "always") >>

ReferenceSteps ==
  ReferenceNotes \o << Step("FUNCTION_REFERENCE", "always", "one", {TRUE}) >>

ResultUseSteps ==
  ReferenceNotes \o << Step("ERROR_OUTPUT_UNCHECKED", "always", "one", {FALSE}) >>

ParameterSteps ==
  << Copies, Own("PARAMETER"), TypeRoles("block"), Note("ENV_USE", "inside"),
     Note("ERROR_USE", "asked") >>

VariableSteps ==
  << TypeRoles("always"), Note("ENV_USE", "always"), Note("ERROR_USE", "asked") >>

Kind == Reports \cup Wrapping \cup
  {"include", "function", "call", "return", "member", "enum", "enumerator", "type",
   "macro definition", "macro expansion", "reference", "result use", "parameter",
   "variable", "binary", "assignment", "compound"}

Steps == [kind \in Kind |->
  CASE kind = "diagnostic" -> << Own("DIAGNOSTIC") >>
    [] kind = "file" -> << Own("FILE") >>
    [] kind = "include" -> IncludeSteps
    [] kind = "function" -> FunctionSteps
    [] kind = "call" -> CallRecordSteps \o CallResultSteps \o CallErrorSteps
    [] kind = "return" -> ReturnSteps
    [] kind = "member" -> FieldReachNote
    [] kind = "enum" -> EnumSteps
    [] kind = "enumerator" -> EnumeratorSteps
    [] kind = "type" -> TypeSteps
    [] kind = "macro definition" -> MacroDefinitionSteps
    [] kind = "macro expansion" -> MacroExpansionSteps
    [] kind = "reference" -> ReferenceSteps
    [] kind = "result use" -> ResultUseSteps
    [] kind = "parameter" -> ParameterSteps
    [] kind = "variable" -> VariableSteps
    [] kind = "binary" -> << Note("MUTATION", "asked") >>
    [] kind = "assignment" -> << Try("signal action", "asked", {FALSE}) >>
    [] OTHER -> << >>]

OwnRecords == {"DIAGNOSTIC", "FILE", "INCLUDE", "FUNCTION", "CALL", "ENUM", "ENUMERATOR",
               "TYPE", "MACRO", "PARAMETER"}

\* The kinds whose places owe the observer a record of their own.
Declaring == {kind \in Kind : \E i \in DOMAIN Steps[kind] : Steps[kind][i].says \in OwnRecords}

Program == Steps[Here.kind]
Current == Program[step]

PlaceRecord ==
  [kind : Kind, parent : Nat,
   admitted : BOOLEAN,   \* its file is under a root
   named : BOOLEAN,      \* not anonymous; an include shows its target, a diagnostic is serious
   defined : BOOLEAN,    \* a definition
   moved : BOOLEAN,      \* libclang gives two locations for it
   parens : BOOLEAN,     \* its text has a parenthesis
   range : Nat,          \* its extent
   role : {"none", "positive", "negative"}, \* which of the two error queries it is
   usr : Nat,            \* a function's identity, 0 for none
   tokens : Seq(Nat)]    \* those spelt like its operator or callee where it is looked for

\* The order in which libclang presents a unit: the reports, which hold nothing,
\* then each cursor with what lies below it before the next one beside it.
Presented(places) ==
  /\ \A p \in DOMAIN places : places[p].parent < p
  /\ \A p, q \in DOMAIN places :
       places[q].parent < p /\ p < q => places[q].parent <= places[p].parent
  /\ \A p, q \in DOMAIN places : places[q].kind \in Reports /\ p <= q =>
       places[p].kind \in Reports /\ places[p].parent = 0
  /\ \A p, q \in DOMAIN places : places[q].parent = p => places[p].kind \notin Reports

ASSUME UnitAssumption ==
  /\ Units \in Seq([detailed : BOOLEAN, places : Seq(PlaceRecord),
                    expansions : Seq([range : Nat, system : BOOLEAN])])
  /\ \A u \in DOMAIN Units : Presented(Units[u].places)
ASSUME CapacityAssumption ==
  InitialCapacity \in Nat \ {0} /\ MaxCapacity \in Nat

-----------------------------------------------------------------------------
(* Conditions of single steps.                                             *)

\* call_is_covered_by_macro_expansion
Covered(c) == \E i \in DOMAIN ranges : ranges[i] = At(c).range

\* Faults.  An operator named after a definition and a mistake is that
\* definition with the mistake in it; no other definition uses it.
IsolatedInParent(c) ==
  Top.place # 0 /\ At(Top.place).kind \in {"compound", "variable", "assignment"}

\* call_is_isolated: the innermost ancestor that does not merely wrap the
\* call; frames holds the ancestry, below the frame of the whole unit.
Isolated(c) ==
  LET holders == {i \in 2 .. Len(frames) : At(frames[i].place).kind \notin Wrapping}
  IN  holders # {}
      /\ At(frames[Max(holders)].place).kind \in {"compound", "variable", "assignment"}

\* call_is_generated_by_macro, or covered.
Generated(c) == At(c).moved \/ Covered(c)

\* Whether the text of a call decides if it is reported as not isolated.
\* A text that cannot be read counts as one with a parenthesis.
TextDecides(c) == ~ Generated(c) /\ ~ Isolated(c)

HasRole(p, role) == At(p).kind = "function" /\ At(p).role = role

\* semantic_role_function_name: the only function of the unit with the role,
\* however often it is declared, or 0.  One without an identity is overlooked.
FirstWithRole(role) ==
  LET known == {p \in Place : HasRole(p, role)}
  IN  IF known = {} THEN 0 ELSE At(Min(known)).usr

\* What the look through the first n places has found.
Known(role) ==
  LET known[n \in 0 .. Len(Unit.places)] ==
        IF n = 0 THEN [usr |-> 0, matches |-> 0]
        ELSE IF ~ HasRole(n, role) \/ At(n).usr \in {0, known[n - 1].usr} THEN known[n - 1]
        ELSE [usr |-> IF known[n - 1].matches = 0 THEN At(n).usr ELSE known[n - 1].usr,
              matches |-> known[n - 1].matches + 1]
  IN  known

OnlyWithRole(role) ==
  LET found == Known(role)[Len(Unit.places)]
  IN  IF found.matches = 1 THEN found.usr ELSE 0

Opposite == [positive |-> "negative", negative |-> "positive"]
Replacement(c) == IF At(c).role = "none" THEN 0 ELSE OnlyWithRole(Opposite[At(c).role])

EveryCandidate(p, replacement) ==
  [i \in DOMAIN At(p).tokens |->
     [place |-> p, token |-> At(p).tokens[i], replacement |-> replacement]]

\* Of the tokens spelt like the operator or the callee only the first counts.
FirstCandidate(p, replacement) ==
  IF At(p).tokens = << >> THEN << >>
  ELSE << [place |-> p, token |-> Head(At(p).tokens), replacement |-> replacement] >>

\* mutation_from_binary and mutation_from_call: the operator, the predicate or,
\* when it is a statement of its own, the whole call.
Candidates(p) ==
  CASE At(p).kind = "binary" -> FirstCandidate(p, 0)
    [] At(p).kind = "call" /\ Replacement(p) # 0 -> FirstCandidate(p, Replacement(p))
    [] At(p).kind = "call" /\ Replacement(p) = 0 ->
         IF At(p).parent # 0 /\ At(At(p).parent).kind = "compound"
         THEN << [place |-> p, token |-> At(p).range, replacement |-> 0] >>
         ELSE << >>
    [] OTHER -> << >>

\* Whether the step's record is due at the place at hand.
Due ==
  CASE Current.says \in OwnRecords ->
         {Here.named /\ (Current.says = "ENUMERATOR" => enum # 0)}
    [] Current.says = "CALL_NOT_ISOLATED" ->
         IF TextDecides(place) THEN {Here.parens, Here.parens \/ err} ELSE {FALSE}
    [] Current.says = "MUTATION" -> {Candidates(place) # << >>}
    [] Current.says = "FUNCTION_RETURN" -> {TRUE}
    [] OTHER -> BOOLEAN

Reached ==
  CASE Current.when \in {"asked", "block"} -> ~ stopped
    [] Current.when = "inside" -> inside
    [] Current.when = "always" -> TRUE

MayFail ==
  CASE Current.says = "call text" -> TextDecides(place)
    [] Current.says = "admission of the target" -> Here.named
    [] OTHER -> TRUE

-----------------------------------------------------------------------------
Root(tops) == <<[place |-> 0, left |-> tops, function |-> 0, enum |-> 0]>>

Init ==
  /\ unit \in DOMAIN Units
  /\ phase = "report"
  /\ pc = "walk"
  /\ frames = Root({p \in Below(0) : At(p).kind \in Reports})
  /\ place = 0
  /\ step = 1
  /\ inside = FALSE
  /\ function = 0
  /\ enum = 0
  /\ ranges = << >>
  /\ capacity = 0
  /\ considered = 0
  /\ stopped = FALSE
  /\ err = FALSE
  /\ result = "none"
  /\ heard = {}
  /\ blamed = {}
  /\ mutated = << >>
  /\ last = [place |-> 0, function |-> 0, enum |-> 0, says |-> "none"]


-----------------------------------------------------------------------------
(* One place: emit_cursor_record, visit_inclusion, a diagnostic.           *)

Children == Top.left

TakeUp ==
  /\ pc = "walk" /\ phase # "collect" /\ ~ stopped /\ result = "none"
  /\ Children # {}
  /\ place' = Min(Children)
  /\ frames' = [frames EXCEPT ![Len(frames)].left = @ \ {place'}]
  /\ pc' = "place"
  /\ UNCHANGED <<unit, phase, step, inside, scope, macros, stopped, err, result, history>>

\* The path cannot be copied, or whether it is admitted cannot be told: the
\* place is passed over like a foreign one.
PlaceFails ==
  /\ pc = "place"
  /\ Here.kind # "diagnostic"
  /\ err' = TRUE
  /\ pc' = "enter"
  /\ UNCHANGED <<unit, phase, frames, place, step, inside, scope, macros, stopped, result, history>>

Foreign ==
  /\ pc = "place"
  /\ ~ Here.admitted
  /\ pc' = "enter"
  /\ UNCHANGED <<unit, phase, frames, place, step, inside, scope, macros, stopped, err, result,
                 history>>

Begin ==
  /\ pc = "place"
  /\ Here.admitted
  /\ step' = 1
  /\ inside' = FALSE
  /\ pc' = "emit"
  /\ UNCHANGED <<unit, phase, frames, place, scope, macros, stopped, err, result, history>>

InStep == pc = "emit" /\ step <= Len(Program)

\* Some notes come once, some for every annotation or function found.
Proceed(stop) ==
  step' = IF Current.many = "all" \/ (Current.many = "until stopped" /\ ~ stop)
          THEN step ELSE step + 1

\* Whether the group goes on behind a step whose record was made, or not.
Opened(made) ==
  CASE Current.when = "block" -> ~ stopped
    [] Current.when = "asked" -> made
    [] OTHER -> inside

EmitRecordUnheard(outcome) ==
  /\ err' = (err \/ outcome = "raise")
  /\ stopped' = (stopped \/ outcome = "refuse")

\* emit_record: the observer is called first, then the error is looked at.
EmitRecord(outcome) ==
  /\ err' = (err \/ outcome = "raise")
  /\ stopped' = (stopped \/ outcome = "refuse" \/ err')

Remember ==
  /\ last' = [place |-> place, function |-> function, enum |-> enum, says |-> Current.says]
  /\ heard' = IF Current.says \in OwnRecords THEN heard \cup {place} ELSE heard
  /\ blamed' = IF Current.says = "CALL_NOT_ISOLATED" THEN blamed \cup {place} ELSE blamed
  /\ mutated' = IF Current.says = "MUTATION" THEN mutated \o Candidates(place) ELSE mutated

Emit(outcome) ==
  /\ InStep
  /\ Current.many # "none"
  /\ Reached /\ TRUE \in Due
  /\ EmitRecord(outcome)
  /\ Remember
  /\ inside' = Opened(TRUE)
  /\ Proceed(stopped')
  /\ UNCHANGED <<unit, phase, pc, frames, place, scope, macros, result>>

\* The step is not due, or the visit is stopped.  An include whose text shows
\* no target is passed over, unless an error is pending.
Omit ==
  /\ InStep
  /\ Current.many # "none" /\ Reached => FALSE \in Due
  /\ stopped' = (stopped \/ (Current.says = "INCLUDE" /\ err))
  /\ inside' = Opened(FALSE)
  /\ step' = step + 1
  /\ UNCHANGED <<unit, phase, pc, frames, place, scope, macros, err, result, history>>

StepFails(stops) ==
  /\ InStep
  /\ stops \in Current.fails
  /\ Reached /\ MayFail
  /\ err' = TRUE
  /\ stopped' = (stopped \/ stops)
  /\ inside' = Opened(FALSE)
  /\ Proceed(stopped')
  /\ UNCHANGED <<unit, phase, pc, frames, place, scope, macros, result, history>>

Finish ==
  /\ pc = "emit" /\ step > Len(Program)
  /\ pc' = "enter"
  /\ UNCHANGED <<unit, phase, frames, place, step, inside, scope, macros, stopped, err, result,
                 history>>

-----------------------------------------------------------------------------
(* The tree: visit_cursor around emit_cursor_record.                       *)

\* Break, or nothing below a diagnostic and a file.
PassBy ==
  /\ pc = "enter"
  /\ stopped \/ Here.kind \in Reports
  /\ pc' = "walk"
  /\ UNCHANGED <<unit, phase, frames, place, step, inside, scope, macros, stopped, err, result,
                 history>>

Frame == [place |-> place, left |-> Below(place), function |-> function, enum |-> enum]

Enter ==
  /\ pc = "enter" /\ ~ stopped /\ Here.kind \notin Reports
  /\ frames' = Append(frames, Frame)
  /\ function' = IF Here.kind = "function" /\ Here.defined THEN place ELSE function
  /\ enum' = IF Here.kind = "enum" THEN IF Here.named THEN place ELSE 0 ELSE enum
  /\ pc' = "walk"
  /\ UNCHANGED <<unit, phase, place, step, inside, macros, stopped, err, result, history>>

\* The name or the USR cannot be copied: its records have no caller.
EnterFunctionFails ==
  /\ pc = "enter" /\ ~ stopped
  /\ Here.kind = "function" /\ Here.defined
  /\ err' = TRUE
  /\ frames' = Append(frames, Frame)
  /\ function' = 0
  /\ pc' = "walk"
  /\ UNCHANGED <<unit, phase, place, step, inside, enum, macros, stopped, result, history>>

EnterEnumFails ==
  /\ pc = "enter" /\ ~ stopped
  /\ Here.kind = "enum"
  /\ err' = TRUE
  /\ stopped' = TRUE
  /\ pc' = "walk"
  /\ UNCHANGED <<unit, phase, frames, place, step, inside, scope, macros, result, history>>

LeaveInEnum ==
  /\ pc = "walk"
  /\ Len(frames) > 1
  /\ stopped \/ Children = {}
  /\ frames' = Front(frames)
  /\ function' = Top.function
  /\ UNCHANGED <<unit, phase, pc, place, step, inside, enum, macros, stopped, err, result, history>>

Leave ==
  /\ pc = "walk"
  /\ Len(frames) > 1
  /\ stopped \/ Children = {}
  /\ frames' = Front(frames)
  /\ function' = Top.function
  /\ enum' = Top.enum
  /\ UNCHANGED <<unit, phase, pc, place, step, inside, macros, stopped, err, result, history>>

-----------------------------------------------------------------------------
(* The unit: scan_source from the diagnostics to its result.               *)

AtRoot == pc = "walk" /\ Len(frames) = 1 /\ (stopped \/ Children = {})

ReportsDone ==
  /\ phase = "report" /\ AtRoot /\ ~ stopped
  /\ phase' = "collect"
  /\ UNCHANGED <<unit, pc, frames, place, step, inside, scope, macros, stopped, err,
                 result, history>>

Expansion == Unit.expansions[considered + 1]
Expanding ==
  /\ phase = "collect" /\ ~ stopped
  /\ Unit.detailed /\ considered < Len(Unit.expansions)

CollectForeign ==
  /\ Expanding
  /\ Expansion.system
  /\ considered' = considered + 1
  /\ UNCHANGED <<unit, position, scope, ranges, capacity, stopped, err, result, history>>

Wider == IF capacity = 0 THEN InitialCapacity ELSE 2 * capacity

GrowFailsUnstopped ==
  /\ Expanding
  /\ ~ Expansion.system /\ Len(ranges) = capacity
  /\ err' = TRUE
  /\ ranges' = Append(ranges, Expansion.range)
  /\ considered' = considered + 1
  /\ UNCHANGED <<unit, position, scope, capacity, stopped, result, history>>

\* The table would be too large, or there is no memory for it.
GrowFails ==
  /\ Expanding
  /\ ~ Expansion.system /\ Len(ranges) = capacity
  /\ err' = TRUE
  /\ stopped' = TRUE
  /\ UNCHANGED <<unit, position, scope, macros, result, history>>

Grow ==
  /\ Expanding
  /\ ~ Expansion.system /\ Len(ranges) = capacity
  /\ Wider <= MaxCapacity
  /\ capacity' = Wider
  /\ UNCHANGED <<unit, position, scope, ranges, considered, stopped, err, result, history>>

Collect ==
  /\ Expanding
  /\ ~ Expansion.system /\ Len(ranges) < capacity
  /\ ranges' = Append(ranges, Expansion.range)
  /\ considered' = considered + 1
  /\ UNCHANGED <<unit, position, scope, capacity, stopped, err, result, history>>

StartVisit ==
  /\ phase = "collect" /\ ~ stopped /\ ~ Expanding
  /\ phase' = "visit"
  /\ frames' = Root({p \in Below(0) : At(p).kind \notin Reports})
  /\ UNCHANGED <<unit, pc, place, step, inside, scope, macros, stopped, err, result,
                 history>>

End ==
  /\ result = "none"
  /\ AtRoot /\ (phase = "visit" \/ stopped)
  /\ result' = IF stopped \/ err THEN "false" ELSE "true"
  /\ UNCHANGED <<unit, position, scope, macros, stopped, err, history>>

Outcome == {"continue", "refuse", "raise"}

VisitPlace ==
  \/ TakeUp \/ PlaceFails \/ Foreign \/ Begin \/ Omit \/ Finish
  \/ \E outcome \in Outcome : Emit(outcome)
  \/ \E stops \in BOOLEAN : StepFails(stops)

WalkTree == PassBy \/ Enter \/ EnterFunctionFails \/ EnterEnumFails \/ Leave

CollectMacros == CollectForeign \/ GrowFails \/ Grow \/ Collect

Next == VisitPlace \/ WalkTree \/ CollectMacros \/ ReportsDone \/ StartVisit \/ End

Spec == Init /\ [][Next]_vars

-----------------------------------------------------------------------------
(* What the tree says of a place, whoever visits it.                       *)

AncestorsIn(u) ==
  LET above[p \in DOMAIN Units[u].places] ==
        LET parent == Units[u].places[p].parent
        IN  IF parent = 0 THEN << >> ELSE Append(above[parent], parent)
  IN  above
Ancestors == [u \in DOMAIN Units |-> AncestorsIn(u)]

\* The innermost of the places that a place lies in, or 0.
Innermost(p, places) ==
  LET above == Ancestors[unit][p]
      found == {i \in DOMAIN above : above[i] \in places}
  IN  IF found = {} THEN 0 ELSE above[Max(found)]

Function(p) == Innermost(p, {a \in Place : At(a).kind = "function" /\ At(a).defined})
NamedEnum(p) ==
  LET inner == Innermost(p, {a \in Place : At(a).kind = "enum"})
  IN  IF inner # 0 /\ At(inner).named THEN inner ELSE 0
Holder(p) == Innermost(p, {a \in Place : At(a).kind \notin Wrapping})

Owes(p) ==
  /\ At(p).admitted /\ At(p).named
  /\ At(p).kind \in Declaring
  /\ At(p).kind = "enumerator" => NamedEnum(p) # 0

-----------------------------------------------------------------------------
(* Properties.                                                             *)

(* No range is written behind the array of macro expansions, even when it  *)
(* could not be made larger.                                               *)
TypeOK ==
  /\ unit \in DOMAIN Units
  /\ phase \in {"report", "collect", "visit"}
  /\ pc \in {"walk", "place", "emit", "enter"}
  /\ place \in {0} \cup Place
  /\ {function, enum} \subseteq {0} \cup Place
  /\ {stopped, err, inside} \subseteq BOOLEAN
  /\ capacity \in 0 .. MaxCapacity
  /\ ranges \in Seq(Nat) /\ Len(ranges) <= capacity
  /\ result \in {"none", "true", "false"}
  /\ heard \subseteq Place /\ blamed \subseteq Place
  /\ mutated \in Seq([place : Place, token : Nat, replacement : Nat])

(* The unit keeps the contract of UnitContract: an error or a refusal ends *)
(* it within one place, and true means that every admitted declaration,    *)
(* call, macro, file and diagnostic was handed over.                       *)
Contract == INSTANCE UnitContract WITH owed <- {p \in Place : Owes(p)}
KeepsContract == Contract!Spec

(* A record is made in the function and the enumeration that its cursor    *)
(* lies in, however deep they nest and whatever was visited before it; an  *)
(* error that spoils the name of either is heard with the first record.    *)
RecordsNameTheirScope ==
  last.place # 0 /\ ~ err =>
    /\ last.function = Function(last.place)
    /\ last.enum = NamedEnum(last.place)

(* With detailed preprocessing, CALL_NOT_ISOLATED is made of the calls     *)
(* that are written in the source rather than by a macro and stand neither *)
(* alone, nor behind an initialiser, nor right of an assignment; and of    *)
(* each of them, unless the unit fails.                                    *)
WrittenByMacro(c) ==
  \/ At(c).moved \/ ~ At(c).parens
  \/ \E i \in DOMAIN Unit.expansions :
       ~ Unit.expansions[i].system /\ Unit.expansions[i].range = At(c).range
StandsAlone(c) ==
  Holder(c) # 0 /\ At(Holder(c)).kind \in {"compound", "variable", "assignment"}
ToBlame ==
  {c \in Place : /\ At(c).kind = "call" /\ At(c).admitted
                 /\ ~ WrittenByMacro(c) /\ ~ StandsAlone(c)}
CallsAreJudged ==
  Unit.detailed /\ ~ err =>
    /\ blamed \subseteq ToBlame
    /\ result = "true" => blamed = ToBlame

(* "Emit at most one mutation candidate for the operator that this cursor  *)
(* itself denotes" (mutation_from_binary): no token is the candidate of    *)
(* two cursors, in nested operators and calls either, and each operator    *)
(* and callee with candidates has one unless the unit fails.               *)
CandidatesAreDistinct ==
  /\ IsInjective([i \in DOMAIN mutated |-> mutated[i].token])
  /\ result = "true" =>
       {mutated[i].place : i \in DOMAIN mutated} =
         {p \in Place : At(p).admitted /\ Candidates(p) # << >>}

(* An error predicate is swapped for the function with the opposite role,  *)
(* and only when the unit declares no other that could be meant: none with *)
(* an identity of its own, that is.                                        *)
PredicatesAreSwapped ==
  \A i \in DOMAIN mutated :
    LET m == mutated[i]
        opposites == {p \in Place : /\ At(p).kind = "function"
                                    /\ {At(p).role, At(m.place).role} =
                                         {"positive", "negative"}}
    IN  m.replacement # 0 => {At(p).usr : p \in opposites} \ {0} = {m.replacement}

=============================================================================
