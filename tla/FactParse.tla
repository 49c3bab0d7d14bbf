------------------------------ MODULE FactParse ------------------------------
(***************************************************************************)
(* p101_c_fact_parse_line: one line of the P101FACT format becomes a fact, *)
(* or is turned away with a status.                                        *)
(*                                                                         *)
(* The text of a field matters only where the parser converts it, so a     *)
(* line is described by its kind, the number of its fields, and the        *)
(* columns that do not hold what a flag ("0" or "1") or a number must be.  *)
(* The fact says for each of its attributes which column it was read from. *)
(***************************************************************************)
EXTENDS Naturals, Sequences, FiniteSets

CONSTANTS
  MaxFields,  \* FACT_MAX_FIELDS
  MaxFlaws    \* bound: ill-formed columns in one line

ASSUME LimitAssumption == MaxFields \in Nat /\ MaxFields >= 7 /\ MaxFlaws \in Nat

VARIABLES
  line,    \* the line to parse
  fact,    \* the fact so far: the column each attribute came from
  next,    \* the next conversion or assignment to make
  status   \* the status to return, or where the parser stands

vars == <<line, fact, next, status>>

Text(attribute, column)   == [type |-> "text", attribute |-> attribute, column |-> column]
Flag(attribute, column)   == [type |-> "flag", attribute |-> attribute, column |-> column]
Number(attribute, column) == [type |-> "number", attribute |-> attribute, column |-> column]

Kind == {"UNKNOWN", "FILE", "INCLUDE", "FUNCTION", "PARAMETER", "CALL", "TYPE", "ENUM",
         "ENUMERATOR", "MACRO", "NOTE"}

\* field_count_is_valid: the exact number of fields of each kind.
FieldCount ==
  [kind \in Kind |-> CASE kind \in {"UNKNOWN", "FILE"} -> 7
                       [] kind = "INCLUDE" -> 10
                       [] kind \in {"FUNCTION", "CALL"} -> 16
                       [] kind = "PARAMETER" -> 14
                       [] kind \in {"TYPE", "ENUM"} -> 9
                       [] kind = "ENUMERATOR" -> 11
                       [] kind = "MACRO" -> 12
                       [] kind = "NOTE" -> 13]

\* What the parser takes from every line, in its order ...
Common(count) ==
  <<Number("line", 6), Text("path", 3), Text("module", 4), Flag("is_header", 5)>>
  \o IF count > 7 THEN <<Text("value", 7)>> ELSE << >>

\* Faults.  An operator named after a definition and a mistake (OwnSwapped) is
\* that definition with the mistake in it; no other definition uses it.
OwnSwapped(kind) ==
  IF kind = "ENUMERATOR"
  THEN <<Text("caller", 8), Text("usr", 10), Text("caller_usr", 9)>>
  ELSE << >>

\* ... and from the lines of each kind.  FILE and UNKNOWN have nothing more.
Own(kind) ==
  CASE kind = "INCLUDE" ->
         <<Flag("is_local", 8), Text("resolved", 9)>>
    [] kind = "FUNCTION" ->
         <<Flag("is_static", 8), Flag("is_declaration", 9), Flag("is_variadic", 15),
           Text("usr", 10), Text("type", 13), Text("return_type", 14),
           Number("start", 11), Number("end", 12)>>
    [] kind = "CALL" ->
         <<Flag("has_env_parameter", 8), Flag("has_error_parameter", 9),
           Flag("is_indirect", 10), Text("caller", 11), Text("usr", 12),
           Text("caller_usr", 13), Number("start", 14), Number("end", 15)>>
    [] kind = "PARAMETER" ->
         <<Text("type", 8), Text("canonical_type", 9), Text("caller_usr", 10),
           Number("parameter_index", 11), Number("start", 12), Number("end", 13)>>
    [] kind = "ENUMERATOR" ->
         <<Text("caller", 8), Text("usr", 9), Text("caller_usr", 10)>>
    [] kind \in {"TYPE", "ENUM"} -> <<Text("usr", 8)>>
    [] kind = "MACRO" ->
         <<Flag("is_definition", 8), Number("start", 10), Number("end", 11),
           Text("caller_usr", 9)>>
    [] kind = "NOTE" ->
         <<Text("caller", 8), Text("caller_usr", 10), Number("start", 11),
           Number("end", 12), Number("column", 9)>>
    [] OTHER -> << >>

Reads == Common(line.count) \o Own(line.kind)

Attribute == {"line", "path", "module", "is_header", "value", "is_local", "resolved",
              "is_static", "is_declaration", "is_variadic", "usr", "type",
              "return_type", "start", "end", "has_env_parameter",
              "has_error_parameter", "is_indirect", "caller", "caller_usr",
              "canonical_type", "parameter_index", "is_definition", "column"}
Zeroed == [attribute \in Attribute |-> 0]

\* A line tagged P101FACT has at least two fields; its kind may be any text.
Line == [null : BOOLEAN, tagged : BOOLEAN, current : BOOLEAN, kind : Kind,
         count : 2 .. MaxFields + 2,
         flaws : {f \in SUBSET (3 .. MaxFields - 1) : Cardinality(f) <= MaxFlaws}]

Init ==
  /\ line \in Line
  /\ fact = Zeroed
  /\ next = 1
  /\ status = "begun"

Finish(verdict) == status' = verdict /\ UNCHANGED <<line, fact, next>>

-----------------------------------------------------------------------------
NoLine == status = "begun" /\ line.null /\ Finish("MALFORMED")

NotAFact == status = "begun" /\ ~ line.null /\ ~ line.tagged /\ Finish("OTHER")

\* split_fact_line gives up one field past the most a fact can have.
Split ==
  /\ status = "begun" /\ ~ line.null /\ line.tagged
  /\ line.count \in 7 .. MaxFields
  /\ Finish("split")

WrongSize ==
  /\ status = "begun" /\ ~ line.null /\ line.tagged
  /\ line.count \notin 7 .. MaxFields
  /\ Finish("MALFORMED")

BadVersion == status = "split" /\ ~ line.current /\ Finish("BAD_VERSION")

WrongCount ==
  /\ status = "split" /\ line.current
  /\ line.count # FieldCount[line.kind]
  /\ Finish("MALFORMED")

RightCountUnasked == status = "split" /\ line.current /\ Finish("reading")

RightCount ==
  /\ status = "split" /\ line.current
  /\ line.count = FieldCount[line.kind]
  /\ Finish("reading")

WellFormed(read) == read.type = "text" \/ read.column \notin line.flaws

ReadSkippingOne ==
  /\ status = "reading" /\ next <= Len(Reads)
  /\ WellFormed(Reads[next])
  /\ fact' = [fact EXCEPT ![Reads[next].attribute] = Reads[next].column]
  /\ next' = next + 2
  /\ UNCHANGED <<line, status>>

Read ==
  /\ status = "reading" /\ next <= Len(Reads)
  /\ WellFormed(Reads[next])
  /\ fact' = [fact EXCEPT ![Reads[next].attribute] = Reads[next].column]
  /\ next' = next + 1
  /\ UNCHANGED <<line, status>>

\* The attributes read before the ill-formed one stay set.
ReadFails ==
  /\ status = "reading" /\ next <= Len(Reads)
  /\ ~ WellFormed(Reads[next])
  /\ Finish("MALFORMED")

Accept == status = "reading" /\ next > Len(Reads) /\ Finish("OK")

Next ==
  \/ NoLine \/ NotAFact \/ Split \/ WrongSize \/ BadVersion
  \/ WrongCount \/ RightCount \/ Read \/ ReadFails \/ Accept

Spec == Init /\ [][Next]_vars

-----------------------------------------------------------------------------
(* Properties.                                                             *)

Returned == {"OK", "OTHER", "BAD_VERSION", "MALFORMED"}

TypeOK ==
  /\ line \in Line
  /\ fact \in [Attribute -> 0 .. MaxFields - 1]
  /\ next \in 1 .. Len(Reads) + 1
  /\ status \in Returned \cup {"begun", "split", "reading"}

(* The parser never reads past the fields the line has: fields[] beyond    *)
(* them is never written by split_fact_line.                               *)
ReadsGivenFields ==
  status = "reading" /\ next <= Len(Reads) => Reads[next].column < line.count

(* README.md, "Record format": the columns of each kind after the seventh. *)
Documented ==
  [kind \in Kind \ {"UNKNOWN"} |->
     CASE kind = "FILE" -> << >>
       [] kind = "INCLUDE" -> <<"value", "is_local">>
       [] kind = "FUNCTION" ->
            <<"value", "is_static", "is_declaration", "usr", "start", "end", "type",
              "return_type", "is_variadic">>
       [] kind = "PARAMETER" ->
            <<"value", "type", "canonical_type", "caller_usr", "parameter_index",
              "start", "end">>
       [] kind = "CALL" ->
            <<"value", "has_env_parameter", "has_error_parameter", "is_indirect",
              "caller", "usr", "caller_usr", "start", "end">>
       [] kind \in {"TYPE", "ENUM"} -> <<"value", "usr">>
       [] kind = "ENUMERATOR" -> <<"value", "caller", "usr", "caller_usr">>
       [] kind = "MACRO" -> <<"value", "is_definition", "caller_usr", "start", "end">>
       [] kind = "NOTE" -> <<"value", "caller", "column", "caller_usr", "start", "end">>]

IsFlag(attribute) ==
  attribute \in {"is_header", "is_local", "is_static", "is_declaration", "is_variadic",
                 "has_env_parameter", "has_error_parameter", "is_indirect",
                 "is_definition"}
IsNumber(attribute) ==
  attribute \in {"line", "start", "end", "parameter_index", "column"}

(* A fact that is accepted holds in every attribute the column the README  *)
(* documents for its kind, and nothing in the attributes of other kinds    *)
(* (but for an INCLUDE's resolved path, which it does not mention).  None  *)
(* of its flags and numbers was left unconverted.                          *)
FactsMatchTheTable ==
  status = "OK" /\ line.kind # "UNKNOWN" =>
    LET columns == Documented[line.kind]
        given == {columns[i] : i \in DOMAIN columns}
    IN  /\ \A i \in DOMAIN columns : fact[columns[i]] = i + 6
        /\ \A attribute \in Attribute :
             /\ fact[attribute] > 6 => attribute \in given \cup {"resolved"}
             /\ IsFlag(attribute) \/ IsNumber(attribute)
                  => fact[attribute] = 0 \/ fact[attribute] \notin line.flaws

=============================================================================
