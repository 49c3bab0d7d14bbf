--------------------------- MODULE FactParseProofs ---------------------------
(***************************************************************************)
(* What the parser reads of every line, however many fields a line may     *)
(* have and whichever of them are ill-formed.                              *)
(***************************************************************************)
EXTENDS FactParse, SequenceTheorems, TLAPS

\* What the parser takes from one column.
Entry == [type : {"text", "flag", "number"}, attribute : Attribute, column : 3 .. 15]

Types ==
  /\ line \in Line
  /\ fact \in [Attribute -> 0 .. MaxFields - 1]
  /\ next \in 1 .. Len(Reads) + 1
  /\ status \in Returned \cup {"begun", "split", "reading"}

\* Nothing is read before the number of the fields is known to be right for the kind.
Sized ==
  /\ status \in {"begun", "split"} => next = 1 /\ fact = Zeroed
  /\ status = "split" => line.count \in 7 .. MaxFields
  /\ status \in {"reading", "OK"} => line.count \in 7 .. MaxFields
                                     /\ line.count = FieldCount[line.kind]

\* An attribute holds what was read for it last, and nothing before it is read.
IsUnread(a) == fact[a] = 0 /\ \A i \in 1 .. next - 1 : Reads[i].attribute # a
IsRead(a) == \E i \in 1 .. next - 1 : /\ Reads[i].attribute = a /\ fact[a] = Reads[i].column
                                      /\ WellFormed(Reads[i])
ReadSoFar ==
  /\ status \in {"reading", "OK"} => \A a \in Attribute : IsUnread(a) \/ IsRead(a)
  /\ status = "OK" => next > Len(Reads)

IInv == Types /\ Sized /\ ReadSoFar

-----------------------------------------------------------------------------
(* The table of the kinds.                                                 *)

\* What is taken from the lines of one kind lies within their fields, converts every
\* flag and number, and agrees with the documented columns.
Fits(e, kind) ==
  /\ e.column < FieldCount[kind]
  /\ IsFlag(e.attribute) \/ IsNumber(e.attribute) => e.type # "text"
Agrees(e, columns) ==
  /\ e.column > 6 => e.attribute \in {columns[m] : m \in DOMAIN columns} \cup {"resolved"}
  /\ \A m \in DOMAIN columns : e.attribute = columns[m] => e.column = m + 6
Everywhere == {"line", "path", "module", "is_header"}
Tabled(kind) ==
  /\ Own(kind) \in Seq(Entry)
  /\ \A j \in 1 .. Len(Own(kind)) : Fits(Own(kind)[j], kind)
  /\ kind # "UNKNOWN" =>
       /\ \A j \in 1 .. Len(Own(kind)) : Agrees(Own(kind)[j], Documented[kind])
       /\ FieldCount[kind] > 7 <=> 1 \in DOMAIN Documented[kind]
       /\ \A m \in DOMAIN Documented[kind] :
            /\ Documented[kind][m] \notin Everywhere
            /\ Documented[kind][m] = "value" <=> m = 1
            /\ m # 1 =>
                 \E j \in 1 .. Len(Own(kind)) : Own(kind)[j].attribute = Documented[kind][m]

\* The table of an include is right.
LEMMA IncludeTable == Tabled("INCLUDE")
<1> DEFINE own == <<Flag("is_local", 8), Text("resolved", 9)>>
           columns == <<"value", "is_local">>
<1>1. Own("INCLUDE") = own
  BY DEF Own
<1>2. Documented["INCLUDE"] = columns /\ FieldCount["INCLUDE"] = 10
  BY DEF Documented, Kind, FieldCount
<1>3. own \in Seq(Entry) /\ Len(own) = 2 /\ DOMAIN columns = 1 .. 2
  BY DEF Entry, Attribute, Flag, Text
<1>4. \A j \in 1 .. 2 : Fits(own[j], "INCLUDE")
  BY <1>2 DEF Fits, IsFlag, IsNumber, Flag, Text
<1>5. \A j \in 1 .. 2 : Agrees(own[j], columns)
  BY DEF Agrees, Flag, Text
<1>6. \A m \in 1 .. 2 : /\ columns[m] \notin Everywhere /\ (columns[m] = "value" <=> m = 1)
                        /\ m # 1 => \E j \in 1 .. 2 : own[j].attribute = columns[m]
  BY DEF Everywhere, Flag, Text
<1> HIDE DEF own, columns
<1>7. QED
  BY <1>1, <1>2, <1>3, <1>4, <1>5, <1>6 DEF Tabled

\* The table of a function is right.
LEMMA FunctionTable == Tabled("FUNCTION")
<1> DEFINE own == <<Flag("is_static", 8), Flag("is_declaration", 9),
                    Flag("is_variadic", 15), Text("usr", 10), Text("type", 13),
                    Text("return_type", 14), Number("start", 11), Number("end", 12)>>
           columns == <<"value", "is_static", "is_declaration", "usr", "start", "end",
                        "type", "return_type", "is_variadic">>
<1>1. Own("FUNCTION") = own
  BY DEF Own
<1>2. Documented["FUNCTION"] = columns /\ FieldCount["FUNCTION"] = 16
  BY DEF Documented, Kind, FieldCount
<1>3. own \in Seq(Entry) /\ Len(own) = 8 /\ DOMAIN columns = 1 .. 9
  BY DEF Entry, Attribute, Flag, Number, Text
<1>4. \A j \in 1 .. 8 : Fits(own[j], "FUNCTION")
  BY <1>2 DEF Fits, IsFlag, IsNumber, Flag, Number, Text
<1>5. \A j \in 1 .. 8 : Agrees(own[j], columns)
  BY DEF Agrees, Flag, Number, Text
<1>6. \A m \in 1 .. 9 : /\ columns[m] \notin Everywhere /\ (columns[m] = "value" <=> m = 1)
                        /\ m # 1 => \E j \in 1 .. 8 : own[j].attribute = columns[m]
  BY DEF Everywhere, Flag, Number, Text
<1> HIDE DEF own, columns
<1>7. QED
  BY <1>1, <1>2, <1>3, <1>4, <1>5, <1>6 DEF Tabled

\* The table of a parameter is right.
LEMMA ParameterTable == Tabled("PARAMETER")
<1> DEFINE own == <<Text("type", 8), Text("canonical_type", 9), Text("caller_usr", 10),
                    Number("parameter_index", 11), Number("start", 12),
                    Number("end", 13)>>
           columns == <<"value", "type", "canonical_type", "caller_usr",
                        "parameter_index", "start", "end">>
<1>1. Own("PARAMETER") = own
  BY DEF Own
<1>2. Documented["PARAMETER"] = columns /\ FieldCount["PARAMETER"] = 14
  BY DEF Documented, Kind, FieldCount
<1>3. own \in Seq(Entry) /\ Len(own) = 6 /\ DOMAIN columns = 1 .. 7
  BY DEF Entry, Attribute, Number, Text
<1>4. \A j \in 1 .. 6 : Fits(own[j], "PARAMETER")
  BY <1>2 DEF Fits, IsFlag, IsNumber, Number, Text
<1>5. \A j \in 1 .. 6 : Agrees(own[j], columns)
  BY DEF Agrees, Number, Text
<1>6. \A m \in 1 .. 7 : /\ columns[m] \notin Everywhere /\ (columns[m] = "value" <=> m = 1)
                        /\ m # 1 => \E j \in 1 .. 6 : own[j].attribute = columns[m]
  BY DEF Everywhere, Number, Text
<1> HIDE DEF own, columns
<1>7. QED
  BY <1>1, <1>2, <1>3, <1>4, <1>5, <1>6 DEF Tabled

\* The table of a call is right.
LEMMA CallTable == Tabled("CALL")
<1> DEFINE own == <<Flag("has_env_parameter", 8), Flag("has_error_parameter", 9),
                    Flag("is_indirect", 10), Text("caller", 11), Text("usr", 12),
                    Text("caller_usr", 13), Number("start", 14), Number("end", 15)>>
           columns == <<"value", "has_env_parameter", "has_error_parameter",
                        "is_indirect", "caller", "usr", "caller_usr", "start", "end">>
<1>1. Own("CALL") = own
  BY DEF Own
<1>2. Documented["CALL"] = columns /\ FieldCount["CALL"] = 16
  BY DEF Documented, Kind, FieldCount
<1>3. own \in Seq(Entry) /\ Len(own) = 8 /\ DOMAIN columns = 1 .. 9
  BY DEF Entry, Attribute, Flag, Number, Text
<1>4. \A j \in 1 .. 8 : Fits(own[j], "CALL")
  BY <1>2 DEF Fits, IsFlag, IsNumber, Flag, Number, Text
<1>5. \A j \in 1 .. 8 : Agrees(own[j], columns)
  BY DEF Agrees, Flag, Number, Text
<1>6. \A m \in 1 .. 9 : /\ columns[m] \notin Everywhere /\ (columns[m] = "value" <=> m = 1)
                        /\ m # 1 => \E j \in 1 .. 8 : own[j].attribute = columns[m]
  BY DEF Everywhere, Flag, Number, Text
<1> HIDE DEF own, columns
<1>7. QED
  BY <1>1, <1>2, <1>3, <1>4, <1>5, <1>6 DEF Tabled

\* The table of a type is right.
LEMMA TypeTable == Tabled("TYPE")
<1> DEFINE own == <<Text("usr", 8)>>
           columns == <<"value", "usr">>
<1>1. Own("TYPE") = own
  BY DEF Own
<1>2. Documented["TYPE"] = columns /\ FieldCount["TYPE"] = 9
  BY DEF Documented, Kind, FieldCount
<1>3. own \in Seq(Entry) /\ Len(own) = 1 /\ DOMAIN columns = 1 .. 2
  BY DEF Entry, Attribute, Text
<1>4. \A j \in 1 .. 1 : Fits(own[j], "TYPE")
  BY <1>2 DEF Fits, IsFlag, IsNumber, Text
<1>5. \A j \in 1 .. 1 : Agrees(own[j], columns)
  BY DEF Agrees, Text
<1>6. \A m \in 1 .. 2 : /\ columns[m] \notin Everywhere /\ (columns[m] = "value" <=> m = 1)
                        /\ m # 1 => \E j \in 1 .. 1 : own[j].attribute = columns[m]
  BY DEF Everywhere, Text
<1> HIDE DEF own, columns
<1>7. QED
  BY <1>1, <1>2, <1>3, <1>4, <1>5, <1>6 DEF Tabled

\* The table of an enumeration is right.
LEMMA EnumTable == Tabled("ENUM")
<1> DEFINE own == <<Text("usr", 8)>>
           columns == <<"value", "usr">>
<1>1. Own("ENUM") = own
  BY DEF Own
<1>2. Documented["ENUM"] = columns /\ FieldCount["ENUM"] = 9
  BY DEF Documented, Kind, FieldCount
<1>3. own \in Seq(Entry) /\ Len(own) = 1 /\ DOMAIN columns = 1 .. 2
  BY DEF Entry, Attribute, Text
<1>4. \A j \in 1 .. 1 : Fits(own[j], "ENUM")
  BY <1>2 DEF Fits, IsFlag, IsNumber, Text
<1>5. \A j \in 1 .. 1 : Agrees(own[j], columns)
  BY DEF Agrees, Text
<1>6. \A m \in 1 .. 2 : /\ columns[m] \notin Everywhere /\ (columns[m] = "value" <=> m = 1)
                        /\ m # 1 => \E j \in 1 .. 1 : own[j].attribute = columns[m]
  BY DEF Everywhere, Text
<1> HIDE DEF own, columns
<1>7. QED
  BY <1>1, <1>2, <1>3, <1>4, <1>5, <1>6 DEF Tabled

\* The table of an enumerator is right.
LEMMA EnumeratorTable == Tabled("ENUMERATOR")
<1> DEFINE own == <<Text("caller", 8), Text("usr", 9), Text("caller_usr", 10)>>
           columns == <<"value", "caller", "usr", "caller_usr">>
<1>1. Own("ENUMERATOR") = own
  BY DEF Own
<1>2. Documented["ENUMERATOR"] = columns /\ FieldCount["ENUMERATOR"] = 11
  BY DEF Documented, Kind, FieldCount
<1>3. own \in Seq(Entry) /\ Len(own) = 3 /\ DOMAIN columns = 1 .. 4
  BY DEF Entry, Attribute, Text
<1>4. \A j \in 1 .. 3 : Fits(own[j], "ENUMERATOR")
  BY <1>2 DEF Fits, IsFlag, IsNumber, Text
<1>5. \A j \in 1 .. 3 : Agrees(own[j], columns)
  BY DEF Agrees, Text
<1>6. \A m \in 1 .. 4 : /\ columns[m] \notin Everywhere /\ (columns[m] = "value" <=> m = 1)
                        /\ m # 1 => \E j \in 1 .. 3 : own[j].attribute = columns[m]
  BY DEF Everywhere, Text
<1> HIDE DEF own, columns
<1>7. QED
  BY <1>1, <1>2, <1>3, <1>4, <1>5, <1>6 DEF Tabled

\* The table of a macro is right.
LEMMA MacroTable == Tabled("MACRO")
<1> DEFINE own == <<Flag("is_definition", 8), Number("start", 10), Number("end", 11),
                    Text("caller_usr", 9)>>
           columns == <<"value", "is_definition", "caller_usr", "start", "end">>
<1>1. Own("MACRO") = own
  BY DEF Own
<1>2. Documented["MACRO"] = columns /\ FieldCount["MACRO"] = 12
  BY DEF Documented, Kind, FieldCount
<1>3. own \in Seq(Entry) /\ Len(own) = 4 /\ DOMAIN columns = 1 .. 5
  BY DEF Entry, Attribute, Flag, Number, Text
<1>4. \A j \in 1 .. 4 : Fits(own[j], "MACRO")
  BY <1>2 DEF Fits, IsFlag, IsNumber, Flag, Number, Text
<1>5. \A j \in 1 .. 4 : Agrees(own[j], columns)
  BY DEF Agrees, Flag, Number, Text
<1>6. \A m \in 1 .. 5 : /\ columns[m] \notin Everywhere /\ (columns[m] = "value" <=> m = 1)
                        /\ m # 1 => \E j \in 1 .. 4 : own[j].attribute = columns[m]
  BY DEF Everywhere, Flag, Number, Text
<1> HIDE DEF own, columns
<1>7. QED
  BY <1>1, <1>2, <1>3, <1>4, <1>5, <1>6 DEF Tabled

\* The table of a note is right.
LEMMA NoteTable == Tabled("NOTE")
<1> DEFINE own == <<Text("caller", 8), Text("caller_usr", 10), Number("start", 11),
                    Number("end", 12), Number("column", 9)>>
           columns == <<"value", "caller", "column", "caller_usr", "start", "end">>
<1>1. Own("NOTE") = own
  BY DEF Own
<1>2. Documented["NOTE"] = columns /\ FieldCount["NOTE"] = 13
  BY DEF Documented, Kind, FieldCount
<1>3. own \in Seq(Entry) /\ Len(own) = 5 /\ DOMAIN columns = 1 .. 6
  BY DEF Entry, Attribute, Number, Text
<1>4. \A j \in 1 .. 5 : Fits(own[j], "NOTE")
  BY <1>2 DEF Fits, IsFlag, IsNumber, Number, Text
<1>5. \A j \in 1 .. 5 : Agrees(own[j], columns)
  BY DEF Agrees, Number, Text
<1>6. \A m \in 1 .. 6 : /\ columns[m] \notin Everywhere /\ (columns[m] = "value" <=> m = 1)
                        /\ m # 1 => \E j \in 1 .. 5 : own[j].attribute = columns[m]
  BY DEF Everywhere, Number, Text
<1> HIDE DEF own, columns
<1>7. 13 > 7 /\ 1 \in 1 .. 6
  OBVIOUS
<1>8. QED
  BY <1>1, <1>2, <1>3, <1>4, <1>5, <1>6, <1>7 DEF Tabled

\* The table of what has nothing more than the fields of every line is right.
LEMMA EmptyTable == Tabled("FILE") /\ Tabled("UNKNOWN")
<1>1. Own("FILE") = << >> /\ Own("UNKNOWN") = << >>
  BY DEF Own
<1>2. << >> \in Seq(Entry) /\ Len(<< >>) = 0 /\ 1 .. 0 = {}
  OBVIOUS
<1>3. Documented["FILE"] = << >> /\ DOMAIN << >> = {} /\ FieldCount["FILE"] = 7
  BY DEF Documented, Kind, FieldCount
<1>4. Tabled("FILE")
  <2>1. ~ (7 > 7) /\ 1 \notin DOMAIN << >>
    OBVIOUS
  <2>2. QED
    BY <1>1, <1>2, <1>3, <2>1 DEF Tabled
<1>5. Tabled("UNKNOWN")
  BY <1>1, <1>2 DEF Tabled
<1>6. QED
  BY <1>4, <1>5

\* The tables of all kinds are right.
LEMMA EveryTable == \A kind \in Kind : Tabled(kind)
  BY IncludeTable, FunctionTable, ParameterTable, CallTable, TypeTable, EnumTable,
     EnumeratorTable, MacroTable, NoteTable, EmptyTable DEF Kind

\* What is taken from every line is right, and the value where there is one.
LEMMA CommonEntries ==
  ASSUME NEW count \in Nat
  PROVE  /\ Common(count) \in Seq(Entry)
         /\ \A j \in 1 .. Len(Common(count)) :
              LET e == Common(count)[j]
              IN  \/ e.attribute \in Everywhere /\ e.column \in 3 .. 6
                       /\ (e.attribute \in {"line", "is_header"} => e.type # "text")
                  \/ count > 7 /\ e = Text("value", 7)
         /\ count > 7 => \E j \in 1 .. Len(Common(count)) : Common(count)[j] = Text("value", 7)
<1> DEFINE four == <<Number("line", 6), Text("path", 3), Text("module", 4), Flag("is_header", 5)>>
           one == <<Text("value", 7)>>
<1>1. /\ four \in Seq(Entry) /\ Len(four) = 4 /\ one \in Seq(Entry) /\ Len(one) = 1
      /\ \A j \in 1 .. 4 : /\ four[j].attribute \in Everywhere /\ four[j].column \in 3 .. 6
                           /\ four[j].attribute \in {"line", "is_header"} => four[j].type # "text"
      /\ one[1] = Text("value", 7)
  BY DEF Entry, Attribute, Everywhere, Number, Text, Flag
<1>2. Common(count) = four \o IF count > 7 THEN one ELSE << >>
  BY DEF Common
<1> HIDE DEF four, one
<1>3. CASE count > 7
  <2>1. /\ Common(count) \in Seq(Entry) /\ Len(Common(count)) = 4 + 1
        /\ \A j \in 1 .. 4 + 1 :
             Common(count)[j] = IF j <= 4 THEN four[j] ELSE one[j - 4]
    <3>1. Common(count) = four \o one
      BY <1>2, <1>3
    <3>2. /\ four \o one \in Seq(Entry) /\ Len(four \o one) = Len(four) + Len(one)
          /\ \A j \in 1 .. Len(four) + Len(one) :
               (four \o one)[j] = IF j <= Len(four) THEN four[j] ELSE one[j - Len(four)]
      BY <1>1, ConcatProperties
    <3>3. QED
      BY <1>1, <3>1, <3>2
  <2>2. \A j \in 1 .. 4 : Common(count)[j] = four[j]
    BY <2>1
  <2>3. Common(count)[5] = one[1]
    BY <2>1
  <2>4. \A j \in 1 .. Len(Common(count)) : j \in 1 .. 4 \/ j = 5
    BY <2>1
  <2>5. 5 \in 1 .. Len(Common(count))
    BY <2>1
  <2>6. ASSUME NEW j \in 1 .. Len(Common(count))
        PROVE  LET e == Common(count)[j]
               IN  \/ e.attribute \in Everywhere /\ e.column \in 3 .. 6
                       /\ (e.attribute \in {"line", "is_header"} => e.type # "text")
                   \/ count > 7 /\ e = Text("value", 7)
    <3>1. CASE j \in 1 .. 4
      <4>1. /\ four[j].attribute \in Everywhere /\ four[j].column \in 3 .. 6
            /\ four[j].attribute \in {"line", "is_header"} => four[j].type # "text"
        BY <1>1, <3>1
      <4>2. Common(count)[j] = four[j]
        BY <2>2, <3>1
      <4>3. QED
        BY <4>1, <4>2
    <3>2. CASE j = 5
      BY <1>1, <1>3, <2>3, <3>2
    <3>3. QED
      BY <2>4, <3>1, <3>2
  <2>7. QED
    BY <1>1, <2>1, <2>3, <2>5, <2>6
<1>4. CASE ~ (count > 7)
  <2>1. Common(count) = four
    BY <1>1, <1>2, <1>4, ConcatEmptySeq
  <2>2. ASSUME NEW j \in 1 .. Len(Common(count))
        PROVE  LET e == Common(count)[j]
               IN  e.attribute \in Everywhere /\ e.column \in 3 .. 6
                     /\ (e.attribute \in {"line", "is_header"} => e.type # "text")
    <3>1. /\ four[j].attribute \in Everywhere /\ four[j].column \in 3 .. 6
          /\ four[j].attribute \in {"line", "is_header"} => four[j].type # "text"
      BY <1>1, <2>1
    <3>2. QED
      BY <2>1, <3>1
  <2>3. QED
    BY <1>1, <1>4, <2>1, <2>2
<1>5. QED
  BY <1>3, <1>4

\* The parser takes what is common, then what is the kind's own.
LEMMA ReadsEntries ==
  ASSUME line \in Line
  PROVE  /\ Reads \in Seq(Entry)
         /\ \A i \in 1 .. Len(Reads) :
              \/ \E j \in 1 .. Len(Common(line.count)) : Reads[i] = Common(line.count)[j]
              \/ \E j \in 1 .. Len(Own(line.kind)) : Reads[i] = Own(line.kind)[j]
         /\ \A j \in 1 .. Len(Common(line.count)) :
              \E i \in 1 .. Len(Reads) : Reads[i] = Common(line.count)[j]
         /\ \A j \in 1 .. Len(Own(line.kind)) :
              \E i \in 1 .. Len(Reads) : Reads[i] = Own(line.kind)[j]
<1> DEFINE s == Common(line.count)
           t == Own(line.kind)
<1>1. line.count \in Nat /\ line.kind \in Kind
  BY LimitAssumption DEF Line
<1>2. s \in Seq(Entry) /\ t \in Seq(Entry)
  BY <1>1, CommonEntries, EveryTable DEF Tabled
<1>3. Reads = s \o t
  BY DEF Reads
<1> HIDE DEF s, t
<1>4. /\ Reads \in Seq(Entry) /\ Len(Reads) = Len(s) + Len(t)
      /\ \A i \in 1 .. Len(s) + Len(t) :
           Reads[i] = IF i <= Len(s) THEN s[i] ELSE t[i - Len(s)]
  BY <1>2, <1>3, ConcatProperties
<1>5. Len(s) \in Nat /\ Len(t) \in Nat
  BY <1>2
<1>6. ASSUME NEW i \in 1 .. Len(Reads)
      PROVE  (\E j \in 1 .. Len(s) : Reads[i] = s[j]) \/ (\E j \in 1 .. Len(t) : Reads[i] = t[j])
  <2>1. CASE i <= Len(s)
    BY <1>4, <1>5, <2>1
  <2>2. CASE ~ (i <= Len(s))
    <3>1. i - Len(s) \in 1 .. Len(t)
      BY <1>4, <1>5, <2>2
    <3>2. QED
      BY <1>4, <1>5, <2>2, <3>1
  <2>3. QED
    BY <2>1, <2>2
<1>7. ASSUME NEW j \in 1 .. Len(s) PROVE \E i \in 1 .. Len(Reads) : Reads[i] = s[j]
  <2>1. j \in 1 .. Len(s) + Len(t) /\ j <= Len(s)
    BY <1>5
  <2>2. QED
    BY <1>4, <2>1
<1>8. ASSUME NEW j \in 1 .. Len(t) PROVE \E i \in 1 .. Len(Reads) : Reads[i] = t[j]
  <2>1. /\ Len(s) + j \in 1 .. Len(s) + Len(t) /\ ~ (Len(s) + j <= Len(s))
        /\ Len(s) + j - Len(s) = j
    BY <1>5
  <2>2. Reads[Len(s) + j] = t[j]
    BY <1>4, <2>1
  <2>3. QED
    BY <1>4, <2>1, <2>2
<1>9. QED
  BY <1>4, <1>6, <1>7, <1>8 DEF s, t

\* What is taken from a line of the right size is right.
LEMMA ReadsAreRight ==
  ASSUME line \in Line, line.count = FieldCount[line.kind]
  PROVE  /\ \A i \in 1 .. Len(Reads) : Fits(Reads[i], line.kind)
         /\ line.kind # "UNKNOWN" =>
              /\ \A i \in 1 .. Len(Reads) : Agrees(Reads[i], Documented[line.kind])
              /\ \A m \in DOMAIN Documented[line.kind] :
                   \E i \in 1 .. Len(Reads) : Reads[i].attribute = Documented[line.kind][m]
<1> DEFINE s == Common(line.count)
           t == Own(line.kind)
           columns == Documented[line.kind]
<1>1. line.count \in Nat /\ line.kind \in Kind /\ line.count >= 7
  <2>1. line.count \in Nat /\ line.kind \in Kind
    BY LimitAssumption DEF Line
  <2>2. \A kind \in Kind : FieldCount[kind] >= 7
    BY DEF Kind, FieldCount
  <2>3. QED
    BY <2>1, <2>2
<1>2. Tabled(line.kind)
  BY <1>1, EveryTable
<1>3. ASSUME NEW j \in 1 .. Len(s) PROVE Fits(s[j], line.kind)
  <2>1. \/ s[j].attribute \in Everywhere /\ s[j].column \in 3 .. 6
             /\ (s[j].attribute \in {"line", "is_header"} => s[j].type # "text")
        \/ line.count > 7 /\ s[j] = Text("value", 7)
    BY <1>1, CommonEntries
  <2>2. QED
    BY <1>1, <2>1 DEF Fits, Everywhere, IsFlag, IsNumber, Text
<1>4. \A i \in 1 .. Len(Reads) : Fits(Reads[i], line.kind)
  BY <1>2, <1>3, ReadsEntries DEF Tabled
<1>5. ASSUME line.kind # "UNKNOWN"
      PROVE  /\ \A i \in 1 .. Len(Reads) : Agrees(Reads[i], columns)
             /\ \A m \in DOMAIN columns :
                  \E i \in 1 .. Len(Reads) : Reads[i].attribute = columns[m]
  <2>1. /\ \A j \in 1 .. Len(t) : Agrees(t[j], columns)
        /\ line.count > 7 <=> 1 \in DOMAIN columns
        /\ \A m \in DOMAIN columns :
             /\ columns[m] \notin Everywhere
             /\ columns[m] = "value" <=> m = 1
             /\ m # 1 => \E j \in 1 .. Len(t) : t[j].attribute = columns[m]
    BY <1>2, <1>5 DEF Tabled
  <2>2. ASSUME NEW j \in 1 .. Len(s) PROVE Agrees(s[j], columns)
    <3>1. \/ s[j].attribute \in Everywhere /\ s[j].column \in 3 .. 6
          \/ line.count > 7 /\ s[j] = Text("value", 7)
      BY <1>1, CommonEntries
    <3>2. CASE s[j].attribute \in Everywhere /\ s[j].column \in 3 .. 6
      BY <2>1, <3>2 DEF Agrees
    <3>3. CASE line.count > 7 /\ s[j] = Text("value", 7)
      <4>1. 1 \in DOMAIN columns /\ columns[1] = "value"
        BY <2>1, <3>3
      <4>2. s[j].attribute = "value" /\ s[j].column = 7
        BY <3>3 DEF Text
      <4>3. \A m \in DOMAIN columns : "value" = columns[m] => m = 1
        BY <2>1
      <4>4. QED
        BY <4>1, <4>2, <4>3 DEF Agrees
    <3>4. QED
      BY <3>1, <3>2, <3>3
  <2>3. \A i \in 1 .. Len(Reads) : Agrees(Reads[i], columns)
    BY <2>1, <2>2, ReadsEntries
  <2>4. ASSUME NEW m \in DOMAIN columns
        PROVE  \E i \in 1 .. Len(Reads) : Reads[i].attribute = columns[m]
    <3>1. CASE m = 1
      <4>1. line.count > 7 /\ columns[m] = "value"
        BY <2>1, <3>1
      <4>2. PICK j \in 1 .. Len(s) : s[j] = Text("value", 7)
        BY <1>1, <4>1, CommonEntries
      <4>3. QED
        BY <4>1, <4>2, ReadsEntries DEF Text
    <3>2. CASE m # 1
      <4>1. PICK j \in 1 .. Len(t) : t[j].attribute = columns[m]
        BY <2>1, <3>2
      <4>2. QED
        BY <4>1, ReadsEntries
    <3>3. QED
      BY <3>1, <3>2
  <2>5. QED
    BY <2>3, <2>4
<1>6. QED
  BY <1>4, <1>5

-----------------------------------------------------------------------------
(* The invariant.                                                          *)

\* A line comes as it is: nothing has been read of it.
LEMMA Initially == Init => IInv
<1>1. SUFFICES ASSUME Init PROVE IInv
  OBVIOUS
<1>2. Reads \in Seq(Entry) /\ Len(Reads) \in Nat
  BY <1>1, ReadsEntries, LenProperties DEF Init
<1>3. fact \in [Attribute -> 0 .. MaxFields - 1]
  BY <1>1, LimitAssumption DEF Init, Zeroed
<1>4. QED
  BY <1>1, <1>2, <1>3 DEF Init, IInv, Types, Sized, ReadSoFar

\* What the parser reads in a step is a column that the line has.
LEMMA WhatIsRead ==
  ASSUME IInv, status = "reading", next <= Len(Reads)
  PROVE  /\ next \in 1 .. Len(Reads)
         /\ Reads[next] \in Entry /\ Reads[next].attribute \in Attribute
         /\ Reads[next].column \in Nat /\ Reads[next].column < line.count
         /\ line.count \in Nat /\ line.count <= MaxFields
<1>1. line \in Line /\ line.count = FieldCount[line.kind] /\ line.count \in 7 .. MaxFields
  BY DEF IInv, Types, Sized
<1>2. Reads \in Seq(Entry) /\ next \in 1 .. Len(Reads)
  BY <1>1, ReadsEntries DEF IInv, Types
<1>3. Reads[next] \in Entry
  BY <1>2
<1>4. Reads[next].column < line.count
  BY <1>1, <1>2, ReadsAreRight DEF Fits
<1>5. Reads[next].attribute \in Attribute /\ Reads[next].column \in 3 .. 15
  BY <1>3 DEF Entry
<1>6. QED
  BY <1>1, <1>2, <1>3, <1>4, <1>5, LimitAssumption

\* A read sets its attribute, and leaves the others as they were.
LEMMA ReadKeeps ==
  ASSUME IInv, Read
  PROVE  IInv'
<1> DEFINE e == Reads[next]
<1>1. /\ status = "reading" /\ status' = "reading" /\ next <= Len(Reads) /\ next' = next + 1
      /\ line' = line /\ WellFormed(e)
      /\ fact' = [fact EXCEPT ![e.attribute] = e.column]
  BY DEF Read
<1>2. Reads' = Reads
  BY <1>1 DEF Reads
<1>3. /\ next \in 1 .. Len(Reads) /\ e.attribute \in Attribute
      /\ e.column \in Nat /\ e.column < line.count
      /\ line.count \in Nat /\ line.count <= MaxFields
  BY <1>1, WhatIsRead
<1>4. fact \in [Attribute -> 0 .. MaxFields - 1] /\ line \in Line /\ Len(Reads) \in Nat
  BY ReadsEntries, LenProperties DEF IInv, Types
<1>5. e.column \in 0 .. MaxFields - 1
  BY <1>3, LimitAssumption
<1>6. fact'[e.attribute] = e.column /\ \A a \in Attribute : a # e.attribute => fact'[a] = fact[a]
  BY <1>1, <1>3, <1>4
<1>7. Types'
  <2>1. fact' \in [Attribute -> 0 .. MaxFields - 1]
    BY <1>1, <1>3, <1>4, <1>5
  <2>2. next' \in 1 .. Len(Reads) + 1
    BY <1>1, <1>3, <1>4
  <2>3. QED
    BY <1>1, <1>2, <1>4, <2>1, <2>2 DEF Types
<1>8. Sized'
  BY <1>1 DEF IInv, Sized
<1>9. ASSUME NEW a \in Attribute
      PROVE  \/ fact'[a] = 0 /\ \A i \in 1 .. next : Reads[i].attribute # a
             \/ \E i \in 1 .. next : /\ Reads[i].attribute = a /\ fact'[a] = Reads[i].column
                                    /\ WellFormed(Reads[i])
  <2>1. CASE a = e.attribute
    BY <1>1, <1>3, <1>6, <2>1
  <2>2. CASE a # e.attribute
    <3>1. IsUnread(a) \/ IsRead(a)
      BY <1>1 DEF IInv, ReadSoFar
    <3>2. fact'[a] = fact[a]
      BY <1>6, <2>2
    <3>3. \A i \in 1 .. next : i \in 1 .. next - 1 \/ i = next
      BY <1>3
    <3>4. \A i \in 1 .. next - 1 : i \in 1 .. next
      BY <1>3
    <3>5. CASE IsUnread(a)
      BY <2>2, <3>2, <3>3, <3>5 DEF IsUnread
    <3>6. CASE IsRead(a)
      BY <3>2, <3>4, <3>6 DEF IsRead
    <3>7. QED
      BY <3>1, <3>5, <3>6
  <2>3. QED
    BY <2>1, <2>2
<1>10. next' - 1 = next
  BY <1>1, <1>3
<1>11. ReadSoFar'
  BY <1>1, <1>2, <1>9, <1>10 DEF ReadSoFar, IsUnread, IsRead, WellFormed
<1>12. QED
  BY <1>7, <1>8, <1>11 DEF IInv

\* Every other step ends the parsing, or goes on to the next check of it.
LEMMA OthersKeep ==
  ASSUME IInv, [Next]_vars, ~ Read
  PROVE  IInv'
<1>1. line' = line /\ fact' = fact /\ next' = next
  BY DEF Next, vars, NoLine, NotAFact, Split, WrongSize, BadVersion, WrongCount, RightCount,
     ReadFails, Accept, Finish
<1>2. Reads' = Reads
  BY <1>1 DEF Reads
<1>3. \/ status' = status
      \/ status' \in {"MALFORMED", "OTHER", "BAD_VERSION"}
      \/ status = "begun" /\ status' = "split" /\ line.count \in 7 .. MaxFields
      \/ status = "split" /\ status' = "reading" /\ line.count = FieldCount[line.kind]
      \/ status = "reading" /\ status' = "OK" /\ next > Len(Reads)
  BY DEF Next, vars, NoLine, NotAFact, Split, WrongSize, BadVersion, WrongCount, RightCount,
     ReadFails, Accept, Finish
<1>4. Types'
  BY <1>1, <1>2, <1>3 DEF IInv, Types, Returned
<1>5. Sized'
  BY <1>1, <1>3 DEF IInv, Sized
<1>6. ASSUME status' \in {"reading", "OK"}, NEW a \in Attribute
      PROVE  IsUnread(a) \/ IsRead(a)
  <2>1. CASE status \in {"reading", "OK"}
    BY <2>1 DEF IInv, ReadSoFar
  <2>2. CASE status \in {"begun", "split"}
    <3>1. next = 1 /\ fact = Zeroed /\ 1 .. 1 - 1 = {}
      BY <2>2 DEF IInv, Sized
    <3>2. QED
      BY <3>1 DEF IsUnread, Zeroed
  <2>3. QED
    BY <1>3, <1>6, <2>1, <2>2
<1>7. \A a \in Attribute : (IsUnread(a)' <=> IsUnread(a)) /\ (IsRead(a)' <=> IsRead(a))
  BY <1>1, <1>2 DEF IsUnread, IsRead, WellFormed
<1>8. status' = "OK" => next' > Len(Reads)'
  BY <1>1, <1>2, <1>3 DEF IInv, ReadSoFar
<1>9. ReadSoFar'
  BY <1>6, <1>7, <1>8 DEF ReadSoFar
<1>10. QED
  BY <1>4, <1>5, <1>9 DEF IInv

\* The parser's invariant holds of every line.
LEMMA Invariant == Spec => []IInv
<1>1. IInv /\ [Next]_vars => IInv'
  BY ReadKeeps, OthersKeep
<1>2. QED
  BY <1>1, Initially, PTL DEF Spec

\* The attributes of a fact come from columns that a line can have.
THEOREM TypeCorrect == Spec => []TypeOK
<1>1. IInv => TypeOK
  BY DEF IInv, Types, TypeOK
<1>2. QED
  BY <1>1, Invariant, PTL

\* The parser reads no field that split_fact_line has not set.
THEOREM OnlyGivenFieldsAreRead == Spec => []ReadsGivenFields
<1>1. IInv => ReadsGivenFields
  BY WhatIsRead DEF ReadsGivenFields
<1>2. QED
  BY <1>1, Invariant, PTL

\* A fact that is accepted holds what the README documents for its kind, with every flag
\* and number converted.
THEOREM AcceptedFactsMatch == Spec => []FactsMatchTheTable
<1>1. IInv => FactsMatchTheTable
  <2> DEFINE columns == Documented[line.kind]
             given == {columns[i] : i \in DOMAIN columns}
  <2>1. SUFFICES ASSUME IInv, status = "OK", line.kind # "UNKNOWN"
        PROVE  /\ \A m \in DOMAIN columns : fact[columns[m]] = m + 6
               /\ \A a \in Attribute :
                    /\ fact[a] > 6 => a \in given \cup {"resolved"}
                    /\ IsFlag(a) \/ IsNumber(a) => fact[a] = 0 \/ fact[a] \notin line.flaws
    BY DEF FactsMatchTheTable
  <2>2. /\ line \in Line /\ line.count = FieldCount[line.kind]
        /\ next = Len(Reads) + 1 /\ Len(Reads) \in Nat
    BY <2>1, ReadsEntries, LenProperties DEF IInv, Types, Sized, ReadSoFar
  <2>3. next - 1 = Len(Reads)
    BY <2>2
  <2>4. \A a \in Attribute :
          \/ fact[a] = 0 /\ \A i \in 1 .. Len(Reads) : Reads[i].attribute # a
          \/ \E i \in 1 .. Len(Reads) : /\ Reads[i].attribute = a /\ fact[a] = Reads[i].column
                                       /\ WellFormed(Reads[i])
    BY <2>1, <2>3 DEF IInv, ReadSoFar, IsUnread, IsRead
  <2>5. /\ \A i \in 1 .. Len(Reads) : /\ Fits(Reads[i], line.kind)
                                     /\ Agrees(Reads[i], columns)
        /\ \A m \in DOMAIN columns :
              \E i \in 1 .. Len(Reads) : Reads[i].attribute = columns[m]
    BY <2>1, <2>2, ReadsAreRight
  <2>6. ASSUME NEW i \in 1 .. Len(Reads) PROVE Reads[i].attribute \in Attribute
    <3>1. Reads \in Seq(Entry)
      BY <2>2, ReadsEntries
    <3>2. Reads[i] \in Entry
      BY <3>1
    <3>3. QED
      BY <3>2 DEF Entry
  <2>7. ASSUME NEW m \in DOMAIN columns PROVE fact[columns[m]] = m + 6
    <3>1. columns[m] \in Attribute
      BY <2>5, <2>6
    <3>2. PICK i \in 1 .. Len(Reads) : Reads[i].attribute = columns[m]
                                     /\ fact[columns[m]] = Reads[i].column
      BY <2>4, <2>5, <3>1
    <3>3. QED
      BY <2>5, <3>2 DEF Agrees
  <2>8. ASSUME NEW a \in Attribute
        PROVE  /\ fact[a] > 6 => a \in given \cup {"resolved"}
               /\ IsFlag(a) \/ IsNumber(a) => fact[a] = 0 \/ fact[a] \notin line.flaws
    <3>1. CASE fact[a] = 0
      BY <3>1
    <3>2. ASSUME NEW i \in 1 .. Len(Reads), Reads[i].attribute = a, fact[a] = Reads[i].column,
                 WellFormed(Reads[i])
          PROVE  /\ fact[a] > 6 => a \in given \cup {"resolved"}
                 /\ IsFlag(a) \/ IsNumber(a) => fact[a] = 0 \/ fact[a] \notin line.flaws
      BY <2>5, <3>2 DEF Agrees, Fits, WellFormed
    <3>3. QED
      BY <2>4, <3>1, <3>2
  <2>9. QED
    BY <2>7, <2>8
<1>2. QED
  BY <1>1, Invariant, PTL

=============================================================================
