-------------------------- MODULE RecordStreamProofs --------------------------
(***************************************************************************)
(* What a unit hands over, whatever its tree: it keeps the contract of     *)
(* UnitContract, names the scope of every record, judges its calls and its *)
(* error predicates by the whole unit, and offers each mutation once.      *)
(***************************************************************************)
EXTENDS RecordStream, FiniteSetTheorems, WellFoundedInduction, SequenceTheorems, TLAPS

Anywhere == {0} \cup Place
FrameRecord == [place : Anywhere, left : SUBSET Place, function : Anywhere, enum : Anywhere]
Candidate == [place : Place, token : Nat, replacement : Nat]

Types ==
  /\ unit \in DOMAIN Units
  /\ phase \in {"report", "collect", "visit"}
  /\ pc \in {"walk", "place", "emit", "enter"}
  /\ place \in Anywhere /\ function \in Anywhere /\ enum \in Anywhere
  /\ frames \in Seq(FrameRecord) /\ Len(frames) >= 1
  /\ step \in Nat \ {0}
  /\ inside \in BOOLEAN /\ stopped \in BOOLEAN /\ err \in BOOLEAN
  /\ result \in {"none", "true", "false"}

\* The array of macro expansions holds what was collected, and no more than it can.
Foreigner(i) == Unit.expansions[i].system
Macros ==
  /\ capacity \in 0 .. MaxCapacity
  /\ ranges \in Seq(Nat) /\ Len(ranges) <= capacity
  /\ considered \in 0 .. Len(Unit.expansions)
  /\ \A r \in Nat :
       (\E i \in 1 .. Len(ranges) : ranges[i] = r) <=>
         \E i \in 1 .. considered : ~ Foreigner(i) /\ Unit.expansions[i].range = r
  /\ phase = "visit" /\ Unit.detailed => considered = Len(Unit.expansions)

\* The frames are the places that the place at hand lies in, outermost first.
Path ==
  /\ frames[1].place = 0
  /\ \A i \in 2 .. Len(frames) :
       frames[i].place \in Place /\ At(frames[i].place).parent = frames[i - 1].place
  /\ pc # "walk" => place \in Place /\ At(place).parent = Top.place

\* What is left in a frame are the places below it that come after the place at hand;
\* the reports are taken up first.
Awaits(i, q) == i = 1 => (At(q).kind \in Reports <=> phase = "report")
Order ==
  /\ \A i \in 1 .. Len(frames) :
       frames[i].left =
         IF phase = "collect" THEN {}
         ELSE {q \in Below(frames[i].place) : q > place /\ Awaits(i, q)}
  /\ \A i \in 1 .. Len(frames) : frames[i].place <= place
  /\ phase # "visit" => Len(frames) = 1 /\ (place # 0 => At(place).kind \in Reports)
  /\ phase # "report" /\ ~ stopped => \A q \in Place : q > place => At(q).kind \notin Reports
  /\ phase = "collect" => pc = "walk"

\* No place is passed over: the next one lies where the walk still goes.
Reach == {frames[i].place : i \in 1 .. Len(frames)} \cup IF pc = "walk" THEN {} ELSE {place}
NextInReach == ~ stopped => \A q \in Place : q = place + 1 => At(q).parent \in Reach

\* When the unit is done, the walk is over.
Over == result # "none" => AtRoot /\ (phase = "visit" \/ stopped)

\* The function and the enumeration that what lies directly below a place lies in.
FunctionAt(p) == IF p = 0 THEN 0
                 ELSE IF At(p).kind = "function" /\ At(p).defined THEN p ELSE Function(p)
EnumAt(p) == IF p = 0 THEN 0
             ELSE IF At(p).kind = "enum" THEN IF At(p).named THEN p ELSE 0
             ELSE NamedEnum(p)
Scopes ==
  ~ err =>
    /\ \A i \in 2 .. Len(frames) : /\ frames[i].function = Function(frames[i].place)
                                   /\ frames[i].enum = NamedEnum(frames[i].place)
    /\ function = FunctionAt(Top.place) /\ enum = EnumAt(Top.place)
    /\ last.place # 0 => /\ last.place \in Place
                         /\ last.function = Function(last.place)
                         /\ last.enum = NamedEnum(last.place)

\* What was asked of the places behind the one at hand, and in the steps behind the one
\* to take.
Behind(q) == q < place \/ (q = place /\ pc \in {"enter", "walk"})
Said(words) ==
  pc = "emit" /\ \E i \in 1 .. step - 1 : i <= Len(Program) /\ Program[i].says \in words
Heard ==
  /\ heard \subseteq Place
  /\ ~ stopped /\ ~ err =>
       /\ \A q \in Place : Behind(q) /\ Owes(q) => q \in heard
       /\ Said(OwnRecords) /\ Owes(place) => place \in heard

Blamed ==
  /\ blamed \subseteq Place
  /\ pc = "emit" => Here.admitted
  /\ Unit.detailed /\ ~ err =>
       /\ blamed \subseteq ToBlame
       /\ ~ stopped =>
            /\ \A q \in ToBlame : Behind(q) => q \in blamed
            /\ Said({"CALL_NOT_ISOLATED"}) /\ place \in ToBlame => place \in blamed

\* A candidate that replaces an error predicate names the only identity of the opposite role.
Opposites(c) ==
  {p \in Place : At(p).kind = "function" /\ {At(p).role, At(c).role} = {"positive", "negative"}}
Swapped(m) == m.replacement # 0 => {At(p).usr : p \in Opposites(m.place)} \ {0} = {m.replacement}
Mutated ==
  /\ mutated \in Seq(Candidate)
  /\ \A i \in 1 .. Len(mutated) : Swapped(mutated[i])

\* The places with a candidate have named it once they are behind, each its own and once:
\* it is the last thing that a place hands over.
Offering == {p \in Place : At(p).admitted /\ Candidates(p) # << >>}
Named(list) == {list[i].place : i \in 1 .. Len(list)}
Chosen ==
  /\ \A i \in 1 .. Len(mutated) :
       mutated[i].place \in Offering /\ mutated[i] = Candidates(mutated[i].place)[1]
  /\ \A i, j \in 1 .. Len(mutated) : mutated[i].place = mutated[j].place => i = j
  /\ \A i \in 1 .. Len(mutated) :
       /\ mutated[i].place <= place
       /\ mutated[i].place = place => pc # "place" /\ (pc = "emit" => step > Len(Program))
  /\ ~ stopped /\ ~ err =>
       /\ \A q \in Offering : Behind(q) => q \in Named(mutated)
       /\ Said({"MUTATION"}) /\ place \in Offering => place \in Named(mutated)

Ended == result = "true" => ~ stopped /\ ~ err /\ place = Len(Unit.places)

IInv == Types /\ Macros /\ Path /\ Order /\ NextInReach /\ Over /\ Scopes /\ Heard /\ Blamed
        /\ Mutated /\ Chosen /\ Ended

\* The tokens by which a place can be named: the first of those spelt like its operator or
\* callee, and the whole call if it is a statement.
Marks(places, p) ==
  (IF places[p].kind \in {"binary", "call"} /\ places[p].tokens # << >>
   THEN {Head(places[p].tokens)} ELSE {})
  \cup (IF places[p].kind = "call" /\ places[p].parent # 0
           /\ places[places[p].parent].kind = "compound"
        THEN {places[p].range} ELSE {})

\* libclang gives no two places of a unit the same mark: two operators or callees do not
\* begin with the same token, and two calls do not have the same extent.
MarksDiffer(places) ==
  \A p, q \in DOMAIN places : p # q => Marks(places, p) \cap Marks(places, q) = {}
-----------------------------------------------------------------------------
(* Numbers and trees.                                                      *)

\* Among numbers there is a least one: the sets 1 .. m are well ordered.
LEMMA LeastNumber ==
  ASSUME NEW T \in SUBSET Nat, T # {}
  PROVE  \E m \in T : \A n \in T : m <= n
<1> DEFINE I == {1 .. m : m \in T}
<1>1. IsWellFoundedOn(StrictSubsetOrdering(Nat), FiniteSubsetsOf(Nat))
  BY FS_StrictSubsetOrderingWellFounded
<1>2. \A m \in T : 1 .. m \in FiniteSubsetsOf(Nat)
  BY FS_Interval DEF FiniteSubsetsOf
<1>3. I \subseteq FiniteSubsetsOf(Nat) /\ I # {}
  BY <1>2
<1> HIDE DEF I
<1>4. \E x \in I : \A y \in I : ~ (<<y, x>> \in StrictSubsetOrdering(Nat))
  BY <1>1, <1>3, WFMin
<1> USE DEF I
<1>5. PICK m \in T : \A n \in T : ~ (<<1 .. n, 1 .. m>> \in StrictSubsetOrdering(Nat))
  BY <1>4
<1>6. ASSUME NEW n \in T, n < m PROVE FALSE
  <2>1. /\ 1 .. n \in SUBSET Nat /\ 1 .. m \in SUBSET Nat
        /\ 1 .. n \subseteq 1 .. m /\ m \in 1 .. m /\ m \notin 1 .. n
    BY <1>6
  <2>2. <<1 .. n, 1 .. m>> \in StrictSubsetOrdering(Nat)
    BY <2>1 DEF StrictSubsetOrdering
  <2>3. QED
    BY <1>5, <2>2
<1>7. QED
  BY <1>6

\* Min finds the least number.
LEMMA MinIsLeast ==
  ASSUME NEW T \in SUBSET Nat, T # {}
  PROVE  Min(T) \in T /\ \A n \in T : Min(T) <= n
<1>1. \E m \in T : \A n \in T : m <= n
  BY LeastNumber
<1>2. QED
  BY <1>1 DEF Min

\* Max finds the greatest number of a bounded set.
LEMMA MaxIsGreatest ==
  ASSUME NEW m \in Nat, NEW T \in SUBSET (0 .. m), T # {}
  PROVE  Max(T) \in T /\ \A n \in T : n <= Max(T)
<1> DEFINE D == {m - n : n \in T}
<1>1. D \in SUBSET Nat /\ D # {}
  <2>1. \A n \in T : m - n \in Nat
    OBVIOUS
  <2>2. QED
    BY <2>1
<1>2. PICK d \in D : \A e \in D : d <= e
  BY <1>1, LeastNumber
<1>3. PICK g \in T : d = m - g
  BY <1>2
<1>4. ASSUME NEW n \in T PROVE g >= n
  <2>1. m - g <= m - n
    BY <1>2, <1>3
  <2>2. QED
    BY <2>1
<1>5. \E x \in T : \A y \in T : x >= y
  BY <1>4
<1>6. Max(T) \in T /\ \A n \in T : Max(T) >= n
  BY <1>5 DEF Max
<1>7. QED
  BY <1>6

\* What the assumption says of the unit at hand.
LEMMA Shape ==
  ASSUME unit \in DOMAIN Units
  PROVE  /\ Unit.detailed \in BOOLEAN /\ Unit.places \in Seq(PlaceRecord)
         /\ Unit.expansions \in Seq([range : Nat, system : BOOLEAN])
         /\ Len(Unit.places) \in Nat /\ Place = 1 .. Len(Unit.places)
         /\ \A p \in Place : At(p) \in PlaceRecord /\ At(p).parent \in Anywhere /\ At(p).parent < p
         /\ \A p, q \in Place : At(q).parent < p /\ p < q => At(q).parent <= At(p).parent
         /\ \A p, q \in Place : At(q).kind \in Reports /\ p <= q =>
              At(p).kind \in Reports /\ At(p).parent = 0
         /\ \A p, q \in Place : At(q).parent = p => At(p).kind \notin Reports
<1>1. /\ Unit \in [detailed : BOOLEAN, places : Seq(PlaceRecord),
                  expansions : Seq([range : Nat, system : BOOLEAN])]
      /\ Presented(Unit.places)
  <2> DEFINE S == [detailed : BOOLEAN, places : Seq(PlaceRecord),
                   expansions : Seq([range : Nat, system : BOOLEAN])]
  <2> HIDE DEF S
  <2>1. Units \in Seq(S)
    BY UnitAssumption DEF S
  <2>2. Units[unit] \in S
    BY <2>1
  <2>3. Presented(Units[unit].places)
    BY UnitAssumption
  <2>4. QED
    BY <2>2, <2>3 DEF Unit, S
<1>2. Unit.detailed \in BOOLEAN /\ Unit.places \in Seq(PlaceRecord)
      /\ Unit.expansions \in Seq([range : Nat, system : BOOLEAN])
  BY <1>1
<1>3. Len(Unit.places) \in Nat /\ Place = 1 .. Len(Unit.places)
  BY <1>2 DEF Place
<1>4. \A p \in Place : At(p) \in PlaceRecord
  BY <1>2, <1>3 DEF At
<1>5. \A p \in Place : At(p).parent < p
  BY <1>1 DEF Presented, Place, At
<1>6. ASSUME NEW p \in Place PROVE At(p).parent \in Anywhere
  <2>1. At(p).parent \in Nat
    BY <1>4 DEF PlaceRecord
  <2>2. QED
    BY <1>3, <1>5, <2>1 DEF Anywhere
<1>7. QED
  BY <1>1, <1>2, <1>3, <1>4, <1>5, <1>6 DEF Presented, Place, At

\* The sequence of the places above those up to the m-th.
Climb(above, u, m) ==
  above = [p \in 1 .. m |->
             LET parent == Units[u].places[p].parent
             IN  IF parent = 0 THEN << >> ELSE Append(above[parent], parent)]

\* Such sequences exist for the places of a unit: a least place up to which there are
\* none would lie in a place before it, up to which there are.
LEMMA ClimbExists ==
  ASSUME unit \in DOMAIN Units
  PROVE  \A m \in 0 .. Len(Unit.places) : \E above : Climb(above, unit, m)
<1> DEFINE N == Len(Unit.places)
           T == {m \in 0 .. N : ~ \E above : Climb(above, unit, m)}
           parent(p) == Units[unit].places[p].parent
           value(p, f) == IF parent(p) = 0 THEN << >> ELSE Append(f[parent(p)], parent(p))
<1>1. /\ N \in Nat
      /\ \A p \in 1 .. N : parent(p) \in Nat /\ parent(p) < p
  BY Shape DEF Unit, At, Anywhere
<1>2. SUFFICES ASSUME T # {} PROVE FALSE
  OBVIOUS
<1>3. PICK m \in T : \A n \in T : m <= n
  <2>1. T \in SUBSET Nat
    BY <1>1
  <2>2. QED
    BY <1>2, <2>1, LeastNumber
<1>4. m \in Nat /\ m <= N
  BY <1>1
<1>5. m # 0
  <2>1. Climb([p \in 1 .. 0 |-> << >>], unit, 0)
    BY DEF Climb
  <2>2. QED
    BY <2>1
<1>6. PICK g : Climb(g, unit, m - 1)
  <2>1. m - 1 \in 0 .. N /\ ~ (m <= m - 1)
    BY <1>1, <1>4, <1>5
  <2>2. QED
    BY <1>3, <2>1
<1> DEFINE h == [p \in 1 .. m |-> value(p, g)]
<1>7. g = [p \in 1 .. m - 1 |-> value(p, g)]
  BY <1>6 DEF Climb
<1>8. \A p \in 1 .. m - 1 : h[p] = g[p]
  <2> TAKE p \in 1 .. m - 1
  <2>1. p \in 1 .. m
    BY <1>4
  <2> DEFINE v == value(p, g)
  <2>2. h[p] = v
    BY <2>1
  <2>3. g[p] = v
    BY <1>7
  <2> HIDE DEF v, h
  <2>4. QED
    BY <2>2, <2>3
<1>9. \A p \in 1 .. m : parent(p) # 0 => parent(p) \in 1 .. m - 1
  BY <1>1, <1>4
<1> HIDE DEF h
<1>10. \A p \in 1 .. m : value(p, h) = value(p, g)
  BY <1>8, <1>9
<1>11. h = [p \in 1 .. m |-> value(p, h)]
  BY <1>10 DEF h
<1>12. Climb(h, unit, m)
  BY <1>11 DEF Climb
<1>13. QED
  BY <1>3, <1>12

\* What a place lies in is its parent and what that lies in.
LEMMA AncestorsOfPlace ==
  ASSUME unit \in DOMAIN Units, NEW p \in Place
  PROVE  Ancestors[unit][p] =
           IF At(p).parent = 0 THEN << >>
           ELSE Append(Ancestors[unit][At(p).parent], At(p).parent)
<1>1. Place = 1 .. Len(Unit.places) /\ Len(Unit.places) \in 0 .. Len(Unit.places)
  BY Shape
<1>2. PICK above : Climb(above, unit, Len(Unit.places))
  BY <1>1, ClimbExists
<1>3. DOMAIN Units[unit].places = 1 .. Len(Unit.places)
  BY <1>1 DEF Place, Unit
<1>4. Climb(AncestorsIn(unit), unit, Len(Unit.places))
  BY <1>2, <1>3 DEF Climb, AncestorsIn
<1>5. AncestorsIn(unit)[p] =
           IF Units[unit].places[p].parent = 0 THEN << >>
           ELSE Append(AncestorsIn(unit)[Units[unit].places[p].parent],
                       Units[unit].places[p].parent)
  BY <1>1, <1>4 DEF Climb
<1>6. Ancestors[unit] = AncestorsIn(unit)
  BY DEF Ancestors
<1>7. QED
  BY <1>5, <1>6 DEF At, Unit

\* The places that a place lies in are places.
LEMMA AncestorsArePlaces ==
  ASSUME unit \in DOMAIN Units
  PROVE  \A p \in Place : Ancestors[unit][p] \in Seq(Place)
<1> DEFINE T == {p \in Place : Ancestors[unit][p] \notin Seq(Place)}
<1>1. SUFFICES ASSUME T # {} PROVE FALSE
  OBVIOUS
<1>2. PICK m \in T : \A n \in T : m <= n
  <2>1. T \in SUBSET Nat
    BY Shape
  <2>2. QED
    BY <1>1, <2>1, LeastNumber
<1>3. m \in Place /\ m \in Nat
  BY Shape
<1>4. At(m).parent # 0 =>
        At(m).parent \in Place /\ At(m).parent \in Nat /\ ~ (m <= At(m).parent)
  BY <1>3, Shape DEF Anywhere
<1>5. At(m).parent # 0 => Ancestors[unit][At(m).parent] \in Seq(Place)
  BY <1>2, <1>4
<1>6. At(m).parent # 0 => Append(Ancestors[unit][At(m).parent], At(m).parent) \in Seq(Place)
  BY <1>4, <1>5, AppendProperties
<1>7. Ancestors[unit][m] \in Seq(Place)
  <2>1. << >> \in Seq(Place)
    OBVIOUS
  <2>2. QED
    BY <1>3, <1>6, <2>1, AncestorsOfPlace
<1>8. QED
  BY <1>7

\* The innermost of some places that a place lies in is its parent, or that of its parent.
LEMMA InnermostOfPlace ==
  ASSUME unit \in DOMAIN Units, NEW p \in Place, NEW places
  PROVE  Innermost(p, places) =
           IF At(p).parent = 0 THEN 0
           ELSE IF At(p).parent \in places THEN At(p).parent
           ELSE Innermost(At(p).parent, places)
<1> DEFINE q == At(p).parent
           above == Ancestors[unit][p]
           found == {i \in DOMAIN above : above[i] \in places}
           a == Ancestors[unit][q]
           seen == {i \in DOMAIN a : a[i] \in places}
<1>1. Innermost(p, places) = IF found = {} THEN 0 ELSE above[Max(found)]
  BY DEF Innermost
<1>2. Innermost(q, places) = IF seen = {} THEN 0 ELSE a[Max(seen)]
  BY DEF Innermost
<1>3. above = IF q = 0 THEN << >> ELSE Append(a, q)
  BY AncestorsOfPlace
<1>4. CASE q = 0
  <2>1. found = {}
    BY <1>3, <1>4
  <2>2. QED
    BY <1>1, <1>4, <2>1
<1>5. CASE q # 0
  <2> DEFINE n == Len(a)
  <2>1. q \in Place /\ a \in Seq(Place)
    BY <1>5, Shape, AncestorsArePlaces DEF Anywhere
  <2> HIDE DEF a, q
  <2>2. /\ above \in Seq(Place) /\ Len(above) = n + 1 /\ above[n + 1] = q /\ n \in Nat
        /\ \A i \in 1 .. n : above[i] = a[i]
    BY <1>3, <1>5, <2>1, AppendProperties, LenProperties
  <2> HIDE DEF above
  <2>3. DOMAIN above = 1 .. n + 1 /\ DOMAIN a = 1 .. n
    BY <2>1, <2>2
  <2>4. n + 1 \in Nat /\ found \in SUBSET (0 .. n + 1) /\ seen \in SUBSET (0 .. n)
    BY <2>2, <2>3
  <2>5. CASE q \in places
    <3>1. n + 1 \in found /\ found # {}
      BY <2>2, <2>3, <2>5
    <3>2. Max(found) \in found /\ n + 1 <= Max(found)
      BY <2>4, <3>1, MaxIsGreatest
    <3>3. Max(found) = n + 1
      BY <2>2, <2>3, <3>2
    <3>4. Innermost(p, places) = q
      BY <1>1, <2>2, <3>1, <3>3
    <3>5. QED
      BY <1>5, <2>5, <3>4 DEF q
  <2>6. CASE q \notin places
    <3>1. found = seen
      <4>1. \A i \in 1 .. n + 1 : i \in 1 .. n \/ i = n + 1
        BY <2>2
      <4>2. \A i \in 1 .. n : i \in 1 .. n + 1
        BY <2>2
      <4>3. \A i : i \in found <=> i \in seen
        BY <2>2, <2>3, <2>6, <4>1, <4>2
      <4>4. QED
        BY <4>3
    <3>2. seen # {} => Max(seen) \in seen
      BY <2>2, <2>4, MaxIsGreatest
    <3>3. seen # {} => above[Max(seen)] = a[Max(seen)]
      BY <2>2, <2>3, <3>2
    <3>4. Innermost(p, places) = Innermost(q, places)
      <4> HIDE DEF found, seen
      <4>1. QED
        BY <1>1, <1>2, <3>1, <3>3
    <3>5. QED
      BY <1>5, <2>6, <3>4 DEF q
  <2>7. QED
    BY <2>5, <2>6
<1>6. QED
  BY <1>4, <1>5

\* The function, the named enumeration and the holder of a place, by its parent.
HolderAt(p) == IF p = 0 THEN 0 ELSE IF At(p).kind \notin Wrapping THEN p ELSE Holder(p)

\* What a place lies in is its parent, if that is of the kind, or what that lies in.
LEMMA ScopeOfPlace ==
  ASSUME unit \in DOMAIN Units, NEW p \in Place
  PROVE  /\ Function(p) = FunctionAt(At(p).parent)
         /\ NamedEnum(p) = EnumAt(At(p).parent)
         /\ Holder(p) = HolderAt(At(p).parent)
<1> DEFINE q == At(p).parent
<1>1. q # 0 => q \in Place
  BY Shape DEF Anywhere
<1>2. Function(p) = FunctionAt(q)
  <2> DEFINE S == {a \in Place : At(a).kind = "function" /\ At(a).defined}
  <2>1. Innermost(p, S) = IF q = 0 THEN 0 ELSE IF q \in S THEN q ELSE Innermost(q, S)
    BY InnermostOfPlace
  <2>2. QED
    BY <1>1, <2>1 DEF Function, FunctionAt
<1>3. Holder(p) = HolderAt(q)
  <2> DEFINE S == {a \in Place : At(a).kind \notin Wrapping}
  <2>1. Innermost(p, S) = IF q = 0 THEN 0 ELSE IF q \in S THEN q ELSE Innermost(q, S)
    BY InnermostOfPlace
  <2>2. QED
    BY <1>1, <2>1 DEF Holder, HolderAt
<1>4. NamedEnum(p) = EnumAt(q)
  <2> DEFINE S == {a \in Place : At(a).kind = "enum"}
  <2>1. Innermost(p, S) = IF q = 0 THEN 0 ELSE IF q \in S THEN q ELSE Innermost(q, S)
    BY InnermostOfPlace
  <2>2. QED
    BY <1>1, <2>1 DEF NamedEnum, EnumAt
<1>5. QED
  BY <1>2, <1>3, <1>4

-----------------------------------------------------------------------------
(* The programs of the kinds.                                              *)

\* The records that a property asks for.
Wanted == OwnRecords \cup {"CALL_NOT_ISOLATED", "MUTATION"}

\* A record that a property asks for is made once, if the visit is not stopped; mutations
\* also if it is.  The program of a call has its mutation last: what comes before it fits
\* the head of a call.
Fits(e, kind) ==
  /\ e.says \in Wanted \ {"MUTATION"} => e.when = "asked" /\ e.many = "one" /\ e.fails = {}
  /\ e.says = "CALL_NOT_ISOLATED" => kind \in {"call", "call head"}
  /\ e.says = "ENUMERATOR" => kind = "enumerator"
  /\ e.says = "MUTATION" => /\ kind \in {"call", "binary"}
                            /\ e.when \in {"asked", "always"} /\ e.many = "one"
Fitting(program, kind) ==
  /\ \E S : program \in Seq(S)
  /\ \A i \in 1 .. Len(program) : Fits(program[i], kind)

\* A program that is put together from fitting ones fits.
LEMMA FittingTogether ==
  ASSUME NEW kind, NEW s, NEW t, Fitting(s, kind), Fitting(t, kind)
  PROVE  /\ Fitting(s \o t, kind) /\ Len(s \o t) = Len(s) + Len(t)
         /\ Len(s) \in Nat /\ Len(t) \in Nat
         /\ \A i \in 1 .. Len(s) : (s \o t)[i] = s[i]
<1>1. PICK S : s \in Seq(S)
  BY DEF Fitting
<1>2. PICK T : t \in Seq(T)
  BY DEF Fitting
<1>3. s \in Seq(S \cup T) /\ t \in Seq(S \cup T)
  BY <1>1, <1>2
<1>4. /\ s \o t \in Seq(S \cup T) /\ Len(s \o t) = Len(s) + Len(t)
      /\ \A i \in 1 .. Len(s) + Len(t) :
           (s \o t)[i] = IF i <= Len(s) THEN s[i] ELSE t[i - Len(s)]
  BY <1>3, ConcatProperties
<1>5. Len(s) \in Nat /\ Len(t) \in Nat
  BY <1>1, <1>2
<1>6. ASSUME NEW i \in 1 .. Len(s) + Len(t)
      PROVE  Fits((s \o t)[i], kind)
  <2>1. CASE i <= Len(s)
    <3>1. i \in 1 .. Len(s) /\ (s \o t)[i] = s[i]
      BY <1>4, <1>5, <2>1
    <3>2. Fits(s[i], kind)
      BY <3>1 DEF Fitting
    <3>3. QED
      BY <3>1, <3>2
  <2>2. CASE ~ (i <= Len(s))
    <3>1. i - Len(s) \in 1 .. Len(t) /\ (s \o t)[i] = t[i - Len(s)]
      BY <1>4, <1>5, <2>2
    <3>2. Fits(t[i - Len(s)], kind)
      BY <3>1 DEF Fitting
    <3>3. QED
      BY <3>1, <3>2
  <2>3. QED
    BY <2>1, <2>2
<1>7. \A i \in 1 .. Len(s) : i \in 1 .. Len(s) + Len(t) /\ i <= Len(s)
  BY <1>5
<1>8. QED
  BY <1>4, <1>5, <1>6, <1>7 DEF Fitting

\* A step that hands over none of these records fits everywhere.
LEMMA OtherFits ==
  ASSUME NEW kind, NEW says, NEW when, NEW many, NEW fails, says \notin Wanted
  PROVE  Fits(Step(says, when, many, fails), kind)
BY DEF Fits, Step, Wanted, OwnRecords

\* What a place hands over as its own record fits, an enumerator's in its program only.
LEMMA OwnFits ==
  ASSUME NEW kind, NEW says \in OwnRecords, says = "ENUMERATOR" => kind = "enumerator"
  PROVE  Fits(Own(says), kind)
BY DEF Fits, Own, Note, Step, OwnRecords, Wanted

\* What fits the head of a call fits the call.
LEMMA HeadFitsCall ==
  ASSUME NEW s, Fitting(s, "call head")
  PROVE  Fitting(s, "call")
<1>1. \A e : Fits(e, "call head") => Fits(e, "call")
  BY DEF Fits
<1>2. QED
  BY <1>1 DEF Fitting
\* A program of up to three steps that fit, fits.
LEMMA OneFits ==
  ASSUME NEW kind, NEW a, Fits(a, kind)
  PROVE  Fitting(<<a>>, kind)
<1> DEFINE S == {a}
           s == <<a>>
<1>1. s \in Seq(S) /\ Len(s) = 1 /\ s[1] = a
  OBVIOUS
<1> HIDE DEF s
<1>2. \A i \in 1 .. 1 : i = 1
  OBVIOUS
<1>3. \A i \in 1 .. 1 : Fits(s[i], kind)
  BY <1>1, <1>2
<1>4. \E X : s \in Seq(X)
  BY <1>1
<1>5. QED
  BY <1>1, <1>3, <1>4 DEF Fitting

\* So does one of two.
LEMMA TwoFit ==
  ASSUME NEW kind, NEW a, NEW b, Fits(a, kind), Fits(b, kind)
  PROVE  Fitting(<<a, b>>, kind)
<1> DEFINE S == {a, b}
           s == <<a, b>>
<1>1. s \in Seq(S) /\ Len(s) = 2 /\ s[1] = a /\ s[2] = b
  OBVIOUS
<1> HIDE DEF s
<1>2. \A i \in 1 .. 2 : i = 1 \/ i = 2
  OBVIOUS
<1>3. \A i \in 1 .. 2 : Fits(s[i], kind)
  BY <1>1, <1>2
<1>4. \E X : s \in Seq(X)
  BY <1>1
<1>5. QED
  BY <1>1, <1>3, <1>4 DEF Fitting

\* So does one of three.
LEMMA ThreeFit ==
  ASSUME NEW kind, NEW a, NEW b, NEW c, Fits(a, kind), Fits(b, kind), Fits(c, kind)
  PROVE  Fitting(<<a, b, c>>, kind)
<1> DEFINE S == {a, b, c}
           s == <<a, b, c>>
<1>1. s \in Seq(S) /\ Len(s) = 3 /\ s[1] = a /\ s[2] = b /\ s[3] = c
  OBVIOUS
<1> HIDE DEF s
<1>2. \A i \in 1 .. 3 : i = 1 \/ i = 2 \/ i = 3
  OBVIOUS
<1>3. \A i \in 1 .. 3 : Fits(s[i], kind)
  BY <1>1, <1>2
<1>4. \E X : s \in Seq(X)
  BY <1>1
<1>5. QED
  BY <1>1, <1>3, <1>4 DEF Fitting

\* So does one of five, in two parts.
LEMMA FiveFit ==
  ASSUME NEW kind, NEW a, NEW b, NEW c, NEW d, NEW e,
         Fits(a, kind), Fits(b, kind), Fits(c, kind), Fits(d, kind), Fits(e, kind)
  PROVE  Fitting(<<a, b, c, d, e>>, kind)
<1> DEFINE first == <<a, b, c>>
           second == <<d, e>>
<1>1. Fitting(first, kind) /\ Fitting(second, kind)
  BY ThreeFit, TwoFit
<1>2. <<a, b, c, d, e>> = first \o second
  OBVIOUS
<1> HIDE DEF first, second
<1>3. QED
  BY <1>1, <1>2, FittingTogether

\* So does one of seven, in three parts.
LEMMA SevenFit ==
  ASSUME NEW kind, NEW a, NEW b, NEW c, NEW d, NEW e, NEW f, NEW g,
         Fits(a, kind), Fits(b, kind), Fits(c, kind), Fits(d, kind), Fits(e, kind),
         Fits(f, kind), Fits(g, kind)
  PROVE  Fitting(<<a, b, c, d, e, f, g>>, kind)
<1> DEFINE first == <<a, b, c>>
           second == <<d, e, f>>
           third == <<g>>
<1>1. Fitting(first, kind) /\ Fitting(second, kind) /\ Fitting(third, kind)
  BY OneFits, ThreeFit
<1>2. <<a, b, c, d, e, f, g>> = first \o second \o third
  OBVIOUS
<1> HIDE DEF first, second, third
<1>3. QED
  BY <1>1, <1>2, FittingTogether

\* So does one of eight.
LEMMA EightFit ==
  ASSUME NEW kind, NEW a, NEW b, NEW c, NEW d, NEW e, NEW f, NEW g, NEW h,
         Fits(a, kind), Fits(b, kind), Fits(c, kind), Fits(d, kind), Fits(e, kind),
         Fits(f, kind), Fits(g, kind), Fits(h, kind)
  PROVE  Fitting(<<a, b, c, d, e, f, g, h>>, kind)
<1> DEFINE first == <<a, b, c>>
           second == <<d, e, f>>
           third == <<g, h>>
<1>1. Fitting(first, kind) /\ Fitting(second, kind) /\ Fitting(third, kind)
  BY ThreeFit, TwoFit
<1>2. <<a, b, c, d, e, f, g, h>> = first \o second \o third
  OBVIOUS
<1> HIDE DEF first, second, third
<1>3. QED
  BY <1>1, <1>2, FittingTogether

\* The notes about the order of a signature fit in every program.
LEMMA SignatureNotesFit ==
  ASSUME NEW kind
  PROVE  Fitting(SignatureNotes, kind)
<1>1. "SIGNATURE_ENV_ORDER" \notin Wanted
  BY DEF Wanted, OwnRecords
<1>2. Fits(Note("SIGNATURE_ENV_ORDER", "asked"), kind)
  BY <1>1, OtherFits DEF Note
<1>3. QED
  BY <1>2, OneFits DEF SignatureNotes

\* The notes about an allocation fit in every program.
LEMMA AllocationNotesFit ==
  ASSUME NEW kind
  PROVE  Fitting(AllocationNotes, kind)
<1>1. "ALLOC_SIZEOF_TYPE" \notin Wanted
  BY DEF Wanted, OwnRecords
<1>2. Fits(Note("ALLOC_SIZEOF_TYPE", "block"), kind)
  BY <1>1, OtherFits DEF Note
<1>3. QED
  BY <1>2, OneFits DEF AllocationNotes

\* The notes about a registered handler fit in every program.
LEMMA HandlerNotesFit ==
  ASSUME NEW kind
  PROVE  Fitting(HandlerNotes, kind)
<1>1. "HANDLER_REGISTERED" \notin Wanted
  BY DEF Wanted, OwnRecords
<1>2. Fits(Step("HANDLER_REGISTERED", "inside", "all", {FALSE}), kind)
  BY <1>1, OtherFits
<1>3. QED
  BY <1>2, OneFits DEF HandlerNotes

\* The notes about the use of memory and paths fit in every program.
LEMMA SecureCallNotesFit ==
  ASSUME NEW kind
  PROVE  Fitting(SecureCallNotes, kind)
<1>1. /\ "ZERO_SIZE_ALLOCATION" \notin Wanted /\ "copied objects" \notin Wanted
      /\ "OVERLAPPING_RESTRICTED_COPY" \notin Wanted
      /\ "THREAD_AUTOMATIC_STORAGE_ESCAPE" \notin Wanted
      /\ "borrowed result and path" \notin Wanted /\ "PATH_TOCTOU" \notin Wanted
      /\ "RECURSIVE_CALL" \notin Wanted
  BY DEF Wanted, OwnRecords
<1>2. /\ Fits(Note("ZERO_SIZE_ALLOCATION", "inside"), kind)
      /\ Fits(Try("copied objects", "inside", {FALSE}), kind)
      /\ Fits(Note("OVERLAPPING_RESTRICTED_COPY", "inside"), kind)
      /\ Fits(Note("THREAD_AUTOMATIC_STORAGE_ESCAPE", "inside"), kind)
      /\ Fits(Try("borrowed result and path", "inside", {FALSE}), kind)
      /\ Fits(Note("PATH_TOCTOU", "inside"), kind)
      /\ Fits(Note("RECURSIVE_CALL", "inside"), kind)
  BY <1>1, OtherFits DEF Note, Try
<1>3. QED
  BY <1>2, SevenFit DEF SecureCallNotes

\* The notes about the result of a call fit in every program.
LEMMA CallResultStepsFit ==
  ASSUME NEW kind
  PROVE  Fitting(CallResultSteps, kind)
<1>1. /\ "CALL_RESULT_DISCARDED" \notin Wanted /\ "MUST_CHECK_RESULT_DISCARDED" \notin Wanted
      /\ "PARTIAL_RESULT_DISCARDED" \notin Wanted /\ "UNCERTAIN_PROGRESS_RETRIED" \notin Wanted
      /\ "uncertain progress" \notin Wanted /\ "CONDITION_WAIT_OUTSIDE_LOOP" \notin Wanted
      /\ "POST_FORK_UNSAFE_CALL" \notin Wanted /\ "CALLEE_SEMANTIC_ROLE" \notin Wanted
  BY DEF Wanted, OwnRecords
<1>2. /\ Fits(Note("CALL_RESULT_DISCARDED", "asked"), kind)
      /\ Fits(Note("MUST_CHECK_RESULT_DISCARDED", "inside"), kind)
      /\ Fits(Note("PARTIAL_RESULT_DISCARDED", "inside"), kind)
      /\ Fits(Step("UNCERTAIN_PROGRESS_RETRIED", "block", "one", {FALSE}), kind)
      /\ Fits(Try("uncertain progress", "inside", {FALSE}), kind)
      /\ Fits(Note("CONDITION_WAIT_OUTSIDE_LOOP", "asked"), kind)
      /\ Fits(Note("POST_FORK_UNSAFE_CALL", "asked"), kind)
      /\ Fits(Roles("CALLEE_SEMANTIC_ROLE", "asked"), kind)
  BY <1>1, OtherFits DEF Note, Roles, Try
<1>3. QED
  BY <1>2, EightFit DEF CallResultSteps

\* The notes about the error of a call, besides its mutation.
ErrorNotes ==
  << Note("ERROR_CHECK", "asked"), Try("checked error", "inside", {FALSE}),
     Note("ERROR_DISCARD", "block"), Note("ERROR_OPTIONAL", "inside"),
     Note("ERROR_CLEANUP_SHADOW", "inside"), Note("ERROR_PROPAGATED", "asked"),
     Note("ERROR_UNCHECKED_CHAIN", "block"), Try("result identity", "inside", {FALSE}) >>
CallMutation == << Step("MUTATION", "always", "one", BOOLEAN) >>

\* They fit in every program, and the mutation of a call in its own.
LEMMA CallErrorStepsFit ==
  /\ CallErrorSteps = ErrorNotes \o CallMutation
  /\ \A kind : Fitting(ErrorNotes, kind)
  /\ Fitting(CallMutation, "call") /\ Fitting(CallErrorSteps, "call")
<1>1. /\ "ERROR_CHECK" \notin Wanted /\ "checked error" \notin Wanted
      /\ "ERROR_DISCARD" \notin Wanted /\ "ERROR_OPTIONAL" \notin Wanted
      /\ "ERROR_CLEANUP_SHADOW" \notin Wanted /\ "ERROR_PROPAGATED" \notin Wanted
      /\ "ERROR_UNCHECKED_CHAIN" \notin Wanted /\ "result identity" \notin Wanted
  BY DEF Wanted, OwnRecords
<1>2. ASSUME NEW kind PROVE Fitting(ErrorNotes, kind)
  <2>1. /\ Fits(Note("ERROR_CHECK", "asked"), kind)
        /\ Fits(Try("checked error", "inside", {FALSE}), kind)
        /\ Fits(Note("ERROR_DISCARD", "block"), kind)
        /\ Fits(Note("ERROR_OPTIONAL", "inside"), kind)
        /\ Fits(Note("ERROR_CLEANUP_SHADOW", "inside"), kind)
        /\ Fits(Note("ERROR_PROPAGATED", "asked"), kind)
        /\ Fits(Note("ERROR_UNCHECKED_CHAIN", "block"), kind)
        /\ Fits(Try("result identity", "inside", {FALSE}), kind)
    BY <1>1, OtherFits DEF Note, Try
  <2>2. QED
    BY <2>1, EightFit DEF ErrorNotes
<1>3. Fitting(CallMutation, "call")
  <2>1. Fits(Step("MUTATION", "always", "one", BOOLEAN), "call")
    BY DEF Fits, Step, Wanted, OwnRecords
  <2>2. QED
    BY <2>1, OneFits DEF CallMutation
<1>4. CallErrorSteps = ErrorNotes \o CallMutation
  <2> DEFINE a == Note("ERROR_CHECK", "asked")
             b == Try("checked error", "inside", {FALSE})
             c == Note("ERROR_DISCARD", "block")
             d == Note("ERROR_OPTIONAL", "inside")
             e == Note("ERROR_CLEANUP_SHADOW", "inside")
             f == Note("ERROR_PROPAGATED", "asked")
             g == Note("ERROR_UNCHECKED_CHAIN", "block")
             h == Try("result identity", "inside", {FALSE})
             m == Step("MUTATION", "always", "one", BOOLEAN)
  <2>1. CallErrorSteps = <<a, b, c, d, e, f, g, h, m>>
    BY DEF CallErrorSteps
  <2>2. ErrorNotes = <<a, b, c, d, e, f, g, h>>
    BY DEF ErrorNotes
  <2>3. CallMutation = <<m>>
    BY DEF CallMutation
  <2> HIDE DEF a, b, c, d, e, f, g, h, m
  <2>4. <<a, b, c, d, e, f, g, h, m>> = <<a, b, c, d, e, f, g, h>> \o <<m>>
    OBVIOUS
  <2>5. QED
    BY <2>1, <2>2, <2>3, <2>4
<1>5. QED
  BY <1>2, <1>3, <1>4, FittingTogether

\* The notes about the hygiene of a macro fit in every program.
LEMMA HygieneNotesFit ==
  ASSUME NEW kind
  PROVE  Fitting(HygieneNotes, kind)
<1>1. "MACRO_ARGUMENT_BARE" \notin Wanted /\ "MACRO_STATEMENT_BARE" \notin Wanted
  BY DEF Wanted, OwnRecords
<1>2. /\ Fits(Note("MACRO_ARGUMENT_BARE", "inside"), kind)
      /\ Fits(Note("MACRO_STATEMENT_BARE", "inside"), kind)
  BY <1>1, OtherFits DEF Note
<1>3. QED
  BY <1>2, TwoFit DEF HygieneNotes

\* The notes about a reference fit in every program.
LEMMA ReferenceNotesFit ==
  ASSUME NEW kind
  PROVE  Fitting(ReferenceNotes, kind)
<1>1. /\ "SIGNAL_SHARED_OBJECT_ACCESS" \notin Wanted /\ "identity" \notin Wanted
      /\ "ENV_BORROWED_POINTER_INVALIDATED" \notin Wanted
  BY DEF Wanted, OwnRecords
<1>2. /\ Fits(Note("SIGNAL_SHARED_OBJECT_ACCESS", "always"), kind)
      /\ Fits(Try("identity", "always", {FALSE}), kind)
      /\ Fits(Note("ENV_BORROWED_POINTER_INVALIDATED", "always"), kind)
  BY <1>1, OtherFits DEF Note, Try
<1>3. QED
  BY <1>2, ThreeFit DEF ReferenceNotes

\* What is handed over about a call itself fits.
LEMMA OwnCallStepsFit ==
  Fitting(<< Copies, Try("error argument", "always", {FALSE}), Own("CALL"),
             Try("call text", "asked", {FALSE}), Note("CALL_NOT_ISOLATED", "asked") >>,
          "call head")
<1>1. "copies" \notin Wanted /\ "error argument" \notin Wanted /\ "call text" \notin Wanted
  BY DEF Wanted, OwnRecords
<1>2. /\ Fits(Copies, "call head")
      /\ Fits(Try("error argument", "always", {FALSE}), "call head")
      /\ Fits(Try("call text", "asked", {FALSE}), "call head")
  BY <1>1, OtherFits DEF Copies, Try
<1>3. Fits(Own("CALL"), "call head")
  BY OwnFits DEF OwnRecords
<1>4. Fits(Note("CALL_NOT_ISOLATED", "asked"), "call head")
  BY DEF Fits, Note, Step
<1>5. QED
  BY <1>2, <1>3, <1>4, FiveFit

\* So does all that is handed over about it and what it does.
LEMMA CallRecordStepsFit == Fitting(CallRecordSteps, "call head")
<1> DEFINE own == << Copies, Try("error argument", "always", {FALSE}), Own("CALL"),
                     Try("call text", "asked", {FALSE}), Note("CALL_NOT_ISOLATED", "asked") >>
<1>1. Fitting(own, "call head")
  BY OwnCallStepsFit
<1>2. CallRecordSteps = own \o AllocationNotes \o HandlerNotes \o SecureCallNotes
  BY DEF CallRecordSteps
<1> HIDE DEF own
<1>3. QED
  BY <1>1, <1>2, AllocationNotesFit, HandlerNotesFit, SecureCallNotesFit, FittingTogether

\* The program of every kind fits.
LEMMA ProgramsFit == \A kind \in Kind : Fitting(Steps[kind], kind)
<1>1. \A kind : Fitting(<< >>, kind)
  <2>1. << >> \in Seq({}) /\ Len(<< >>) = 0
    OBVIOUS
  <2>2. \A i : i \notin 1 .. 0
    OBVIOUS
  <2>3. QED
    BY <2>1, <2>2 DEF Fitting
<1>2. Fitting(Steps["diagnostic"], "diagnostic")
  <2>1. Fits(Own("DIAGNOSTIC"), "diagnostic")
    BY OwnFits DEF OwnRecords
  <2>2. QED
    BY <2>1, OneFits DEF Steps, Kind, Reports
<1>3. Fitting(Steps["file"], "file")
  <2>1. Fits(Own("FILE"), "file")
    BY OwnFits DEF OwnRecords
  <2>2. QED
    BY <2>1, OneFits DEF Steps, Kind, Reports
<1>4. Fitting(Steps["include"], "include")
  <2>1. "copies" \notin Wanted /\ "admission of the target" \notin Wanted
    BY DEF Wanted, OwnRecords
  <2>2. /\ Fits(Copies, "include")
        /\ Fits(Try("admission of the target", "asked", {FALSE}), "include")
    BY <2>1, OtherFits DEF Copies, Try
  <2>3. Fits(Own("INCLUDE"), "include")
    BY OwnFits DEF OwnRecords
  <2>4. QED
    BY <2>2, <2>3, ThreeFit DEF Steps, Kind, IncludeSteps
<1>5. Fitting(Steps["function"], "function")
  <2> DEFINE first == << Copies, Own("FUNCTION"), Roles("SEMANTIC_ROLE", "inside"),
                         Note("ENV_CONTRACT", "asked"), Note("ERROR_CONTRACT", "asked") >>
  <2>1. Fitting(first, "function")
    <3>1. /\ "copies" \notin Wanted /\ "SEMANTIC_ROLE" \notin Wanted
          /\ "ENV_CONTRACT" \notin Wanted /\ "ERROR_CONTRACT" \notin Wanted
      BY DEF Wanted, OwnRecords
    <3>2. /\ Fits(Copies, "function") /\ Fits(Roles("SEMANTIC_ROLE", "inside"), "function")
          /\ Fits(Note("ENV_CONTRACT", "asked"), "function")
          /\ Fits(Note("ERROR_CONTRACT", "asked"), "function")
      BY <3>1, OtherFits DEF Copies, Note, Roles, Try
    <3>3. Fits(Own("FUNCTION"), "function")
      BY OwnFits DEF OwnRecords
    <3>4. QED
      BY <3>2, <3>3, FiveFit
  <2>2. Steps["function"] = first \o SignatureNotes
    BY DEF Steps, Kind, FunctionSteps
  <2> HIDE DEF first
  <2>3. QED
    BY <2>1, <2>2, SignatureNotesFit, FittingTogether
<1>6. Fitting(Steps["call"], "call")
  <2>1. Steps["call"] = CallRecordSteps \o CallResultSteps \o CallErrorSteps
    BY DEF Steps, Kind
  <2>2. QED
    <3>1. Fitting(CallRecordSteps, "call") /\ Fitting(CallResultSteps, "call")
      BY CallRecordStepsFit, HeadFitsCall, CallResultStepsFit
    <3>2. Fitting(CallRecordSteps \o CallResultSteps, "call")
      BY <3>1, FittingTogether
    <3>3. Fitting(CallErrorSteps, "call")
      BY CallErrorStepsFit
    <3>4. QED
      BY <2>1, <3>2, <3>3, FittingTogether
<1>7. Fitting(Steps["return"], "return")
  <2>1. "FUNCTION_RETURN" \notin Wanted /\ "FUNCTION_EARLY_RETURN" \notin Wanted
    BY DEF Wanted, OwnRecords
  <2>2. /\ Fits(Note("FUNCTION_RETURN", "always"), "return")
        /\ Fits(Note("FUNCTION_EARLY_RETURN", "always"), "return")
    BY <2>1, OtherFits DEF Note
  <2>3. QED
    BY <2>2, TwoFit DEF Steps, Kind, ReturnSteps
<1>8. Fitting(Steps["member"], "member")
  <2>1. "FIELD_REACH" \notin Wanted
    BY DEF Wanted, OwnRecords
  <2>2. Fits(Step("FIELD_REACH", "always", "one", {FALSE}), "member")
    BY <2>1, OtherFits
  <2>3. QED
    BY <2>2, OneFits DEF Steps, Kind, FieldReachNote
<1>9. Fitting(Steps["enum"], "enum")
  <2>1. "copies" \notin Wanted
    BY DEF Wanted, OwnRecords
  <2>2. Fits(Copies, "enum")
    BY <2>1, OtherFits DEF Copies, Try
  <2>3. Fits(Own("ENUM"), "enum")
    BY OwnFits DEF OwnRecords
  <2>4. QED
    BY <2>2, <2>3, TwoFit DEF Steps, Kind, EnumSteps
<1>10. Fitting(Steps["enumerator"], "enumerator")
  <2>1. "copies" \notin Wanted /\ "API_ENUMERATOR_VALUE" \notin Wanted
    BY DEF Wanted, OwnRecords
  <2>2. /\ Fits(Copies, "enumerator")
        /\ Fits(Step("API_ENUMERATOR_VALUE", "inside", "one", {TRUE}), "enumerator")
    BY <2>1, OtherFits DEF Copies, Try
  <2>3. Fits(Own("ENUMERATOR"), "enumerator")
    BY OwnFits DEF OwnRecords
  <2>4. QED
    BY <2>2, <2>3, ThreeFit DEF Steps, Kind, EnumeratorSteps
<1>11. Fitting(Steps["type"], "type")
  <2>1. "copies" \notin Wanted /\ "API_TYPE_LAYOUT" \notin Wanted
    BY DEF Wanted, OwnRecords
  <2>2. /\ Fits(Copies, "type")
        /\ Fits(Step("API_TYPE_LAYOUT", "inside", "one", {TRUE}), "type")
    BY <2>1, OtherFits DEF Copies, Try
  <2>3. Fits(Own("TYPE"), "type")
    BY OwnFits DEF OwnRecords
  <2>4. QED
    BY <2>2, <2>3, ThreeFit DEF Steps, Kind, TypeSteps
<1>12. Fitting(Steps["macro definition"], "macro definition")
  <2> DEFINE first == << Copies, Own("MACRO") >>
             rest == << Try("definition", "inside", {FALSE}),
                        Step("API_MACRO_VALUE", "inside", "one", {FALSE}) >>
  <2>1. Fitting(first, "macro definition")
    <3>1. "copies" \notin Wanted
      BY DEF Wanted, OwnRecords
    <3>2. Fits(Copies, "macro definition")
      BY <3>1, OtherFits DEF Copies, Try
    <3>3. Fits(Own("MACRO"), "macro definition")
      BY OwnFits DEF OwnRecords
    <3>4. QED
      BY <3>2, <3>3, TwoFit
  <2>2. Fitting(rest, "macro definition")
    <3>1. "definition" \notin Wanted /\ "API_MACRO_VALUE" \notin Wanted
      BY DEF Wanted, OwnRecords
    <3>2. /\ Fits(Try("definition", "inside", {FALSE}), "macro definition")
          /\ Fits(Step("API_MACRO_VALUE", "inside", "one", {FALSE}), "macro definition")
      BY <3>1, OtherFits DEF Try
    <3>3. QED
      BY <3>2, TwoFit
  <2>3. Steps["macro definition"] = first \o HygieneNotes \o rest
    BY DEF Steps, Kind, MacroDefinitionSteps
  <2> HIDE DEF first, rest
  <2>4. QED
    BY <2>1, <2>2, <2>3, HygieneNotesFit, FittingTogether
<1>13. Fitting(Steps["macro expansion"], "macro expansion")
  <2>1. "copies" \notin Wanted
    BY DEF Wanted, OwnRecords
  <2>2. Fits(Copies, "macro expansion")
    BY <2>1, OtherFits DEF Copies, Try
  <2>3. Fits(Own("MACRO"), "macro expansion")
    BY OwnFits DEF OwnRecords
  <2>4. QED
    BY <2>2, <2>3, TwoFit DEF Steps, Kind, MacroExpansionSteps
<1>14. Fitting(Steps["reference"], "reference")
  <2> DEFINE rest == << Step("FUNCTION_REFERENCE", "always", "one", {TRUE}) >>
  <2>1. Fitting(rest, "reference")
    <3>1. "FUNCTION_REFERENCE" \notin Wanted
      BY DEF Wanted, OwnRecords
    <3>2. Fits(Step("FUNCTION_REFERENCE", "always", "one", {TRUE}), "reference")
      BY <3>1, OtherFits
    <3>3. QED
      BY <3>2, OneFits
  <2>2. Steps["reference"] = ReferenceNotes \o rest
    BY DEF Steps, Kind, ReferenceSteps
  <2> HIDE DEF rest
  <2>3. QED
    BY <2>1, <2>2, ReferenceNotesFit, FittingTogether
<1>15. Fitting(Steps["result use"], "result use")
  <2> DEFINE rest == << Step("ERROR_OUTPUT_UNCHECKED", "always", "one", {FALSE}) >>
  <2>1. Fitting(rest, "result use")
    <3>1. "ERROR_OUTPUT_UNCHECKED" \notin Wanted
      BY DEF Wanted, OwnRecords
    <3>2. Fits(Step("ERROR_OUTPUT_UNCHECKED", "always", "one", {FALSE}), "result use")
      BY <3>1, OtherFits
    <3>3. QED
      BY <3>2, OneFits
  <2>2. Steps["result use"] = ReferenceNotes \o rest
    BY DEF Steps, Kind, ResultUseSteps
  <2> HIDE DEF rest
  <2>3. QED
    BY <2>1, <2>2, ReferenceNotesFit, FittingTogether
<1>16. Fitting(Steps["parameter"], "parameter")
  <2>1. /\ "copies" \notin Wanted /\ "TYPE_SEMANTIC_ROLE" \notin Wanted
        /\ "ENV_USE" \notin Wanted /\ "ERROR_USE" \notin Wanted
    BY DEF Wanted, OwnRecords
  <2>2. /\ Fits(Copies, "parameter") /\ Fits(TypeRoles("block"), "parameter")
        /\ Fits(Note("ENV_USE", "inside"), "parameter")
        /\ Fits(Note("ERROR_USE", "asked"), "parameter")
    BY <2>1, OtherFits DEF Copies, Note, Roles, Try, TypeRoles
  <2>3. Fits(Own("PARAMETER"), "parameter")
    BY OwnFits DEF OwnRecords
  <2>4. QED
    BY <2>2, <2>3, FiveFit DEF Steps, Kind, ParameterSteps
<1>17. Fitting(Steps["variable"], "variable")
  <2>1. /\ "TYPE_SEMANTIC_ROLE" \notin Wanted /\ "ENV_USE" \notin Wanted
        /\ "ERROR_USE" \notin Wanted
    BY DEF Wanted, OwnRecords
  <2>2. /\ Fits(TypeRoles("always"), "variable") /\ Fits(Note("ENV_USE", "always"), "variable")
        /\ Fits(Note("ERROR_USE", "asked"), "variable")
    BY <2>1, OtherFits DEF Note, Roles, TypeRoles
  <2>3. QED
    BY <2>2, ThreeFit DEF Steps, Kind, VariableSteps
<1>18. Fitting(Steps["binary"], "binary")
  <2>1. Fits(Note("MUTATION", "asked"), "binary")
    BY DEF Fits, Note, Step, Wanted, OwnRecords
  <2>2. QED
    BY <2>1, OneFits DEF Steps, Kind
<1>19. Fitting(Steps["assignment"], "assignment")
  <2>1. "signal action" \notin Wanted
    BY DEF Wanted, OwnRecords
  <2>2. Fits(Try("signal action", "asked", {FALSE}), "assignment")
    BY <2>1, OtherFits DEF Try
  <2>3. QED
    BY <2>2, OneFits DEF Steps, Kind
<1>20. ASSUME NEW kind \in Wrapping \cup {"compound"} PROVE Fitting(Steps[kind], kind)
  <2>1. Steps[kind] = << >>
    BY <1>20 DEF Steps, Kind, Wrapping
  <2>2. QED
    BY <1>1, <2>1
<1>21. QED
  BY <1>2, <1>3, <1>4, <1>5, <1>6, <1>7, <1>8, <1>9, <1>10, <1>11, <1>12, <1>13, <1>14,
     <1>15, <1>16, <1>17, <1>18, <1>19, <1>20
     DEF Kind, Reports

-----------------------------------------------------------------------------
(* The frames of the visits in progress.                                   *)

\* A sequence gets one more element at its end, and the others stay.
LEMMA Pushed ==
  ASSUME NEW S, NEW s \in Seq(S), NEW f \in S
  PROVE  /\ Append(s, f) \in Seq(S)
         /\ Len(s) \in Nat /\ Len(Append(s, f)) = Len(s) + 1
         /\ Append(s, f)[Len(s) + 1] = f
         /\ \A k \in 1 .. Len(s) : Append(s, f)[k] = s[k]
OBVIOUS

\* A sequence loses its last element, and the others stay.
LEMMA Popped ==
  ASSUME NEW S, NEW s \in Seq(S), Len(s) >= 1
  PROVE  /\ Front(s) \in Seq(S)
         /\ Len(s) \in Nat \ {0} /\ Len(Front(s)) = Len(s) - 1
         /\ \A k \in 1 .. Len(s) - 1 : Front(s)[k] = s[k]
<1> DEFINE t == SubSeq(s, 1, Len(s) - 1)
<1>1. Len(s) \in Nat \ {0}
  OBVIOUS
<1>2. \A i \in 1 .. Len(s) - 1 : s[i] \in S
  BY <1>1, ElementOfSeq
<1>3. 1 \in Int /\ Len(s) - 1 \in Int
  BY <1>1
<1>4. /\ t \in Seq(S)
      /\ Len(t) = IF 1 <= Len(s) - 1 THEN Len(s) - 1 - 1 + 1 ELSE 0
      /\ \A i \in 1 .. Len(s) - 1 - 1 + 1 : t[i] = s[1 + i - 1]
  BY <1>2, <1>3, SubSeqProperties
<1> HIDE DEF t
<1>5. Len(t) = Len(s) - 1
  <2>1. \A n \in Nat \ {0} : (IF 1 <= n - 1 THEN n - 1 - 1 + 1 ELSE 0) = n - 1
    OBVIOUS
  <2>2. QED
    BY <1>1, <1>4, <2>1
<1>6. ASSUME NEW k \in 1 .. Len(s) - 1 PROVE t[k] = s[k]
  <2>1. k \in 1 .. Len(s) - 1 - 1 + 1 /\ 1 + k - 1 = k
    BY <1>1
  <2>2. QED
    BY <1>4, <2>1
<1>7. Front(s) = t
  BY DEF Front, t
<1>8. QED
  BY <1>1, <1>4, <1>5, <1>6, <1>7

\* No step changes the unit, and what is said of its places stays.
LEMMA UnitStays == [Next]_vars => unit' = unit
<1> SUFFICES ASSUME [Next]_vars PROVE unit' = unit
  OBVIOUS
<1>1. VisitPlace => unit' = unit
  BY DEF VisitPlace, TakeUp, PlaceFails, Foreign, Begin, Omit, Finish, Emit, StepFails
<1>2. WalkTree => unit' = unit
  BY DEF WalkTree, PassBy, Enter, EnterFunctionFails, EnterEnumFails, Leave
<1>3. CollectMacros => unit' = unit
  BY DEF CollectMacros, CollectForeign, GrowFails, Grow, Collect
<1>4. ReportsDone \/ StartVisit \/ End => unit' = unit
  BY DEF ReportsDone, StartVisit, End
<1>5. QED
  BY <1>1, <1>2, <1>3, <1>4 DEF Next, vars

\* While the unit is the same, so is all that is read from its tree.
LEMMA SameUnit ==
  ASSUME unit' = unit
  PROVE  /\ Unit' = Unit /\ Place' = Place /\ Anywhere' = Anywhere /\ FrameRecord' = FrameRecord
         /\ \A p : At(p)' = At(p)
         /\ \A p : /\ Function(p)' = Function(p) /\ NamedEnum(p)' = NamedEnum(p)
                   /\ FunctionAt(p)' = FunctionAt(p) /\ EnumAt(p)' = EnumAt(p)
<1>1. Unit' = Unit
  BY DEF Unit
<1>2. Place' = Place
  BY <1>1 DEF Place
<1>3. Anywhere' = Anywhere
  BY <1>2 DEF Anywhere
<1>4. FrameRecord' = FrameRecord
  BY <1>2, <1>3 DEF FrameRecord
<1>5. \A p : At(p)' = At(p)
  BY <1>1 DEF At
<1>6. \A p : Function(p)' = Function(p) /\ NamedEnum(p)' = NamedEnum(p)
  BY <1>1, <1>2 DEF Function, NamedEnum, Innermost, At
<1>7. \A p : FunctionAt(p)' = FunctionAt(p) /\ EnumAt(p)' = EnumAt(p)
  BY <1>5, <1>6, <1>1 DEF FunctionAt, EnumAt, At
<1>8. QED
  BY <1>1, <1>2, <1>3, <1>4, <1>5, <1>6, <1>7

\* The frame of the visit in progress.
LEMMA TopFrame ==
  ASSUME Types
  PROVE  /\ Len(frames) \in Nat \ {0} /\ Len(frames) \in 1 .. Len(frames)
         /\ Top \in FrameRecord
         /\ \A i \in 1 .. Len(frames) : frames[i] \in FrameRecord
<1>1. Len(frames) \in Nat \ {0} /\ \A i \in 1 .. Len(frames) : frames[i] \in FrameRecord
  BY DEF Types
<1>2. QED
  BY <1>1 DEF Top

\* The next place below the one in progress is taken up: the first that is left.
LEMMA TakenUp ==
  ASSUME Types, TakeUp
  PROVE  /\ frames' \in Seq(FrameRecord) /\ Len(frames') = Len(frames)
         /\ \A i \in 1 .. Len(frames) :
              /\ frames'[i].place = frames[i].place
              /\ frames'[i].function = frames[i].function /\ frames'[i].enum = frames[i].enum
              /\ frames'[i].left = IF i = Len(frames) THEN frames[i].left \ {place'}
                                   ELSE frames[i].left
         /\ place' \in Place /\ place' \in Top.left /\ \A q \in Top.left : place' <= q
<1> DEFINE n == Len(frames)
<1>1. n \in Nat \ {0} /\ n \in 1 .. n /\ Top \in FrameRecord /\ Top = frames[n]
  BY TopFrame DEF Top
<1>2. Top.left \in SUBSET Place
  BY <1>1 DEF FrameRecord
<1>3. /\ place' = Min(Top.left) /\ Top.left # {}
      /\ frames' = [frames EXCEPT ![n].left = @ \ {place'}]
  BY DEF TakeUp, Children
<1>4. place' \in Top.left /\ \A q \in Top.left : place' <= q
  <2>1. Place \in SUBSET Nat
    BY Shape DEF Types
  <2>2. Top.left \in SUBSET Nat
    BY <1>2, <2>1
  <2>3. QED
    BY <1>3, <2>2, MinIsLeast
<1> DEFINE f == [Top EXCEPT !.left = @ \ {place'}]
<1>5. f \in FrameRecord /\ f.left = Top.left \ {place'}
      /\ f.place = Top.place /\ f.function = Top.function /\ f.enum = Top.enum
  BY <1>1, <1>2 DEF FrameRecord
<1>6. frames' = [frames EXCEPT ![n] = f]
  BY <1>1, <1>3
<1> HIDE DEF f
<1>7. frames \in Seq(FrameRecord)
  BY DEF Types
<1>8. frames' \in Seq(FrameRecord) /\ Len(frames') = n
      /\ \A i \in 1 .. n : frames'[i] = IF i = n THEN f ELSE frames[i]
  BY <1>1, <1>5, <1>6, <1>7
<1>9. QED
  BY <1>1, <1>2, <1>4, <1>5, <1>8

\* The types hold at the start.
LEMMA TypesStart == Init => Types
<1> SUFFICES ASSUME Init PROVE Types
  OBVIOUS
<1>1. frames \in Seq(FrameRecord) /\ Len(frames) >= 1
  <2> DEFINE f == [place |-> 0, left |-> {p \in Below(0) : At(p).kind \in Reports},
                   function |-> 0, enum |-> 0]
  <2>1. f \in FrameRecord
    BY DEF FrameRecord, Anywhere, Below
  <2>2. frames = <<f>>
    BY DEF Init, Root
  <2> HIDE DEF f
  <2>3. QED
    BY <2>1, <2>2
<1>2. /\ unit \in DOMAIN Units /\ phase \in {"report", "collect", "visit"}
      /\ pc \in {"walk", "place", "emit", "enter"}
      /\ place \in Anywhere /\ function \in Anywhere /\ enum \in Anywhere
      /\ step \in Nat \ {0} /\ result \in {"none", "true", "false"}
  BY DEF Init, Anywhere
<1>3. inside \in BOOLEAN /\ stopped \in BOOLEAN /\ err \in BOOLEAN
  BY DEF Init
<1>4. QED
  BY <1>1, <1>2, <1>3 DEF Types

\* A step that leaves the frames alone keeps their type.
LEMMA FramesTyped ==
  ASSUME Types, [Next]_vars, UNCHANGED frames
  PROVE  frames' \in Seq(FrameRecord)' /\ Len(frames') >= 1
<1>1. FrameRecord' = FrameRecord
  BY UnitStays, SameUnit
<1>2. QED
  BY <1>1 DEF Types

\* Each action keeps them.
LEMMA TypesStep == Types /\ Order /\ [Next]_vars => Types'
<1> SUFFICES ASSUME Types, Order, [Next]_vars PROVE Types'
  OBVIOUS
<1>1. /\ unit' = unit /\ Place' = Place /\ Anywhere' = Anywhere
      /\ FrameRecord' = FrameRecord
  BY UnitStays, SameUnit
<1> DEFINE Rest == /\ phase' \in {"report", "collect", "visit"}
                   /\ pc' \in {"walk", "place", "emit", "enter"}
                   /\ place' \in Anywhere /\ function' \in Anywhere /\ enum' \in Anywhere
                   /\ step' \in Nat \ {0}
                   /\ inside' \in BOOLEAN /\ stopped' \in BOOLEAN /\ err' \in BOOLEAN
                   /\ result' \in {"none", "true", "false"}
           Kept == frames' \in Seq(FrameRecord) /\ Len(frames') >= 1
<1>2. UNCHANGED frames => Kept
  BY <1>1, FramesTyped
<1>3. SUFFICES Rest /\ Kept
  BY <1>1 DEF Types
<1>4. CASE TakeUp
  BY <1>4, TakenUp, TopFrame DEF TakeUp, scope, Types, Anywhere
<1>5. CASE PlaceFails \/ Foreign \/ Begin \/ Finish
  <2>1. CASE PlaceFails
    BY <1>2, <2>1 DEF PlaceFails, scope, Types
  <2>2. CASE Foreign
    BY <1>2, <2>2 DEF Foreign, scope, Types
  <2>3. CASE Begin
    <3>1. step' = 1 /\ inside' = FALSE
      BY <2>3 DEF Begin
    <3>2. step' \in Nat \ {0}
      BY <3>1
    <3>3. inside' \in BOOLEAN
      BY <3>1
    <3>4. QED
      BY <1>2, <2>3, <3>2, <3>3 DEF Begin, scope, Types
  <2>4. CASE Finish
    BY <1>2, <2>4 DEF Finish, scope, Types
  <2>5. QED
    BY <1>5, <2>1, <2>2, <2>3, <2>4
<1> DEFINE Stays == UNCHANGED <<unit, phase, pc, frames, place, scope, result>>
<1>6. ASSUME Stays, step' \in {step, step + 1}, inside' \in BOOLEAN, stopped' \in BOOLEAN,
             err' \in BOOLEAN
      PROVE  Rest /\ Kept
  <2>1. step' \in Nat \ {0}
    <3>1. step \in Nat \ {0}
      BY DEF Types
    <3>2. step' = step \/ step' = step + 1
      BY <1>6
    <3>3. QED
      BY <3>1, <3>2
  <2>2. QED
    BY <1>2, <1>6, <2>1 DEF scope, Types
<1>7. CASE Omit
  <2>1. inside' \in BOOLEAN
    BY <1>7 DEF Omit, Opened, Types
  <2>2. stopped' \in BOOLEAN
    BY <1>7 DEF Omit, Types
  <2>3. Stays /\ step' \in {step, step + 1} /\ err' \in BOOLEAN
    BY <1>7 DEF Omit, Types
  <2>4. QED
    BY <1>6, <2>1, <2>2, <2>3
<1>8. ASSUME NEW outcome \in Outcome, Emit(outcome) PROVE Rest /\ Kept
  <2>1. inside' \in BOOLEAN
    BY <1>8 DEF Emit, Opened, Types
  <2>2. stopped' \in BOOLEAN /\ err' \in BOOLEAN
    BY <1>8 DEF Emit, EmitRecord, Types
  <2>3. Stays /\ step' \in {step, step + 1}
    BY <1>8 DEF Emit, Proceed
  <2>4. QED
    BY <1>6, <2>1, <2>2, <2>3
<1>9. ASSUME NEW stops \in BOOLEAN, StepFails(stops) PROVE Rest /\ Kept
  <2>1. inside' \in BOOLEAN
    BY <1>9 DEF StepFails, Opened, Types
  <2>2. stopped' \in BOOLEAN /\ err' \in BOOLEAN
    BY <1>9 DEF StepFails, Types
  <2>3. Stays /\ step' \in {step, step + 1}
    BY <1>9 DEF StepFails, Proceed
  <2>4. QED
    BY <1>6, <2>1, <2>2, <2>3
<1>10. CASE PassBy
  BY <1>2, <1>10 DEF PassBy, scope, Types
<1>11. CASE Enter \/ EnterFunctionFails
  <2>1. Frame \in FrameRecord
    BY DEF Frame, FrameRecord, Below, Types
  <2>2. frames' = Append(frames, Frame)
    BY <1>11 DEF Enter, EnterFunctionFails
  <2>3. Kept
    BY <2>1, <2>2, Pushed DEF Types
  <2>4. CASE Enter
    BY <2>3, <2>4 DEF Enter, Types, Anywhere
  <2>5. CASE EnterFunctionFails
    BY <2>3, <2>5 DEF EnterFunctionFails, Types, Anywhere
  <2>6. QED
    BY <1>11, <2>4, <2>5
<1>12. CASE EnterEnumFails
  BY <1>2, <1>12 DEF EnterEnumFails, scope, Types
<1>13. CASE Leave
  <2>1. Kept
    BY <1>13, Popped DEF Leave, Types
  <2>2. Top.function \in Anywhere /\ Top.enum \in Anywhere
    BY TopFrame DEF FrameRecord
  <2>3. QED
    BY <1>13, <2>1, <2>2 DEF Leave, Types
<1>14. CASE CollectMacros
  BY <1>2, <1>14 DEF CollectMacros, CollectForeign, GrowFails, Grow, Collect, position, scope,
     Types
<1>15. CASE ReportsDone
  BY <1>2, <1>15 DEF ReportsDone, scope, Types
<1>16. CASE StartVisit
  <2> DEFINE f == [place |-> 0, left |-> {p \in Below(0) : At(p).kind \notin Reports},
                   function |-> 0, enum |-> 0]
  <2>1. f \in FrameRecord
    BY DEF FrameRecord, Anywhere, Below
  <2>2. frames' = <<f>>
    BY <1>16 DEF StartVisit, Root
  <2> HIDE DEF f
  <2>3. Kept
    BY <2>1, <2>2
  <2>4. QED
    BY <1>16, <2>3 DEF StartVisit, scope, Types
<1>17. CASE End
  BY <1>2, <1>17 DEF End, position, scope, Types
<1>18. CASE UNCHANGED vars
  BY <1>2, <1>18 DEF vars, position, scope, Types
<1>19. QED
  <2>1. Next => Rest /\ Kept
    BY <1>4, <1>5, <1>6, <1>7, <1>8, <1>10, <1>11, <1>12, <1>13, <1>14, <1>15, <1>16, <1>17,
       <1>9 DEF Next, VisitPlace, WalkTree
  <2>2. QED
    BY <1>18, <2>1

\* The place at hand lies in the visit in progress, and that in the one before it.
LEMMA PathStart == Init => Path
BY DEF Init, Root, Path

\* Each action keeps it so: a visit is entered at the place at hand, and left for the one
\* it was entered from.
LEMMA PathStep == Types /\ Path /\ Order /\ [Next]_vars => Path'
<1> SUFFICES ASSUME Types, Path, Order, [Next]_vars PROVE Path'
  OBVIOUS
<1> DEFINE up(p) == At(p).parent
           n == Len(frames)
<1>1. unit' = unit /\ Unit' = Unit /\ Place' = Place
  BY UnitStays, SameUnit
<1> DEFINE Chain == /\ frames'[1].place = 0
                    /\ \A i \in 2 .. Len(frames') :
                         frames'[i].place \in Place /\ up(frames'[i].place) = frames'[i - 1].place
           AtHand == pc' # "walk" =>
                       place' \in Place /\ up(place') = frames'[Len(frames')].place
<1>2. SUFFICES Chain /\ AtHand
  BY <1>1 DEF Path, At, Top
<1>3. UNCHANGED frames => Chain
  BY DEF Path
<1>4. UNCHANGED <<frames, place>> /\ (pc' # "walk" => pc # "walk") => Chain /\ AtHand
  BY DEF Path, Top
<1>5. n \in Nat \ {0} /\ n \in 1 .. n
  BY TopFrame
<1>6. CASE TakeUp
  <2>1. /\ Len(frames') = n /\ \A i \in 1 .. n : frames'[i].place = frames[i].place
        /\ place' \in Place /\ place' \in Top.left
    BY <1>6, TakenUp
  <2>2. Chain
    <3>1. \A i \in 2 .. n : i \in 1 .. n /\ i - 1 \in 1 .. n
      BY <1>5
    <3>2. 1 \in 1 .. n
      BY <1>5
    <3>3. QED
      BY <2>1, <3>1, <3>2 DEF Path
  <2>3. up(place') = Top.place
    BY <1>5, <1>6, <2>1 DEF Order, Below, Top, TakeUp
  <2>4. QED
    BY <1>5, <2>1, <2>2, <2>3 DEF Top
<1>7. CASE PlaceFails \/ Foreign \/ Begin \/ Finish
  BY <1>4, <1>7 DEF PlaceFails, Foreign, Begin, Finish
<1>8. CASE \/ Omit \/ \E outcome \in Outcome : Emit(outcome)
           \/ \E stops \in BOOLEAN : StepFails(stops)
  BY <1>4, <1>8 DEF Omit, Emit, StepFails, InStep
<1>9. CASE PassBy \/ EnterEnumFails
  BY <1>4, <1>9 DEF PassBy, EnterEnumFails
<1>10. CASE Enter \/ EnterFunctionFails
  <2>1. Frame \in FrameRecord /\ Frame.place = place
    BY DEF Frame, FrameRecord, Below, Types
  <2>2. frames' = Append(frames, Frame) /\ pc' = "walk" /\ pc = "enter"
    BY <1>10 DEF Enter, EnterFunctionFails
  <2>3. /\ Len(frames') = n + 1 /\ frames'[n + 1].place = place
        /\ \A i \in 1 .. n : frames'[i] = frames[i]
    BY <2>1, <2>2, Pushed DEF Types
  <2>4. place \in Place /\ up(place) = frames[n].place
    BY <2>2 DEF Path, Top
  <2>5. ASSUME NEW i \in 2 .. n + 1
        PROVE  frames'[i].place \in Place /\ up(frames'[i].place) = frames'[i - 1].place
    <3>1. CASE i = n + 1
      BY <1>5, <2>3, <2>4, <3>1
    <3>2. CASE i # n + 1
      <4>1. i \in 2 .. n /\ i \in 1 .. n /\ i - 1 \in 1 .. n
        BY <1>5, <3>2
      <4>2. QED
        BY <2>3, <4>1 DEF Path
    <3>3. QED
      BY <3>1, <3>2
  <2>6. frames'[1].place = 0
    BY <1>5, <2>3 DEF Path
  <2>7. QED
    BY <2>2, <2>3, <2>5, <2>6
<1>11. CASE Leave
  <2>1. /\ Len(frames') = n - 1 /\ \A i \in 1 .. n - 1 : frames'[i] = frames[i]
        /\ n > 1 /\ pc' = "walk"
    BY <1>11, Popped DEF Leave, Types
  <2>2. \A i \in 2 .. n - 1 : i \in 1 .. n - 1 /\ i - 1 \in 1 .. n - 1 /\ i \in 2 .. n
    BY <1>5
  <2>3. 1 \in 1 .. n - 1
    BY <1>5, <2>1
  <2>4. QED
    BY <2>1, <2>2, <2>3 DEF Path
<1>12. CASE CollectMacros
  BY <1>4, <1>12 DEF CollectMacros, CollectForeign, GrowFails, Grow, Collect, position
<1>13. CASE ReportsDone
  BY <1>4, <1>13 DEF ReportsDone
<1>14. CASE StartVisit
  BY <1>14 DEF StartVisit, Root, Order
<1>15. CASE End \/ UNCHANGED vars
  BY <1>4, <1>15 DEF End, vars, position
<1>16. QED
  BY <1>6, <1>7, <1>8, <1>9, <1>10, <1>11, <1>12, <1>13, <1>14, <1>15
     DEF Next, VisitPlace, WalkTree

\* Along the path the places come later and later.
LEMMA PathRises ==
  ASSUME Types, Path
  PROVE  \A i, j \in 1 .. Len(frames) : i < j => frames[i].place < frames[j].place
<1> DEFINE n == Len(frames)
           pl(i) == frames[i].place
           T == {j \in 1 .. n : \E i \in 1 .. n : i < j /\ ~ (pl(i) < pl(j))}
<1>1. n \in Nat \ {0}
  BY TopFrame
<1>2. \A i \in 1 .. n : pl(i) \in Nat
  BY TopFrame, Shape DEF Types, FrameRecord, Anywhere
<1>3. \A i \in 2 .. n : pl(i - 1) < pl(i)
  BY Shape DEF Path, Types
<1>4. SUFFICES ASSUME T # {} PROVE FALSE
  OBVIOUS
<1>5. PICK j \in T : \A k \in T : j <= k
  <2>1. T \in SUBSET Nat
    BY <1>1
  <2>2. QED
    BY <1>4, <2>1, LeastNumber
<1>6. PICK i \in 1 .. n : i < j /\ ~ (pl(i) < pl(j))
  BY <1>5
<1>7. j \in 2 .. n /\ j - 1 \in 1 .. n /\ ~ (j <= j - 1) /\ i <= j - 1
  BY <1>1, <1>5, <1>6
<1>8. i < j - 1 => pl(i) < pl(j - 1)
  BY <1>5, <1>7
<1>9. pl(i) \in Nat /\ pl(j - 1) \in Nat /\ pl(j) \in Nat /\ pl(j - 1) < pl(j)
  BY <1>2, <1>3, <1>5, <1>6, <1>7
<1> HIDE DEF pl
<1>10. pl(i) <= pl(j - 1)
  <2>1. CASE i = j - 1
    BY <1>9, <2>1
  <2>2. CASE i < j - 1
    BY <1>8, <1>9, <2>2
  <2>3. QED
    BY <1>1, <1>5, <1>6, <1>7, <2>1, <2>2
<1>11. QED
  BY <1>6, <1>9, <1>10

\* What is left of the outer visits comes after all that is left of the inner ones.
LEMMA NothingBetween ==
  ASSUME Types, Path, NEW q \in Place, NEW next \in Place, NEW i \in 1 .. Len(frames),
         i # Len(frames), At(q).parent = frames[i].place, At(next).parent = Top.place,
         place < q, Top.place <= place
  PROVE  q > next
<1>1. /\ frames[i].place < Top.place /\ Top.place \in Nat /\ frames[i].place \in Nat
      /\ q \in Nat /\ next \in Nat /\ place \in Nat
  BY TopFrame, PathRises, Shape DEF Top, Types, FrameRecord, Anywhere
<1>2. At(next).parent < q
  BY <1>1
<1>3. q < next => At(next).parent <= At(q).parent
  BY <1>2, Shape DEF Types
<1>4. q # next
  BY <1>1
<1>5. QED
  BY <1>1, <1>3, <1>4

\* The order of the unit is kept to.
LEMMA OrderStart == Init => Order
<1> SUFFICES ASSUME Init PROVE Order
  OBVIOUS
<1>1. \A q \in Place : q > 0
  BY Shape DEF Init
<1>2. /\ Len(frames) = 1 /\ frames[1].place = 0 /\ place = 0 /\ phase = "report"
      /\ frames[1].left = {p \in Below(0) : At(p).kind \in Reports}
  BY DEF Init, Root
<1>3. \A p \in Below(0) : p \in Place
  BY DEF Below
<1>4. {p \in Below(0) : At(p).kind \in Reports} = {q \in Below(0) : q > 0 /\ Awaits(1, q)}
  BY <1>1, <1>2, <1>3 DEF Awaits
<1>5. \A i \in 1 .. 1 : i = 1
  OBVIOUS
<1>6. QED
  BY <1>2, <1>4, <1>5 DEF Order

\* A place taken up is the first of those left, and those below it come after it.
LEMMA OrderStep == Types /\ Path /\ Order /\ [Next]_vars => Order'
<1> SUFFICES ASSUME Types, Path, Order, [Next]_vars PROVE Order'
  OBVIOUS
<1> DEFINE up(p) == At(p).parent
           kind(p) == At(p).kind
           n == Len(frames)
           report == phase = "report"
           report2 == phase' = "report"
           Then == {q \in Place : q > place'}
           Later(i, f, r) ==
             {q \in Place : /\ up(q) = f[i].place /\ q \in Then
                            /\ i = 1 => (kind(q) \in Reports <=> r)}
           Left == \A i \in 1 .. Len(frames') :
                     frames'[i].left =
                       IF phase' = "collect" THEN {} ELSE Later(i, frames', report2)
           Past == \A i \in 1 .. Len(frames') : frames'[i].place <= place'
           Reporting == phase' # "visit" =>
                          Len(frames') = 1 /\ (place' # 0 => kind(place') \in Reports)
           Reported == phase' # "report" /\ ~ stopped' =>
                         \A q \in Place : q > place' => kind(q) \notin Reports
           Collecting == phase' = "collect" => pc' = "walk"
           Goal == Left /\ Past /\ Reporting /\ Reported /\ Collecting
<1>1. unit' = unit /\ Unit' = Unit /\ Place' = Place
  BY UnitStays, SameUnit
<1>2. SUFFICES Goal
  BY <1>1 DEF Order, Awaits, Below, At
<1>3. ASSUME UNCHANGED <<frames, place, phase>>, stopped' = FALSE => stopped = FALSE,
             stopped' \in BOOLEAN, phase = "collect" => pc' = "walk"
      PROVE  Goal
  BY <1>3 DEF Order, Awaits, Below, Types
<1>4. n \in Nat \ {0} /\ n \in 1 .. n /\ Top = frames[n]
  BY TopFrame DEF Top
<1>5. \A i \in 1 .. n : frames[i].place \in Nat
  <2>1. Anywhere \in SUBSET Nat
    BY Shape DEF Types, Anywhere
  <2>2. \A i \in 1 .. n : frames[i].place \in Anywhere
    BY TopFrame DEF FrameRecord
  <2>3. QED
    BY <2>1, <2>2
<1>6. Place \in SUBSET Nat /\ place \in Nat
  BY Shape DEF Types, Anywhere
<1>7. CASE TakeUp
  <2>1. /\ Len(frames') = n
        /\ \A i \in 1 .. n :
             /\ frames'[i].place = frames[i].place
             /\ frames'[i].left = IF i = n THEN frames[i].left \ {place'} ELSE frames[i].left
        /\ place' \in Place /\ place' \in Top.left /\ \A q \in Top.left : place' <= q
        /\ phase' = phase /\ phase # "collect" /\ stopped' = stopped /\ ~ stopped
    BY <1>7, TakenUp DEF TakeUp
  <2>2. \A i \in 1 .. n :
          frames[i].left = {q \in Below(frames[i].place) : q > place /\ Awaits(i, q)}
    BY <2>1 DEF Order
  <2>3. place' > place /\ up(place') = Top.place /\ (n = 1 => (kind(place') \in Reports <=> report))
    BY <1>4, <2>1, <2>2 DEF Below, Awaits
  <2>4. ASSUME NEW i \in 1 .. n, NEW q \in Place, up(q) = frames[i].place,
               i = 1 => (kind(q) \in Reports <=> report)
        PROVE  (q > place /\ ~ (i = n /\ q = place')) <=> q > place'
    <3>1. CASE i = n
      <4>1. q > place => q \in Top.left
        BY <1>4, <2>2, <2>4, <3>1 DEF Below, Awaits
      <4>2. QED
        BY <1>6, <2>1, <2>3, <3>1, <4>1
    <3>2. CASE i # n
      <4>1. q > place => q > place'
        BY <1>4, <2>1, <2>3, <2>4, <3>2, NothingBetween DEF Order
      <4>2. QED
        BY <1>6, <2>1, <2>3, <3>2, <4>1
    <3>3. QED
      BY <3>1, <3>2
  <2>5. Left
    <3>1. ASSUME NEW i \in 1 .. n
          PROVE  frames'[i].left = Later(i, frames', report2)
      <4>1. frames'[i].left =
              {q \in Below(frames[i].place) :
                 (q > place /\ ~ (i = n /\ q = place')) /\ Awaits(i, q)}
        BY <2>1, <2>2
      <4>2. \A q \in Below(frames[i].place) : q \in Place /\ up(q) = frames[i].place
        BY DEF Below
      <4>3. \A q \in Place : up(q) = frames[i].place => q \in Below(frames[i].place)
        BY DEF Below
      <4>4. ASSUME NEW q PROVE q \in frames'[i].left <=> q \in Later(i, frames', report2)
        <5>1. q \in frames'[i].left
                <=> /\ q \in Place /\ up(q) = frames[i].place
                    /\ q > place /\ ~ (i = n /\ q = place')
                    /\ i = 1 => (kind(q) \in Reports <=> report)
          BY <4>1, <4>2, <4>3 DEF Awaits
        <5>2. q \in Later(i, frames', report2)
                <=> /\ q \in Place /\ up(q) = frames[i].place
                    /\ q > place'
                    /\ i = 1 => (kind(q) \in Reports <=> report)
          BY <2>1
        <5>3. QED
          BY <2>4, <5>1, <5>2
      <4>5. /\ frames'[i].left \in SUBSET Place
            /\ Later(i, frames', report2) \in SUBSET Place
        BY <4>1, <4>2
      <4>6. HIDE DEF Later, report2
      <4>7. QED
        BY <4>4, <4>5
    <3>2. QED
      BY <2>1, <3>1
  <2>6. Past
    <3>1. place' \in Nat /\ \A i \in 1 .. n : frames[i].place <= place
      BY <1>6, <2>1 DEF Order
    <3>2. \A i \in 1 .. n : frames[i].place <= place'
      BY <1>5, <1>6, <2>3, <3>1
    <3>3. QED
      BY <2>1, <3>2
  <2>7. Reporting
    BY <2>1, <2>3 DEF Order, Types
  <2>8. Reported
    BY <1>6, <2>1, <2>3 DEF Order
  <2>9. QED
    BY <2>1, <2>5, <2>6, <2>7, <2>8
<1>8. CASE PlaceFails \/ Foreign \/ Begin \/ Finish
  BY <1>3, <1>8 DEF PlaceFails, Foreign, Begin, Finish, Types, Order
<1>9. CASE Omit
  BY <1>3, <1>9 DEF Omit, InStep, Types, Order
<1>10. ASSUME NEW outcome \in Outcome, Emit(outcome) PROVE Goal
  BY <1>3, <1>10 DEF Emit, InStep, EmitRecord, Types, Order
<1>11. ASSUME NEW stops \in BOOLEAN, StepFails(stops) PROVE Goal
  BY <1>3, <1>11 DEF StepFails, InStep, Types, Order
<1>12. CASE PassBy \/ EnterEnumFails
  BY <1>3, <1>12 DEF PassBy, EnterEnumFails, Types, Order
<1>13. CASE Enter \/ EnterFunctionFails
  <2>1. Frame \in FrameRecord /\ Frame.place = place /\ Frame.left = Below(place)
    BY DEF Frame, FrameRecord, Below, Types
  <2>2. /\ frames' = Append(frames, Frame) /\ pc' = "walk" /\ pc = "enter" /\ ~ stopped
        /\ Here.kind \notin Reports /\ UNCHANGED <<phase, place, stopped>>
    BY <1>13 DEF Enter, EnterFunctionFails, Reports
  <2>3. /\ Len(frames') = n + 1 /\ frames'[n + 1].place = place
        /\ frames'[n + 1].left = Below(place)
        /\ \A i \in 1 .. n : frames'[i] = frames[i]
    BY <2>1, <2>2, Pushed DEF Types
  <2>4. place \in Place /\ place # 0 /\ phase = "visit"
    BY <1>6, <2>2, Shape DEF Path, Order, Here, Types
  <2>5. ASSUME NEW i \in 1 .. n + 1 PROVE frames'[i].left = Later(i, frames', report2)
    <3>1. CASE i = n + 1
      <4>1. \A q \in Place : up(q) = place => q > place
        BY Shape DEF Types
      <4>2. QED
        BY <1>4, <2>2, <2>3, <3>1, <4>1 DEF Below
    <3>2. CASE i # n + 1
      <4>1. i \in 1 .. n
        BY <1>4, <3>2
      <4>2. frames[i].left = {q \in Below(frames[i].place) : q > place /\ Awaits(i, q)}
        BY <2>4, <4>1 DEF Order
      <4>3. frames'[i] = frames[i]
        BY <2>3, <4>1
      <4>4. QED
        BY <2>2, <4>2, <4>3 DEF Below, Awaits
    <3>3. QED
      BY <3>1, <3>2
  <2>6. ASSUME NEW i \in 1 .. n + 1 PROVE frames'[i].place <= place
    <3>1. CASE i = n + 1
      BY <1>6, <2>3, <3>1
    <3>2. CASE i # n + 1
      <4>1. i \in 1 .. n
        BY <1>4, <3>2
      <4>2. QED
        BY <2>3, <4>1 DEF Order
    <3>3. QED
      BY <3>1, <3>2
  <2>7. Left
    BY <2>2, <2>3, <2>4, <2>5
  <2>8. Past
    BY <2>2, <2>3, <2>6
  <2>9. Reporting /\ Reported /\ Collecting
    BY <2>2, <2>4 DEF Order
  <2>10. QED
    BY <2>7, <2>8, <2>9
<1>14. CASE Leave
  <2>1. /\ Len(frames') = n - 1 /\ \A i \in 1 .. n - 1 : frames'[i] = frames[i]
        /\ n > 1 /\ UNCHANGED <<phase, pc, place, stopped>>
    BY <1>14, Popped DEF Leave, Types
  <2>2. \A i \in 1 .. n - 1 : i \in 1 .. n
    BY <1>4
  <2>3. phase = "visit"
    BY <2>1 DEF Order, Types
  <2>4. Left
    <3>1. ASSUME NEW i \in 1 .. n - 1 PROVE frames'[i].left = Later(i, frames', report2)
      <4>1. frames[i].left = {q \in Below(frames[i].place) : q > place /\ Awaits(i, q)}
        BY <2>2, <2>3 DEF Order
      <4>2. QED
        BY <2>1, <4>1 DEF Below, Awaits
    <3>2. QED
      BY <2>1, <2>3, <3>1
  <2>5. Past
    BY <2>1, <2>2 DEF Order
  <2>6. Reporting /\ Reported /\ Collecting
    BY <2>1, <2>3 DEF Order
  <2>7. QED
    BY <2>4, <2>5, <2>6
<1>15. CASE CollectMacros
  <2>1. UNCHANGED <<frames, place, phase, pc>>
    BY <1>15 DEF CollectMacros, CollectForeign, GrowFails, Grow, Collect, position
  <2>2. stopped' = stopped \/ stopped' = TRUE
    BY <1>15 DEF CollectMacros, CollectForeign, GrowFails, Grow, Collect
  <2>3. QED
    BY <1>3, <2>1, <2>2 DEF Order, Types
<1>16. CASE ReportsDone
  <2>1. /\ n = 1 /\ Top.left = {} /\ ~ stopped /\ phase = "report" /\ phase' = "collect"
        /\ pc = "walk" /\ UNCHANGED <<frames, place, stopped, pc>>
    BY <1>16 DEF ReportsDone, AtRoot, Children
  <2>2. {q \in Below(0) : q > place /\ Awaits(1, q)} = {}
    BY <1>4, <2>1 DEF Order, Path
  <2>3. ASSUME NEW q \in Place, q > place PROVE kind(q) \notin Reports
    <3>1. SUFFICES ASSUME kind(q) \in Reports PROVE FALSE
      OBVIOUS
    <3>2. up(q) = 0
      BY <1>6, <3>1, Shape DEF Types
    <3>3. QED
      BY <2>1, <2>2, <2>3, <3>1, <3>2 DEF Below, Awaits
  <2>4. Left
    <3>1. \A i \in 1 .. n : frames[i].left = {}
      BY <1>4, <2>1
    <3>2. QED
      BY <2>1, <3>1
  <2>5. QED
    BY <2>1, <2>3, <2>4 DEF Order
<1>17. CASE StartVisit
  <2>1. /\ phase = "collect" /\ phase' = "visit" /\ ~ stopped /\ UNCHANGED <<place, stopped>>
        /\ Len(frames') = 1 /\ frames'[1].place = 0
        /\ frames'[1].left = {p \in Below(0) : At(p).kind \notin Reports}
    BY <1>17 DEF StartVisit, Root
  <2>2. ASSUME NEW q \in Place, kind(q) \notin Reports PROVE q > place
    <3>1. place # 0 => place \in Place /\ kind(place) \in Reports
      BY <2>1 DEF Order, Types, Anywhere
    <3>2. place # 0 => ~ (q <= place)
      BY <2>2, <3>1, Shape DEF Types
    <3>3. q \in Nat /\ q # 0
      BY <1>6, Shape DEF Types
    <3>4. QED
      BY <1>6, <3>2, <3>3
  <2>3. frames'[1].left = Later(1, frames', report2)
    BY <2>1, <2>2 DEF Below
  <2>4. Left
    BY <2>1, <2>3
  <2>5. QED
    BY <1>6, <2>1, <2>4 DEF Order
<1>18. CASE End \/ UNCHANGED vars
  BY <1>3, <1>18 DEF End, vars, position, Types, Order
<1>19. QED
  BY <1>7, <1>8, <1>9, <1>10, <1>11, <1>12, <1>13, <1>14, <1>15, <1>16, <1>17, <1>18
     DEF Next, VisitPlace, WalkTree

-----------------------------------------------------------------------------
(* Records and their scope.                                                *)

\* An error that was raised stays.
LEMMA ErrorStays == Types /\ [Next]_vars /\ ~ err' => ~ err
<1> SUFFICES ASSUME Types, [Next]_vars, ~ err' PROVE ~ err
  OBVIOUS
<1>1. VisitPlace => ~ err
  BY DEF VisitPlace, TakeUp, PlaceFails, Foreign, Begin, Omit, Finish, Emit, EmitRecord, StepFails,
     Types
<1>2. WalkTree => ~ err
  BY DEF WalkTree, PassBy, Enter, EnterFunctionFails, EnterEnumFails, Leave
<1>3. CollectMacros => ~ err
  BY DEF CollectMacros, CollectForeign, GrowFails, Grow, Collect
<1>4. ReportsDone \/ StartVisit \/ End => ~ err
  BY DEF ReportsDone, StartVisit, End
<1>5. QED
  BY <1>1, <1>2, <1>3, <1>4 DEF Next, vars

\* The function and the enumeration in force are those of the visit in progress.
LEMMA ScopesStart == Init => Scopes
BY DEF Init, Root, Scopes, Top, FunctionAt, EnumAt

\* A visit entered changes what is in force, and its end brings back what was.
LEMMA ScopesStep == Types /\ Path /\ Order /\ Scopes /\ [Next]_vars => Scopes'
<1> SUFFICES ASSUME Types, Path, Order, Scopes, [Next]_vars, ~ err'
             PROVE  Scopes'
  BY DEF Scopes
<1> DEFINE n == Len(frames)
           Fn(p) == Function(p)
           En(p) == NamedEnum(p)
           FnAt(p) == FunctionAt(p)
           EnAt(p) == EnumAt(p)
           Saved(f, i) == f[i].function = Fn(f[i].place) /\ f[i].enum = En(f[i].place)
           Saves == \A i \in 2 .. Len(frames') : Saved(frames', i)
           Current2 == /\ function' = FnAt(frames'[Len(frames')].place)
                       /\ enum' = EnAt(frames'[Len(frames')].place)
           Records == last'.place # 0 => /\ last'.place \in Place
                                         /\ last'.function = Fn(last'.place)
                                         /\ last'.enum = En(last'.place)
<1>1. /\ unit' = unit /\ Place' = Place
      /\ \A p : /\ Function(p)' = Function(p) /\ NamedEnum(p)' = NamedEnum(p)
                /\ FunctionAt(p)' = FunctionAt(p) /\ EnumAt(p)' = EnumAt(p)
  BY UnitStays, SameUnit
<1>2. SUFFICES Saves /\ Current2 /\ Records
  BY <1>1 DEF Scopes, Top
<1>3. ~ err
  BY ErrorStays
<1>4. /\ \A i \in 2 .. n : Saved(frames, i)
      /\ function = FnAt(Top.place) /\ enum = EnAt(Top.place)
      /\ last.place # 0 => /\ last.place \in Place
                           /\ last.function = Fn(last.place)
                           /\ last.enum = En(last.place)
  BY <1>3 DEF Scopes
<1>5. n \in Nat \ {0} /\ n \in 1 .. n /\ Top = frames[n]
  BY TopFrame DEF Top
<1> HIDE DEF Fn, En, FnAt, EnAt
<1>6. UNCHANGED last => Records
  BY <1>4
<1>7. UNCHANGED <<frames, function, enum>> => Saves /\ Current2
  BY <1>4 DEF Top
<1>8. place \in Place => Fn(place) = FnAt(At(place).parent) /\ En(place) = EnAt(At(place).parent)
  BY ScopeOfPlace DEF Fn, En, FnAt, EnAt, Types
<1>9. CASE TakeUp
  <2>1. /\ Len(frames') = n /\ \A i \in 1 .. n : /\ frames'[i].place = frames[i].place
                                                /\ frames'[i].function = frames[i].function
                                                /\ frames'[i].enum = frames[i].enum
    BY <1>9, TakenUp
  <2>2. UNCHANGED <<function, enum, last>>
    BY <1>9 DEF TakeUp, scope, history
  <2>3. \A i \in 2 .. n : i \in 1 .. n
    BY <1>5
  <2>4. Saves
    BY <1>4, <2>1, <2>3
  <2>5. Current2
    BY <1>4, <1>5, <2>1, <2>2
  <2>6. QED
    BY <1>6, <2>2, <2>4, <2>5
<1>10. CASE PlaceFails \/ Foreign \/ Begin \/ Finish
  BY <1>6, <1>7, <1>10 DEF PlaceFails, Foreign, Begin, Finish, scope, history
<1>11. CASE Omit
  BY <1>6, <1>7, <1>11 DEF Omit, scope, history
<1>12. ASSUME NEW outcome \in Outcome, Emit(outcome) PROVE Saves /\ Current2 /\ Records
  <2>1. UNCHANGED <<frames, function, enum>> /\ pc = "emit"
    BY <1>12 DEF Emit, InStep, scope
  <2>2. last'.place = place /\ last'.function = function /\ last'.enum = enum
    BY <1>12 DEF Emit, Remember
  <2>3. place \in Place /\ At(place).parent = Top.place
    BY <2>1 DEF Path
  <2>4. Records
    BY <1>4, <1>8, <2>2, <2>3
  <2>5. QED
    BY <1>7, <2>1, <2>4
<1>13. ASSUME NEW stops \in BOOLEAN, StepFails(stops) PROVE FALSE
  BY <1>13 DEF StepFails
<1>14. CASE PassBy
  BY <1>6, <1>7, <1>14 DEF PassBy, scope, history
<1>15. CASE Enter
  <2>1. Frame \in FrameRecord
    BY DEF Frame, FrameRecord, Below, Types
  <2>2. frames' = Append(frames, Frame) /\ pc = "enter" /\ UNCHANGED last
    BY <1>15 DEF Enter, history
  <2>3. /\ Len(frames') = n + 1 /\ frames'[n + 1] = Frame
        /\ \A i \in 1 .. n : frames'[i] = frames[i]
    BY <2>1, <2>2, Pushed DEF Types
  <2>4. /\ Frame.place = place /\ Frame.function = function /\ Frame.enum = enum
        /\ place \in Place /\ place # 0 /\ At(place).parent = Top.place
    BY <2>2, Shape DEF Frame, Path, Types
  <2>5. function = Fn(place) /\ enum = En(place)
    BY <1>4, <1>8, <2>4
  <2>6. ASSUME NEW i \in 2 .. n + 1 PROVE Saved(frames', i)
    <3>1. CASE i = n + 1
      BY <2>3, <2>4, <2>5, <3>1
    <3>2. CASE i # n + 1
      <4>1. i \in 2 .. n /\ i \in 1 .. n
        BY <1>5, <3>2
      <4>2. QED
        BY <1>4, <2>3, <4>1
    <3>3. QED
      BY <3>1, <3>2
  <2>7. function' = FnAt(place)
    BY <1>15, <2>4, <2>5 DEF Enter, Here, FnAt, Fn, FunctionAt
  <2>8. enum' = EnAt(place)
    BY <1>15, <2>4, <2>5 DEF Enter, Here, EnAt, En, EnumAt
  <2>9. QED
    BY <1>5, <1>6, <2>2, <2>3, <2>4, <2>6, <2>7, <2>8
<1>16. CASE EnterFunctionFails \/ EnterEnumFails
  BY <1>16 DEF EnterFunctionFails, EnterEnumFails
<1>17. CASE Leave
  <2>1. /\ Len(frames') = n - 1 /\ \A i \in 1 .. n - 1 : frames'[i] = frames[i]
        /\ n > 1 /\ UNCHANGED last /\ function' = Top.function /\ enum' = Top.enum
    BY <1>17, Popped DEF Leave, Types, history
  <2>2. \A i \in 2 .. n - 1 : i \in 1 .. n - 1 /\ i \in 2 .. n
    BY <1>5
  <2>3. Saves
    BY <1>4, <2>1, <2>2
  <2>4. n \in 2 .. n /\ n - 1 \in 1 .. n - 1
    BY <1>5, <2>1
  <2>5. frames[n].place \in Place /\ At(frames[n].place).parent = frames[n - 1].place
    BY <2>4 DEF Path
  <2>6. /\ Fn(frames[n].place) = FnAt(frames[n - 1].place)
        /\ En(frames[n].place) = EnAt(frames[n - 1].place)
    BY <2>5, ScopeOfPlace DEF Fn, En, FnAt, EnAt, Types
  <2>7. Current2
    BY <1>4, <1>5, <2>1, <2>4, <2>6
  <2>8. QED
    BY <1>6, <2>1, <2>3, <2>7
<1>18. CASE CollectMacros
  BY <1>6, <1>7, <1>18 DEF CollectMacros, CollectForeign, GrowFails, Grow, Collect, position, scope,
     history
<1>19. CASE ReportsDone
  BY <1>6, <1>7, <1>19 DEF ReportsDone, scope, history
<1>20. CASE StartVisit
  <2>1. /\ Len(frames') = 1 /\ frames'[1].place = 0 /\ n = 1
        /\ UNCHANGED <<function, enum, last>>
    BY <1>20 DEF StartVisit, Root, Order, scope, history
  <2>2. Top.place = 0
    BY <1>5, <2>1 DEF Path
  <2>3. QED
    BY <1>4, <1>6, <2>1, <2>2
<1>21. CASE End \/ UNCHANGED vars
  BY <1>6, <1>7, <1>21 DEF End, vars, position, scope, history
<1>22. QED
  BY <1>9, <1>10, <1>11, <1>12, <1>13, <1>14, <1>15, <1>16, <1>17, <1>18, <1>19, <1>20, <1>21
     DEF Next, VisitPlace, WalkTree

-----------------------------------------------------------------------------
(* The table of macro expansions.                                          *)

\* The table holds what was collected.
LEMMA MacrosStart == Init => Macros
<1> SUFFICES ASSUME Init PROVE Macros
  OBVIOUS
<1>1. Len(Unit.expansions) \in Nat
  BY Shape DEF Init
<1>2. ranges \in Seq(Nat) /\ Len(ranges) = 0
  BY DEF Init
<1>3. QED
  BY <1>1, <1>2, CapacityAssumption DEF Init, Macros

\* A range is written only where there is room for it.
LEMMA MacrosStep == Types /\ Macros /\ [Next]_vars => Macros'
<1> SUFFICES ASSUME Types, Macros, [Next]_vars PROVE Macros'
  OBVIOUS
<1> DEFINE total == Len(Unit.expansions)
           range(i) == Unit.expansions[i].range
           foreign(i) == Unit.expansions[i].system
           Sized == /\ capacity' \in 0 .. MaxCapacity
                    /\ ranges' \in Seq(Nat) /\ Len(ranges') <= capacity'
                    /\ considered' \in 0 .. total
           Same == \A r \in Nat :
                     (\E i \in 1 .. Len(ranges') : ranges'[i] = r) <=>
                        \E i \in 1 .. considered' : foreign(i) = FALSE /\ range(i) = r
           Done == phase' = "visit" /\ Unit.detailed => considered' = total
<1>1. unit' = unit /\ Unit' = Unit
  BY UnitStays, SameUnit
<1>2. /\ total \in Nat
      /\ \A i \in 1 .. total : foreign(i) \in BOOLEAN /\ range(i) \in Nat
  <2> DEFINE S == [range : Nat, system : BOOLEAN]
  <2>1. Unit.expansions \in Seq(S)
    BY Shape DEF Types
  <2> HIDE DEF S
  <2>2. total \in Nat /\ \A i \in 1 .. total : Unit.expansions[i] \in S
    BY <2>1
  <2>3. QED
    BY <2>2 DEF S
<1>3. /\ capacity \in 0 .. MaxCapacity /\ ranges \in Seq(Nat) /\ Len(ranges) <= capacity
      /\ considered \in 0 .. total
      /\ \A r \in Nat :
           (\E i \in 1 .. Len(ranges) : ranges[i] = r) <=>
             \E i \in 1 .. considered : foreign(i) = FALSE /\ range(i) = r
      /\ phase = "visit" /\ Unit.detailed => considered = total
  <2>1. \A i \in 1 .. considered : Foreigner(i) <=> ~ (foreign(i) = FALSE)
    BY <1>2 DEF Macros, Foreigner
  <2>2. QED
    BY <2>1 DEF Macros
<1>4. SUFFICES Sized /\ Same /\ Done
  <2>1. \A i : Foreigner(i)' = foreign(i)
    BY <1>1 DEF Foreigner
  <2>2. Sized => \A i \in 1 .. considered' : foreign(i) \in BOOLEAN
    BY <1>2
  <2>3. QED
    BY <1>1, <2>1, <2>2 DEF Macros, Foreigner
<1>5. UNCHANGED macros /\ (phase' = "visit" => phase = "visit") => Sized /\ Same /\ Done
  BY <1>3 DEF macros
<1>6. CASE VisitPlace
  BY <1>5, <1>6 DEF VisitPlace, TakeUp, PlaceFails, Foreign, Begin, Omit, Finish, Emit, StepFails
<1>7. CASE WalkTree
  BY <1>5, <1>7 DEF WalkTree, PassBy, Enter, EnterFunctionFails, EnterEnumFails, Leave
<1> DEFINE next == considered + 1
<1>8. ASSUME Expanding
      PROVE  /\ Expansion = Unit.expansions[next] /\ next \in 1 .. total /\ phase = "collect"
             /\ \A i \in 1 .. next : i \in 1 .. considered \/ i = next
             /\ considered \in Nat
  BY <1>2, <1>3, <1>8 DEF Expanding, Expansion
<1>9. CASE CollectForeign
  <2>1. considered' = next /\ UNCHANGED <<ranges, capacity, phase>>
    BY <1>9 DEF CollectForeign, position
  <2>2. foreign(next) # FALSE
    BY <1>2, <1>8, <1>9 DEF CollectForeign
  <2>3. Same
    <3>1. Expanding
      BY <1>9 DEF CollectForeign
    <3>2. \A i \in 1 .. next : foreign(i) = FALSE => i \in 1 .. considered
      BY <1>8, <2>2, <3>1
    <3>3. \A i \in 1 .. considered : i \in 1 .. next
      BY <1>8, <3>1
    <3>4. QED
      BY <1>3, <2>1, <3>2, <3>3
  <2>4. Sized /\ Done
    BY <1>3, <1>8, <1>9, <2>1 DEF CollectForeign
  <2>5. QED
    BY <2>3, <2>4
<1>10. CASE GrowFails
  BY <1>5, <1>10 DEF GrowFails, position
<1>11. CASE Grow
  <2>1. Wider \in Nat /\ Len(ranges) <= Wider
    BY <1>3, <1>11, CapacityAssumption DEF Wider, Grow
  <2>2. capacity' = Wider /\ Wider <= MaxCapacity /\ UNCHANGED <<ranges, considered, phase>>
    BY <1>11 DEF Grow, position
  <2>3. Sized /\ Done
    BY <1>3, <2>1, <2>2, CapacityAssumption
  <2>4. Same
    BY <1>3, <2>2
  <2>5. QED
    BY <2>3, <2>4
<1>12. CASE Collect
  <2> DEFINE n == Len(ranges)
             r0 == range(next)
  <2>1. considered' = next /\ UNCHANGED <<capacity, phase>> /\ n < capacity
    BY <1>12 DEF Collect, position
  <2>2. foreign(next) = FALSE
    BY <1>2, <1>8, <1>12 DEF Collect
  <2>3. ranges' = Append(ranges, r0) /\ r0 \in Nat
    BY <1>2, <1>8, <1>12 DEF Collect
  <2> HIDE DEF r0
  <2>4. /\ ranges' \in Seq(Nat) /\ n \in Nat /\ Len(ranges') = n + 1 /\ ranges'[n + 1] = r0
        /\ \A i \in 1 .. n : ranges'[i] = ranges[i]
    BY <1>3, <2>3
  <2>5. \A i \in 1 .. n + 1 : i \in 1 .. n \/ i = n + 1
    BY <2>4
  <2>6. ASSUME NEW r \in Nat
        PROVE  (\E i \in 1 .. n + 1 : ranges'[i] = r)
                 <=> r = r0 \/ \E i \in 1 .. n : ranges[i] = r
    <3>1. \A i \in 1 .. n : i \in 1 .. n + 1
      BY <2>4
    <3>2. n + 1 \in 1 .. n + 1
      BY <2>4
    <3>3. QED
      BY <2>4, <2>5, <3>1, <3>2
  <2>7. ASSUME NEW r \in Nat
        PROVE  (\E i \in 1 .. next : foreign(i) = FALSE /\ range(i) = r)
                 <=> r = r0 \/ \E i \in 1 .. considered : foreign(i) = FALSE /\ range(i) = r
    <3>1. Expanding
      BY <1>12 DEF Collect
    <3>2. \A i \in 1 .. considered : i \in 1 .. next
      BY <1>8, <3>1
    <3>3. next \in 1 .. next /\ \A i \in 1 .. next : i \in 1 .. considered \/ i = next
      BY <1>8, <3>1
    <3>4. QED
      BY <2>2, <3>2, <3>3 DEF r0
  <2>8. Same
    BY <1>3, <2>1, <2>4, <2>6, <2>7
  <2>9. Sized /\ Done
    BY <1>3, <1>8, <1>12, <2>1, <2>4 DEF Collect
  <2>10. QED
    BY <2>8, <2>9
<1>13. CASE ReportsDone
  BY <1>5, <1>13 DEF ReportsDone
<1>14. CASE StartVisit
  <2>1. UNCHANGED <<ranges, capacity, considered>>
    BY <1>14 DEF StartVisit, macros
  <2>2. Unit.detailed => ~ (considered < total)
    BY <1>14 DEF StartVisit, Expanding
  <2>3. QED
    BY <1>2, <1>3, <2>1, <2>2
<1>15. CASE End \/ UNCHANGED vars
  BY <1>5, <1>15 DEF End, vars, position
<1>16. QED
  BY <1>6, <1>7, <1>9, <1>10, <1>11, <1>12, <1>13, <1>14, <1>15 DEF Next, CollectMacros

-----------------------------------------------------------------------------
(* Mutation candidates.                                                    *)

\* What the look for a role through the first m places has found.
Finding(known, role, m) ==
  known = [n \in 0 .. m |->
             IF n = 0 THEN [usr |-> 0, matches |-> 0]
             ELSE IF ~ HasRole(n, role) \/ At(n).usr \in {0, known[n - 1].usr} THEN known[n - 1]
             ELSE [usr |-> IF known[n - 1].matches = 0 THEN At(n).usr ELSE known[n - 1].usr,
                   matches |-> known[n - 1].matches + 1]]

\* Such a table exists for every number of places.
LEMMA FindingExists ==
  ASSUME NEW role
  PROVE  \A m \in Nat : \E known : Finding(known, role, m)
<1> DEFINE T == {m \in Nat : ~ \E known : Finding(known, role, m)}
           value(n, f) ==
             IF n = 0 THEN [usr |-> 0, matches |-> 0]
             ELSE IF ~ HasRole(n, role) \/ At(n).usr \in {0, f[n - 1].usr} THEN f[n - 1]
             ELSE [usr |-> IF f[n - 1].matches = 0 THEN At(n).usr ELSE f[n - 1].usr,
                   matches |-> f[n - 1].matches + 1]
<1>1. SUFFICES ASSUME T # {} PROVE FALSE
  OBVIOUS
<1>2. PICK m \in T : \A n \in T : m <= n
  <2>1. T \in SUBSET Nat
    OBVIOUS
  <2>2. QED
    BY <1>1, <2>1, LeastNumber
<1>3. m # 0
  <2> DEFINE k == [n \in 0 .. 0 |-> [usr |-> 0, matches |-> 0]]
  <2>1. \A n \in 0 .. 0 : n = 0
    OBVIOUS
  <2>2. \A n \in 0 .. 0 : value(n, k) = [usr |-> 0, matches |-> 0]
    BY <2>1
  <2>3. k = [n \in 0 .. 0 |-> value(n, k)]
    BY <2>2
  <2>4. Finding(k, role, 0)
    BY <2>3 DEF Finding
  <2>5. QED
    BY <2>4
<1>4. PICK g : Finding(g, role, m - 1)
  <2>1. m - 1 \in Nat /\ ~ (m <= m - 1)
    BY <1>3
  <2>2. QED
    BY <1>2, <2>1
<1>5. g = [n \in 0 .. m - 1 |-> value(n, g)]
  BY <1>4 DEF Finding
<1> DEFINE h == [n \in 0 .. m |-> value(n, g)]
<1>6. \A n \in 0 .. m : n # 0 => n - 1 \in 0 .. m - 1 /\ n - 1 \in 0 .. m
  OBVIOUS
<1> HIDE DEF value
<1>7. \A n \in 0 .. m - 1 : g[n] = value(n, g)
  BY <1>5
<1>8. \A n \in 0 .. m - 1 : n \in 0 .. m
  OBVIOUS
<1>9. \A n \in 0 .. m - 1 : h[n] = g[n]
  BY <1>7, <1>8
<1> HIDE DEF h
<1>10. \A n \in 0 .. m : n # 0 => h[n - 1] = g[n - 1]
  BY <1>6, <1>9
<1>11. \A n \in 0 .. m : value(n, h) = value(n, g)
  BY <1>10 DEF value
<1>12. h = [n \in 0 .. m |-> value(n, h)]
  BY <1>11 DEF h
<1>13. Finding(h, role, m)
  BY <1>12 DEF Finding, value
<1>14. QED
  BY <1>2, <1>13

\* What is found of a role in the first n places, and whether it is the only one.
Identities(role, n) == {At(p).usr : p \in {q \in 1 .. n : HasRole(q, role)}} \ {0}
Tallies(f, role, n) ==
  /\ f.usr \in Nat /\ f.matches \in Nat
  /\ f.usr # 0 => f.usr \in Identities(role, n)
  /\ f.matches = 0 => f.usr = 0 /\ Identities(role, n) = {}
  /\ f.matches # 0 => f.usr # 0
  /\ f.matches = 1 => Identities(role, n) = {f.usr}

\* What is found so tallies with the identities, place by place.
LEMMA KnownTallies ==
  ASSUME unit \in DOMAIN Units, NEW role
  PROVE  \A n \in 0 .. Len(Unit.places) : Tallies(Known(role)[n], role, n)
<1> DEFINE N == Len(Unit.places)
           K == Known(role)
           T == {n \in 0 .. N : ~ Tallies(K[n], role, n)}
<1>1. SUFFICES ASSUME T # {} PROVE FALSE
  OBVIOUS
<1>2. /\ N \in Nat /\ Place = 1 .. N
      /\ \A p \in Place : At(p).usr \in Nat
  BY Shape DEF PlaceRecord
<1>3. PICK k : Finding(k, role, N)
  BY <1>2, FindingExists
<1>4. Finding(K, role, N)
  BY <1>3 DEF Finding, Known
<1>5. \A n \in 0 .. N :
        K[n] = IF n = 0 THEN [usr |-> 0, matches |-> 0]
               ELSE IF ~ HasRole(n, role) \/ At(n).usr \in {0, K[n - 1].usr} THEN K[n - 1]
               ELSE [usr |-> IF K[n - 1].matches = 0 THEN At(n).usr ELSE K[n - 1].usr,
                     matches |-> K[n - 1].matches + 1]
  BY <1>4 DEF Finding
<1> HIDE DEF K
<1>6. PICK m \in T : \A n \in T : m <= n
  <2>1. T \in SUBSET Nat
    BY <1>2
  <2>2. QED
    BY <1>1, <2>1, LeastNumber
<1>7. m \in 0 .. N /\ m \in Nat
  BY <1>2
<1>8. CASE m = 0
  <2>1. K[0].usr = 0 /\ K[0].matches = 0
    <3>1. 0 \in 0 .. N
      BY <1>2
    <3>2. K[0] = [usr |-> 0, matches |-> 0]
      BY <1>5, <3>1
    <3>3. QED
      BY <3>2
  <2>2. Identities(role, 0) = {}
    <3>1. \A q : q \notin 1 .. 0
      OBVIOUS
    <3>2. QED
      BY <3>1 DEF Identities
  <2>3. Tallies(K[0], role, 0)
    BY <2>1, <2>2 DEF Tallies
  <2>4. QED
    BY <1>6, <1>8, <2>3
<1>9. CASE m # 0
  <2> DEFINE f == K[m - 1]
             g == K[m]
             u == At(m).usr
  <2>1. m - 1 \in 0 .. N /\ ~ (m <= m - 1) /\ m \in Place
    BY <1>2, <1>7, <1>9
  <2>2. Tallies(f, role, m - 1)
    BY <1>6, <2>1
  <2>3. u \in Nat
    BY <1>2, <2>1
  <2>4. g = IF ~ HasRole(m, role) \/ u \in {0, f.usr} THEN f
            ELSE [usr |-> IF f.matches = 0 THEN u ELSE f.usr, matches |-> f.matches + 1]
    BY <1>5, <1>7, <1>9
  <2> HIDE DEF f, g
  <2>5. Identities(role, m) =
          IF HasRole(m, role) THEN Identities(role, m - 1) \cup ({u} \ {0})
          ELSE Identities(role, m - 1)
    <3>1. \A q : q \in 1 .. m <=> q \in 1 .. m - 1 \/ q = m
      BY <1>7, <1>9
    <3>2. \A x : x \in Identities(role, m) <=>
                   x # 0 /\ \E q \in 1 .. m : HasRole(q, role) /\ x = At(q).usr
      BY DEF Identities
    <3>3. \A x : x \in Identities(role, m - 1) <=>
                   x # 0 /\ \E q \in 1 .. m - 1 : HasRole(q, role) /\ x = At(q).usr
      BY DEF Identities
    <3>4. QED
      BY <3>1, <3>2, <3>3
  <2>6. Tallies(g, role, m)
    <3> HIDE DEF u
    <3>1. CASE ~ HasRole(m, role) \/ u \in {0, f.usr}
      <4>1. g = f
        BY <2>4, <3>1
      <4>2. Identities(role, m) = Identities(role, m - 1)
        BY <2>2, <2>5, <3>1 DEF Tallies
      <4>3. QED
        BY <2>2, <4>1, <4>2 DEF Tallies
    <3>2. CASE HasRole(m, role) /\ u \notin {0, f.usr}
      <4>1. g.usr = (IF f.matches = 0 THEN u ELSE f.usr) /\ g.matches = f.matches + 1
        BY <2>4, <3>2
      <4>2. Identities(role, m) = Identities(role, m - 1) \cup {u}
        BY <2>5, <3>2
      <4>3. g.matches \in Nat /\ g.matches # 0 /\ (g.matches = 1 => f.matches = 0)
        BY <2>2, <4>1 DEF Tallies
      <4>4. g.usr \in Nat /\ g.usr # 0 /\ g.usr \in Identities(role, m)
        BY <2>2, <2>3, <3>2, <4>1, <4>2 DEF Tallies
      <4>5. f.matches = 0 => Identities(role, m) = {g.usr}
        BY <2>2, <4>1, <4>2 DEF Tallies
      <4>6. QED
        BY <4>3, <4>4, <4>5 DEF Tallies
    <3>3. QED
      BY <3>1, <3>2
  <2>7. QED
    BY <1>6, <2>6 DEF g
<1>10. QED
  BY <1>8, <1>9

\* The only function with a role is the only one with an identity.
LEMMA OnlyOne ==
  ASSUME unit \in DOMAIN Units, NEW role
  PROVE  /\ OnlyWithRole(role) \in Nat
         /\ OnlyWithRole(role) # 0 =>
              Identities(role, Len(Unit.places)) = {OnlyWithRole(role)}
<1> DEFINE found == Known(role)[Len(Unit.places)]
<1>1. Len(Unit.places) \in 0 .. Len(Unit.places)
  BY Shape
<1>2. Tallies(found, role, Len(Unit.places))
  BY <1>1, KnownTallies
<1>3. OnlyWithRole(role) = IF found.matches = 1 THEN found.usr ELSE 0
  BY DEF OnlyWithRole
<1> HIDE DEF found
<1>4. QED
  BY <1>2, <1>3 DEF Tallies

\* What a place hands over as candidates.
LEMMA CandidatesSwap ==
  ASSUME unit \in DOMAIN Units, NEW c \in Place
  PROVE  /\ Candidates(c) \in Seq(Candidate)
         /\ \A i \in 1 .. Len(Candidates(c)) : Swapped(Candidates(c)[i])
<1> DEFINE N == Len(Unit.places)
<1>1. /\ At(c) \in PlaceRecord /\ Place = 1 .. N
      /\ \A p \in Place : At(p).role \in {"none", "positive", "negative"}
  BY Shape DEF PlaceRecord
<1>2. ASSUME NEW t \in Nat, NEW r \in Nat,
             r # 0 => {At(p).usr : p \in Opposites(c)} \ {0} = {r}
      PROVE  LET m == [place |-> c, token |-> t, replacement |-> r]
             IN  m \in Candidate /\ Swapped(m)
  BY <1>2 DEF Candidate, Swapped
<1>3. ASSUME NEW r \in Nat, r # 0 => {At(p).usr : p \in Opposites(c)} \ {0} = {r}
      PROVE  /\ FirstCandidate(c, r) \in Seq(Candidate)
             /\ \A i \in 1 .. Len(FirstCandidate(c, r)) : Swapped(FirstCandidate(c, r)[i])
  <2> DEFINE m == [place |-> c, token |-> Head(At(c).tokens), replacement |-> r]
  <2>1. CASE At(c).tokens = << >>
    <3>1. FirstCandidate(c, r) = << >>
      BY <2>1 DEF FirstCandidate
    <3>2. << >> \in Seq(Candidate) /\ Len(<< >>) = 0
      OBVIOUS
    <3>3. QED
      BY <3>1, <3>2
  <2>2. CASE At(c).tokens # << >>
    <3>1. FirstCandidate(c, r) = <<m>>
      BY <2>2 DEF FirstCandidate
    <3>2. At(c).tokens \in Seq(Nat)
      BY <1>1 DEF PlaceRecord
    <3>3. Head(At(c).tokens) \in Nat
      BY <2>2, <3>2
    <3>4. m \in Candidate /\ Swapped(m)
      BY <1>2, <1>3, <3>3
    <3> HIDE DEF m
    <3>5. <<m>> \in Seq(Candidate) /\ Len(<<m>>) = 1 /\ <<m>>[1] = m
      BY <3>4
    <3>6. QED
      BY <3>1, <3>4, <3>5
  <2>3. QED
    BY <2>1, <2>2
<1>4. /\ Replacement(c) \in Nat
      /\ Replacement(c) # 0 => {At(p).usr : p \in Opposites(c)} \ {0} = {Replacement(c)}
  <2>1. CASE At(c).role = "none"
    BY <2>1 DEF Replacement
  <2>2. CASE At(c).role # "none"
    <3> DEFINE role == Opposite[At(c).role]
    <3>1. At(c).role \in {"positive", "negative"}
      BY <1>1, <2>2
    <3>2. \A p \in Place : {At(p).role, At(c).role} = {"positive", "negative"} <=> At(p).role = role
      <4>1. CASE At(c).role = "positive"
        BY <4>1 DEF Opposite
      <4>2. CASE At(c).role = "negative"
        BY <4>2 DEF Opposite
      <4>3. QED
        BY <3>1, <4>1, <4>2
    <3>3. Replacement(c) = OnlyWithRole(role)
      BY <2>2 DEF Replacement
    <3> HIDE DEF role
    <3>4. Opposites(c) = {p \in 1 .. N : HasRole(p, role)}
      BY <1>1, <3>2 DEF Opposites, HasRole
    <3>5. QED
      BY <3>3, <3>4, OnlyOne DEF Identities
  <2>3. QED
    BY <2>1, <2>2
<1>5. CASE At(c).kind = "binary"
  <2>1. Candidates(c) = FirstCandidate(c, 0)
    BY <1>5 DEF Candidates
  <2>2. QED
    BY <1>3, <2>1
<1>6. CASE At(c).kind = "call" /\ Replacement(c) # 0
  <2>1. Candidates(c) = FirstCandidate(c, Replacement(c))
    BY <1>6 DEF Candidates
  <2>2. QED
    BY <1>3, <1>4, <2>1
<1>7. CASE At(c).kind = "call" /\ Replacement(c) = 0
  <2> DEFINE m == [place |-> c, token |-> At(c).range, replacement |-> 0]
  <2>1. At(c).range \in Nat
    BY <1>1 DEF PlaceRecord
  <2>2. m \in Candidate /\ Swapped(m)
    BY <1>2, <2>1
  <2>3. Candidates(c) = <<m>> \/ Candidates(c) = << >>
    BY <1>7 DEF Candidates
  <2> HIDE DEF m
  <2>4. <<m>> \in Seq(Candidate) /\ Len(<<m>>) = 1 /\ <<m>>[1] = m
    BY <2>2
  <2>5. << >> \in Seq(Candidate) /\ Len(<< >>) = 0
    OBVIOUS
  <2>6. CASE Candidates(c) = <<m>>
    BY <2>2, <2>4, <2>6
  <2>7. CASE Candidates(c) = << >>
    BY <2>5, <2>7
  <2>8. QED
    BY <2>3, <2>6, <2>7
<1>8. CASE At(c).kind \notin {"binary", "call"}
  <2>1. Candidates(c) = << >>
    BY <1>8 DEF Candidates
  <2>2. << >> \in Seq(Candidate) /\ Len(<< >>) = 0
    OBVIOUS
  <2>3. QED
    BY <2>1, <2>2
<1>9. QED
  BY <1>5, <1>6, <1>7, <1>8

\* The candidates handed over so far name places, and swap what they may.
LEMMA MutatedStart == Init => Mutated
<1> SUFFICES ASSUME Init PROVE Mutated
  OBVIOUS
<1>1. << >> \in Seq(Candidate) /\ Len(<< >>) = 0
  OBVIOUS
<1>2. QED
  BY <1>1 DEF Init, Mutated

\* Only the candidates of the place at hand are added to them.
LEMMA MutatedStep == Types /\ Path /\ Mutated /\ [Next]_vars => Mutated'
<1> SUFFICES ASSUME Types, Path, Mutated, [Next]_vars PROVE Mutated'
  OBVIOUS
<1>1. Place' = Place /\ unit' = unit /\ Unit' = Unit
  BY UnitStays, SameUnit
<1>2. SUFFICES /\ mutated' \in Seq(Candidate)
               /\ \A i \in 1 .. Len(mutated') : Swapped(mutated'[i])
  <2>1. Candidate' = Candidate
    BY <1>1 DEF Candidate
  <2>2. \A c : Opposites(c)' = Opposites(c)
    BY <1>1 DEF Opposites, At
  <2>3. \A m : Swapped(m)' <=> Swapped(m)
    BY <1>1, <2>2 DEF Swapped, At
  <2>4. QED
    BY <2>1, <2>3 DEF Mutated
<1>3. UNCHANGED mutated => /\ mutated' \in Seq(Candidate)
                           /\ \A i \in 1 .. Len(mutated') : Swapped(mutated'[i])
  BY DEF Mutated
<1>4. ASSUME NEW outcome \in Outcome, Emit(outcome)
      PROVE  /\ mutated' \in Seq(Candidate)
             /\ \A i \in 1 .. Len(mutated') : Swapped(mutated'[i])
  <2>1. place \in Place /\ unit \in DOMAIN Units
    BY <1>4 DEF Emit, InStep, Path, Types
  <2> DEFINE s == Candidates(place)
  <2>2. s \in Seq(Candidate) /\ \A i \in 1 .. Len(s) : Swapped(s[i])
    BY <2>1, CandidatesSwap
  <2>3. mutated' = mutated \/ mutated' = mutated \o s
    BY <1>4 DEF Emit, Remember
  <2> HIDE DEF s
  <2>4. mutated \in Seq(Candidate) /\ \A i \in 1 .. Len(mutated) : Swapped(mutated[i])
    BY DEF Mutated
  <2>5. /\ mutated \o s \in Seq(Candidate) /\ Len(mutated \o s) = Len(mutated) + Len(s)
        /\ \A i \in 1 .. Len(mutated) + Len(s) :
             (mutated \o s)[i] = IF i <= Len(mutated) THEN mutated[i] ELSE s[i - Len(mutated)]
    BY <2>2, <2>4, ConcatProperties
  <2>6. Len(mutated) \in Nat /\ Len(s) \in Nat
    BY <2>2, <2>4
  <2>7. ASSUME NEW i \in 1 .. Len(mutated) + Len(s) PROVE Swapped((mutated \o s)[i])
    <3>1. CASE i <= Len(mutated)
      BY <2>4, <2>5, <2>6, <3>1
    <3>2. CASE ~ (i <= Len(mutated))
      <4>1. i - Len(mutated) \in 1 .. Len(s)
        BY <2>6, <3>2
      <4>2. QED
        BY <2>2, <2>5, <3>2, <4>1
    <3>3. QED
      BY <3>1, <3>2
  <2>8. QED
    BY <1>3, <2>3, <2>5, <2>7
<1>5. CASE VisitPlace
  BY <1>3, <1>4, <1>5 DEF VisitPlace, TakeUp, PlaceFails, Foreign, Begin, Omit, Finish, StepFails,
     history
<1>6. CASE WalkTree
  BY <1>3, <1>6 DEF WalkTree, PassBy, Enter, EnterFunctionFails, EnterEnumFails, Leave, history
<1>7. CASE CollectMacros
  BY <1>3, <1>7 DEF CollectMacros, CollectForeign, GrowFails, Grow, Collect, history
<1>8. CASE ReportsDone \/ StartVisit \/ End
  BY <1>3, <1>8 DEF ReportsDone, StartVisit, End, history
<1>9. CASE UNCHANGED vars
  BY <1>3, <1>9 DEF vars, history
<1>10. QED
  BY <1>5, <1>6, <1>7, <1>8, <1>9 DEF Next

-----------------------------------------------------------------------------
(* The end of the walk.                                                    *)

\* Once the unit has its result, nothing happens to it any more.
LEMMA EndIsFinal ==
  ASSUME Types, Over, [Next]_vars, result # "none"
  PROVE  UNCHANGED vars
<1>1. /\ pc = "walk" /\ Len(frames) = 1 /\ (stopped \/ Children = {})
      /\ phase = "visit" \/ stopped
  BY DEF Over, AtRoot
<1>2. ~ VisitPlace
  BY <1>1 DEF VisitPlace, TakeUp, PlaceFails, Foreign, Begin, Omit, Finish, Emit, StepFails, InStep
<1>3. ~ WalkTree
  BY <1>1 DEF WalkTree, PassBy, Enter, EnterFunctionFails, EnterEnumFails, Leave
<1>4. ~ CollectMacros
  BY <1>1 DEF CollectMacros, CollectForeign, GrowFails, Grow, Collect, Expanding
<1>5. ~ ReportsDone /\ ~ StartVisit /\ ~ End
  BY <1>1 DEF ReportsDone, StartVisit, End
<1>6. QED
  BY <1>2, <1>3, <1>4, <1>5 DEF Next

\* Only the end gives a result.
LEMMA ResultStays ==
  ASSUME [Next]_vars, ~ End
  PROVE  UNCHANGED result
<1>1. VisitPlace => UNCHANGED result
  BY DEF VisitPlace, TakeUp, PlaceFails, Foreign, Begin, Omit, Finish, Emit, StepFails
<1>2. WalkTree => UNCHANGED result
  BY DEF WalkTree, PassBy, Enter, EnterFunctionFails, EnterEnumFails, Leave
<1>3. CollectMacros => UNCHANGED result
  BY DEF CollectMacros, CollectForeign, GrowFails, Grow, Collect
<1>4. ReportsDone \/ StartVisit => UNCHANGED result
  BY DEF ReportsDone, StartVisit
<1>5. QED
  BY <1>1, <1>2, <1>3, <1>4 DEF Next, vars

\* A unit that has its result is walked through or stopped.
LEMMA OverStart == Init => Over
BY DEF Init, Over

\* The end comes only then, and nothing comes after it.
LEMMA OverStep == Types /\ Over /\ [Next]_vars => Over'
<1> SUFFICES ASSUME Types, Over, [Next]_vars, result' # "none" PROVE Over'
  BY DEF Over
<1>1. CASE result # "none"
  BY <1>1, EndIsFinal DEF vars, position, Over, AtRoot, Children, Top
<1>2. CASE result = "none"
  <2>1. End
    BY <1>2, ResultStays
  <2>2. QED
    BY <2>1 DEF End, position, Over, AtRoot, Children, Top
<1>3. QED
  BY <1>1, <1>2

\* What a place lies in, if it comes behind the path and above its end, is on the path.
LEMMA ParentOnPath ==
  ASSUME Types, Path, NEW q \in Place, Top.place < q, At(q).parent <= Top.place
  PROVE  \E i \in 1 .. Len(frames) : frames[i].place = At(q).parent
<1> DEFINE n == Len(frames)
           pl(i) == frames[i].place
           a == At(q).parent
           T == {i \in 1 .. n : a <= pl(i)}
<1>1. n \in Nat \ {0} /\ Top.place = pl(n) /\ n \in 1 .. n
  BY TopFrame DEF Top
<1>2. Anywhere \in SUBSET Nat /\ q \in Nat /\ a \in Nat
  BY Shape DEF Types, Anywhere
<1>3. \A i \in 1 .. n : pl(i) \in Nat
  <2>1. \A i \in 1 .. n : pl(i) \in Anywhere
    BY TopFrame DEF FrameRecord
  <2>2. QED
    BY <1>2, <2>1
<1>4. \A i \in 1 .. n : pl(i) < q
  <2>1. \A i \in 1 .. n : i < n => pl(i) < pl(n)
    BY <1>1, PathRises
  <2>2. \A i \in 1 .. n : i = n \/ i < n
    BY <1>1
  <2>3. \A i \in 1 .. n : pl(i) <= pl(n)
    BY <1>1, <1>3, <2>1, <2>2
  <2> HIDE DEF pl
  <2>4. pl(n) < q
    BY <1>1
  <2>5. QED
    BY <1>1, <1>2, <1>3, <2>3, <2>4
<1>5. n \in T /\ T \in SUBSET Nat
  BY <1>1
<1>6. PICK i \in T : \A k \in T : i <= k
  BY <1>5, LeastNumber
<1>7. CASE i = 1
  <2>1. pl(1) = 0
    BY DEF Path
  <2>2. a = 0
    BY <1>2, <1>6, <1>7, <2>1
  <2>3. QED
    BY <1>6, <1>7, <2>1, <2>2
<1>8. CASE i # 1
  <2>1. i \in 2 .. n /\ i - 1 \in 1 .. n /\ ~ (i <= i - 1)
    BY <1>1, <1>6, <1>8
  <2>2. ~ (a <= pl(i - 1))
    BY <1>6, <2>1
  <2>3. pl(i) \in Place /\ At(pl(i)).parent = pl(i - 1) /\ pl(i) < q
    BY <1>4, <1>6, <2>1 DEF Path
  <2>4. a < pl(i) => a <= At(pl(i)).parent
    BY <2>3, Shape DEF Types
  <2>5. ~ (a < pl(i)) /\ a <= pl(i)
    BY <1>6, <2>2, <2>3, <2>4
  <2>6. a = pl(i)
    <3>1. pl(i) \in Nat
      BY <1>3, <1>6
    <3> HIDE DEF a, pl
    <3>2. QED
      BY <1>2, <2>5, <3>1
  <2>7. QED
    BY <1>6, <2>6
<1>9. QED
  BY <1>7, <1>8

\* The next place lies where the walk still goes.
LEMMA NextInReachStart == Init => NextInReach
<1> SUFFICES ASSUME Init, NEW q \in Place, q = place + 1 PROVE At(q).parent \in Reach
  BY DEF NextInReach
<1>1. At(q).parent = 0
  <2>1. q = 1
    BY DEF Init
  <2>2. At(q).parent \in Nat /\ At(q).parent < 1
    BY <2>1, Shape DEF Init, Anywhere
  <2>3. QED
    BY <2>2
<1>2. frames[1].place = 0 /\ 1 \in 1 .. Len(frames)
  BY DEF Init, Root
<1>3. QED
  BY <1>1, <1>2 DEF Reach

\* A visit is left only when nothing is left below it, so that the next place is not below
\* it either.
LEMMA NextInReachStep ==
  Types /\ Path /\ Order /\ NextInReach /\ [Next]_vars => NextInReach'
<1> SUFFICES ASSUME Types, Path, Order, NextInReach, [Next]_vars PROVE NextInReach'
  OBVIOUS
<1> DEFINE n == Len(frames)
           up(p) == At(p).parent
           OnPath(f, p) == \E i \in 1 .. Len(f) : f[i].place = p
<1>1. unit' = unit /\ Unit' = Unit /\ Place' = Place
  BY UnitStays, SameUnit
<1>2. SUFFICES ASSUME ~ stopped', NEW q \in Place, q = place' + 1
               PROVE  OnPath(frames', up(q)) \/ (pc' # "walk" /\ up(q) = place')
  BY <1>1 DEF NextInReach, Reach, At
<1>3. n \in Nat \ {0} /\ n \in 1 .. n /\ Top = frames[n] /\ place \in Nat /\ q \in Nat
  BY TopFrame, Shape DEF Top, Types, Anywhere
<1>4. ~ stopped /\ place' = place =>
        OnPath(frames, up(q)) \/ (pc # "walk" /\ up(q) = place)
  BY <1>2 DEF NextInReach, Reach
<1>5. ~ stopped /\ UNCHANGED <<frames, place>> /\ (pc' = "walk" => pc = "walk") =>
        OnPath(frames', up(q)) \/ (pc' # "walk" /\ up(q) = place')
  BY <1>4
<1>6. CASE TakeUp
  <2>1. /\ Len(frames') = n /\ \A i \in 1 .. n : frames'[i].place = frames[i].place
        /\ place' \in Place /\ place' \in Top.left /\ pc' # "walk"
    BY <1>6, TakenUp DEF TakeUp
  <2>2. up(place') = Top.place /\ place' > Top.place
    <3>1. up(place') = Top.place
      BY <1>3, <1>6, <2>1 DEF Order, Below, TakeUp
    <3>2. QED
      BY <2>1, <3>1, Shape DEF Types
  <2>3. place' \in Nat /\ up(q) \in Nat /\ Top.place \in Nat /\ up(q) < q
    BY <1>3, <2>1, TopFrame, Shape DEF Types, Anywhere, FrameRecord
  <2>4. CASE up(q) = place'
    BY <2>1, <2>4
  <2>5. CASE up(q) # place'
    <3>1. up(q) < place' /\ place' < q
      <4> DEFINE a == up(q)
                 p == place'
      <4>1. a \in Nat /\ p \in Nat /\ a < q /\ a # p /\ q = p + 1
        BY <1>2, <2>3, <2>5
      <4> HIDE DEF a, p
      <4>2. a < p /\ p < q
        BY <4>1
      <4>3. QED
        BY <4>2 DEF a, p
    <3>2. up(q) <= Top.place
      BY <2>1, <2>2, <3>1, Shape DEF Types
    <3>3. Top.place < q
      BY <1>3, <2>2, <2>3, <3>1
    <3>4. OnPath(frames, up(q))
      BY <3>2, <3>3, ParentOnPath
    <3>5. QED
      BY <2>1, <3>4
  <2>6. QED
    BY <2>4, <2>5
<1>7. CASE PlaceFails \/ Foreign \/ Begin \/ Finish
  BY <1>2, <1>5, <1>7 DEF PlaceFails, Foreign, Begin, Finish
<1>8. CASE Omit
  BY <1>2, <1>5, <1>8 DEF Omit
<1>9. ASSUME NEW outcome \in Outcome, Emit(outcome)
      PROVE  OnPath(frames', up(q)) \/ (pc' # "walk" /\ up(q) = place')
  BY <1>2, <1>5, <1>9 DEF Emit, EmitRecord
<1>10. ASSUME NEW stops \in BOOLEAN, StepFails(stops)
       PROVE  OnPath(frames', up(q)) \/ (pc' # "walk" /\ up(q) = place')
  BY <1>2, <1>5, <1>10 DEF StepFails
<1>11. CASE PassBy
  <2>1. place \in Place /\ place' = place /\ frames' = frames /\ At(place).kind \in Reports
        /\ ~ stopped
    BY <1>2, <1>11 DEF PassBy, Path, Here
  <2>2. up(q) # place
    BY <2>1, Shape DEF Types
  <2>3. QED
    BY <1>4, <2>1, <2>2
<1>12. CASE Enter \/ EnterFunctionFails
  <2>1. Frame \in FrameRecord /\ Frame.place = place
    BY DEF Frame, FrameRecord, Below, Types
  <2>2. frames' = Append(frames, Frame) /\ place' = place /\ ~ stopped
    BY <1>12 DEF Enter, EnterFunctionFails
  <2>3. /\ Len(frames') = n + 1 /\ frames'[n + 1].place = place
        /\ \A i \in 1 .. n : frames'[i] = frames[i]
    BY <2>1, <2>2, Pushed DEF Types
  <2>4. n + 1 \in 1 .. n + 1 /\ \A i \in 1 .. n : i \in 1 .. n + 1
    BY <1>3
  <2>5. OnPath(frames', up(q))
    BY <1>4, <2>2, <2>3, <2>4
  <2>6. QED
    BY <2>5
<1>13. CASE EnterEnumFails
  BY <1>2, <1>13 DEF EnterEnumFails
<1>14. CASE Leave
  <2>1. /\ Len(frames') = n - 1 /\ \A i \in 1 .. n - 1 : frames'[i] = frames[i]
        /\ n > 1 /\ place' = place /\ pc = "walk" /\ ~ stopped /\ Top.left = {}
    BY <1>2, <1>14, Popped DEF Leave, Types, Children
  <2>2. phase # "collect"
    BY <2>1 DEF Order
  <2>3. Top.left = {p \in Below(Top.place) : p > place /\ Awaits(n, p)}
    BY <1>3, <2>2 DEF Order
  <2>4. up(q) # Top.place
    <3>1. n # 1 /\ q > place
      BY <1>2, <1>3, <2>1
    <3>2. QED
      BY <2>1, <2>3, <3>1 DEF Below, Awaits
  <2>5. PICK i \in 1 .. n : frames[i].place = up(q)
    BY <1>4, <2>1
  <2>6. i \in 1 .. n - 1
    BY <1>3, <2>4, <2>5
  <2>7. QED
    BY <2>1, <2>5, <2>6
<1>15. CASE CollectMacros
  <2>1. UNCHANGED <<frames, place, pc>>
    BY <1>15 DEF CollectMacros, CollectForeign, GrowFails, Grow, Collect, position
  <2>2. ~ stopped
    BY <1>15 DEF CollectMacros, CollectForeign, GrowFails, Grow, Collect, Expanding
  <2>3. QED
    BY <1>5, <2>1, <2>2
<1>16. CASE ReportsDone
  BY <1>2, <1>5, <1>16 DEF ReportsDone
<1>17. CASE StartVisit
  <2>1. /\ Len(frames') = 1 /\ frames'[1].place = 0 /\ n = 1 /\ pc = "walk" /\ place' = place
        /\ ~ stopped
    BY <1>17 DEF StartVisit, Root, Order
  <2>2. frames[1].place = 0
    BY DEF Path
  <2>3. QED
    BY <1>4, <2>1, <2>2
<1>18. CASE End \/ UNCHANGED vars
  BY <1>2, <1>5, <1>18 DEF End, vars, position
<1>19. QED
  BY <1>6, <1>7, <1>8, <1>9, <1>10, <1>11, <1>12, <1>13, <1>14, <1>15, <1>16, <1>17, <1>18
     DEF Next, VisitPlace, WalkTree

\* While the visit is not stopped, the places are taken up one after another.
LEMMA NextIsTaken ==
  ASSUME Types, Path, Order, NextInReach, TakeUp
  PROVE  place' = place + 1
<1> DEFINE n == Len(frames)
           q == place + 1
<1>1. /\ place' \in Place /\ place' \in Top.left /\ \A p \in Top.left : place' <= p
      /\ pc = "walk" /\ phase # "collect" /\ ~ stopped
  BY TakenUp DEF TakeUp
<1>2. n \in Nat \ {0} /\ n \in 1 .. n /\ Top = frames[n] /\ place \in Nat /\ place' \in Nat
  BY <1>1, TopFrame, Shape DEF Top, Types, Anywhere
<1>3. \A i \in 1 .. n :
        frames[i].left = {p \in Below(frames[i].place) : p > place /\ Awaits(i, p)}
  BY <1>1 DEF Order
<1>4. /\ place' > place /\ At(place').parent = Top.place
      /\ n = 1 /\ phase = "report" => At(place').kind \in Reports
  BY <1>1, <1>2, <1>3 DEF Below, Awaits
<1>5. q \in Place /\ q > place /\ q <= place'
  BY <1>1, <1>2, <1>4, Shape DEF Types
<1> HIDE DEF q
<1>6. PICK i \in 1 .. n : frames[i].place = At(q).parent
  BY <1>1, <1>5 DEF NextInReach, Reach, q
<1>7. i = n
  <2>1. Top.place <= place
    BY <1>2 DEF Order
  <2>2. i # n => q > place'
    BY <1>1, <1>4, <1>5, <1>6, <2>1, NothingBetween
  <2>3. QED
    BY <1>2, <1>5, <2>2 DEF q
<1>8. n = 1 => (At(q).kind \in Reports <=> phase = "report")
  <2>1. CASE phase = "report"
    BY <1>1, <1>4, <1>5, <2>1, Shape DEF Types
  <2>2. CASE phase # "report"
    BY <1>1, <1>5, <2>2 DEF Order
  <2>3. QED
    BY <2>1, <2>2
<1>9. q \in Top.left
  BY <1>2, <1>3, <1>5, <1>6, <1>7, <1>8 DEF Below, Awaits
<1>10. QED
  BY <1>1, <1>2, <1>5, <1>9 DEF q

\* A unit that is true was walked through to its last place.
LEMMA EndedStart == Init => Ended
BY DEF Init, Ended

\* The end is true only when nothing is left of the tree: no next place is in reach.
LEMMA EndedStep ==
  Types /\ Path /\ Order /\ NextInReach /\ Over /\ Ended /\ [Next]_vars => Ended'
<1> SUFFICES ASSUME Types, Path, Order, NextInReach, Over, Ended, [Next]_vars, result' = "true"
             PROVE  ~ stopped' /\ ~ err' /\ place' = Len(Unit.places)
  BY UnitStays, SameUnit DEF Ended
<1>1. CASE result # "none"
  BY <1>1, EndIsFinal DEF vars, position, Ended
<1>2. CASE result = "none"
  <2>1. End
    BY <1>2, ResultStays
  <2>2. /\ ~ stopped /\ ~ err /\ UNCHANGED <<stopped, err, place>> /\ phase = "visit"
        /\ pc = "walk" /\ Len(frames) = 1 /\ Top.left = {}
    BY <2>1 DEF End, position, AtRoot, Children
  <2> DEFINE q == place + 1
  <2>3. Place = 1 .. Len(Unit.places) /\ Len(Unit.places) \in Nat /\ place \in 0 .. Len(Unit.places)
    BY Shape DEF Types, Anywhere
  <2>4. SUFFICES ASSUME place # Len(Unit.places) PROVE FALSE
    BY <2>2
  <2>5. q \in Place /\ q > place
    BY <2>3, <2>4
  <2> HIDE DEF q
  <2>6. PICK i \in 1 .. 1 : frames[i].place = At(q).parent
    BY <2>2, <2>5 DEF NextInReach, Reach, q
  <2>7. i = 1 /\ 1 \in 1 .. Len(frames) /\ Top = frames[1]
    BY <2>2, <2>6 DEF Top
  <2>8. At(q).kind \notin Reports
    BY <2>2, <2>5 DEF Order
  <2>9. Top.left = {p \in Below(Top.place) : p > place /\ Awaits(1, p)}
    BY <2>2, <2>7 DEF Order
  <2>10. q \in Top.left
    BY <2>2, <2>5, <2>6, <2>7, <2>8, <2>9 DEF Below, Awaits
  <2>11. QED
    BY <2>2, <2>10
<1>3. QED
  BY <1>1, <1>2

-----------------------------------------------------------------------------
(* What every place owes.                                                  *)

\* What a place owes, and whether a call is to blame, is a matter of the unit.
LEMMA SameDuties ==
  ASSUME unit' = unit
  PROVE  /\ \A q : Owes(q)' <=> Owes(q)
         /\ ToBlame' = ToBlame
<1>1. /\ Unit' = Unit /\ Place' = Place /\ \A p : At(p)' = At(p)
      /\ \A p : NamedEnum(p)' = NamedEnum(p)
  BY SameUnit
<1>2. \A q : Owes(q)' <=> Owes(q)
  BY <1>1 DEF Owes, At
<1>3. \A c : Holder(c)' = Holder(c)
  BY <1>1 DEF Holder, Innermost, At
<1>4. \A c : StandsAlone(c)' <=> StandsAlone(c)
  BY <1>1, <1>3 DEF StandsAlone, At
<1>5. \A c : WrittenByMacro(c)' <=> WrittenByMacro(c)
  BY <1>1 DEF WrittenByMacro, At
<1>6. \A c : c \in ToBlame' <=> c \in ToBlame
  BY <1>1, <1>4, <1>5 DEF ToBlame, At
<1>7. QED
  BY <1>2, <1>6

\* The program of the place at hand fits.
LEMMA ProgramFits ==
  ASSUME Types, place \in Place
  PROVE  /\ Len(Program) \in Nat /\ DOMAIN Program = 1 .. Len(Program)
         /\ \A i \in 1 .. Len(Program) : Fits(Program[i], Here.kind)
         /\ Here.kind \in Kind
<1>1. Here.kind \in Kind
  BY Shape DEF Types, Here, PlaceRecord
<1>2. Fitting(Program, Here.kind)
  BY <1>1, ProgramsFit DEF Program
<1>3. PICK S : Program \in Seq(S)
  BY <1>2 DEF Fitting
<1>4. Len(Program) \in Nat /\ DOMAIN Program = 1 .. Len(Program)
  BY <1>3
<1>5. QED
  BY <1>1, <1>2, <1>4 DEF Fitting

\* A call is asked whether it is isolated.
LEMMA CallAsks == \E i \in 1 .. Len(Steps["call"]) : Steps["call"][i].says = "CALL_NOT_ISOLATED"
<1> DEFINE own == << Copies, Try("error argument", "always", {FALSE}), Own("CALL"),
                     Try("call text", "asked", {FALSE}), Note("CALL_NOT_ISOLATED", "asked") >>
           first == own \o AllocationNotes
           second == first \o HandlerNotes
           third == second \o SecureCallNotes
           fourth == third \o CallResultSteps
<1>1. Fitting(own, "call") /\ Len(own) = 5 /\ own[5] = Note("CALL_NOT_ISOLATED", "asked")
  <2>1. Fitting(own, "call")
    BY OwnCallStepsFit, HeadFitsCall
  <2>2. Len(own) = 5 /\ own[5] = Note("CALL_NOT_ISOLATED", "asked")
    OBVIOUS
  <2>3. QED
    BY <2>1, <2>2
<1> HIDE DEF own
<1>2. Fitting(first, "call") /\ Len(first) \in Nat /\ Len(first) >= 5 /\ first[5] = own[5]
  BY <1>1, AllocationNotesFit, FittingTogether
<1> HIDE DEF first
<1>3. Fitting(second, "call") /\ Len(second) \in Nat /\ Len(second) >= 5 /\ second[5] = first[5]
  BY <1>2, HandlerNotesFit, FittingTogether
<1> HIDE DEF second
<1>4. Fitting(third, "call") /\ Len(third) \in Nat /\ Len(third) >= 5 /\ third[5] = second[5]
  BY <1>3, SecureCallNotesFit, FittingTogether
<1> HIDE DEF third
<1>5. Fitting(fourth, "call") /\ Len(fourth) \in Nat /\ Len(fourth) >= 5 /\ fourth[5] = third[5]
  BY <1>4, CallResultStepsFit, FittingTogether
<1> HIDE DEF fourth
<1> DEFINE program == fourth \o CallErrorSteps
<1>6. Len(program) \in Nat /\ Len(program) >= 5 /\ program[5] = fourth[5]
  BY <1>5, CallErrorStepsFit, FittingTogether
<1> HIDE DEF program
<1>7. program[5].says = "CALL_NOT_ISOLATED"
  BY <1>1, <1>2, <1>3, <1>4, <1>5, <1>6 DEF Note, Step
<1>8. Steps["call"] = program
  BY DEF Steps, Kind, CallRecordSteps, program, fourth, third, second, first, own
<1>9. 5 \in 1 .. Len(program)
  BY <1>6
<1>10. QED
  BY <1>7, <1>8, <1>9

\* The mutation of a call or an operator is the last step of its program, and there is no
\* other.
LEMMA MutationIsLast ==
  ASSUME Types, place \in Place
  PROVE  /\ \A i \in 1 .. Len(Program) : Program[i].says = "MUTATION" =>
              /\ i = Len(Program) /\ Program[i].many = "one"
              /\ Program[i].when \in {"asked", "always"}
         /\ Here.kind \in {"call", "binary"} =>
              Len(Program) >= 1 /\ Program[Len(Program)].says = "MUTATION"
<1>1. /\ Len(Program) \in Nat /\ \A i \in 1 .. Len(Program) : Fits(Program[i], Here.kind)
      /\ Here.kind \in Kind /\ Program = Steps[Here.kind]
  BY ProgramFits DEF Program
<1>2. CASE Here.kind = "binary"
  <2>1. Program = << Note("MUTATION", "asked") >>
    BY <1>1, <1>2 DEF Steps, Kind
  <2>2. Len(Program) = 1 /\ Program[1] = Note("MUTATION", "asked")
    BY <2>1
  <2>3. \A i \in 1 .. 1 : i = 1
    OBVIOUS
  <2>4. QED
    BY <2>2, <2>3 DEF Note, Step
<1>3. CASE Here.kind = "call"
  <2> DEFINE head == CallRecordSteps \o CallResultSteps
  <2>1. Fitting(head, "call head") /\ Fitting(head, "call")
    <3>1. Fitting(head, "call head")
      BY CallRecordStepsFit, CallResultStepsFit, FittingTogether
    <3>2. QED
      BY <3>1, HeadFitsCall
  <2>2. Program = head \o CallErrorSteps
    BY <1>1, <1>3 DEF Steps, Kind
  <2> HIDE DEF head
  <2>3. PICK S : head \in Seq(S)
    BY <2>1 DEF Fitting
  <2>4. PICK T : ErrorNotes \in Seq(T)
    BY CallErrorStepsFit DEF Fitting
  <2> DEFINE m == Step("MUTATION", "always", "one", BOOLEAN)
  <2>5. CallErrorSteps = ErrorNotes \o <<m>>
    BY CallErrorStepsFit DEF CallMutation
  <2>6. m.says = "MUTATION" /\ m.many = "one" /\ m.when = "always"
    BY DEF Step
  <2> HIDE DEF m
  <2> DEFINE U == S \cup T \cup {m}
             h == Len(head)
             n == Len(ErrorNotes)
  <2>7. /\ head \in Seq(U) /\ ErrorNotes \in Seq(U)
        /\ <<m>> \in Seq(U) /\ Len(<<m>>) = 1 /\ <<m>>[1] = m
    BY <2>3, <2>4
  <2>8. /\ CallErrorSteps \in Seq(U) /\ Len(CallErrorSteps) = n + 1
        /\ \A i \in 1 .. n + 1 :
             CallErrorSteps[i] = IF i <= n THEN ErrorNotes[i] ELSE <<m>>[i - n]
    BY <2>5, <2>7, ConcatProperties
  <2>9. /\ Len(Program) = h + (n + 1)
        /\ \A i \in 1 .. h + (n + 1) :
             Program[i] = IF i <= h THEN head[i] ELSE CallErrorSteps[i - h]
    <3>1. /\ Len(Program) = h + Len(CallErrorSteps)
          /\ \A i \in 1 .. h + Len(CallErrorSteps) :
               Program[i] = IF i <= h THEN head[i] ELSE CallErrorSteps[i - h]
      BY <2>2, <2>7, <2>8, ConcatProperties
    <3>2. QED
      BY <2>8, <3>1
  <2>10. h \in Nat /\ n \in Nat
    BY <2>7
  <2>11. /\ \A i \in 1 .. h : head[i].says # "MUTATION"
         /\ \A i \in 1 .. n : ErrorNotes[i].says # "MUTATION"
    <3>1. \A e : Fits(e, "call head") => e.says # "MUTATION"
      BY DEF Fits
    <3>2. Fitting(ErrorNotes, "call head")
      BY CallErrorStepsFit
    <3>3. QED
      BY <2>1, <3>1, <3>2 DEF Fitting
  <2> HIDE DEF h, n, U
  <2>12. ASSUME NEW i \in 1 .. Len(Program), i # Len(Program)
         PROVE  Program[i].says # "MUTATION"
    <3>1. CASE i <= h
      <4>1. i \in 1 .. h /\ Program[i] = head[i]
        BY <2>9, <2>10, <3>1
      <4>2. QED
        BY <2>11, <4>1
    <3>2. CASE ~ (i <= h)
      <4>1. i - h \in 1 .. n /\ i - h \in 1 .. n + 1 /\ i - h <= n
        BY <2>9, <2>10, <2>12, <3>2
      <4>2. Program[i] = ErrorNotes[i - h]
        BY <2>8, <2>9, <3>2, <4>1
      <4>3. QED
        BY <2>11, <4>1, <4>2
    <3>3. QED
      BY <3>1, <3>2
  <2>13. Len(Program) >= 1 /\ Program[Len(Program)] = m
    <3>1. /\ h + (n + 1) \in 1 .. h + (n + 1) /\ ~ (h + (n + 1) <= h)
          /\ (h + (n + 1)) - h = n + 1 /\ n + 1 \in 1 .. n + 1 /\ ~ (n + 1 <= n)
          /\ (n + 1) - n = 1 /\ h + (n + 1) >= 1
      BY <2>10
    <3>2. CallErrorSteps[n + 1] = m
      BY <2>7, <2>8, <3>1
    <3>3. QED
      BY <2>9, <3>1, <3>2
  <2>14. QED
    BY <2>6, <2>12, <2>13
<1>4. CASE Here.kind \notin {"call", "binary"}
  BY <1>1, <1>4 DEF Fits
<1>5. QED
  BY <1>2, <1>3, <1>4

\* The holder of the call at hand is found on the path.
LEMMA HolderOnPath ==
  ASSUME Types, Path
  PROVE  LET holders == {i \in 2 .. Len(frames) : At(frames[i].place).kind \notin Wrapping}
         IN  HolderAt(Top.place) = IF holders = {} THEN 0 ELSE frames[Max(holders)].place
<1> DEFINE n == Len(frames)
           pl(i) == frames[i].place
           H(i) == {k \in 2 .. i : At(pl(k)).kind \notin Wrapping}
           T == {i \in 1 .. n :
                   HolderAt(pl(i)) # IF H(i) = {} THEN 0 ELSE pl(Max(H(i)))}
<1>1. n \in Nat \ {0} /\ n \in 1 .. n /\ Top.place = pl(n)
  BY TopFrame DEF Top
<1>2. SUFFICES ASSUME T # {} PROVE FALSE
  BY <1>1
<1>3. PICK i \in T : \A k \in T : i <= k
  <2>1. T \in SUBSET Nat
    BY <1>1
  <2>2. QED
    BY <1>2, <2>1, LeastNumber
<1>4. CASE i = 1
  <2>1. pl(1) = 0 /\ H(1) = {}
    BY DEF Path
  <2>2. HolderAt(pl(1)) = 0
    BY <2>1 DEF HolderAt
  <2>3. QED
    BY <1>3, <1>4, <2>1, <2>2
<1>5. CASE i # 1
  <2>1. i \in 2 .. n /\ i - 1 \in 1 .. n /\ ~ (i <= i - 1) /\ i \in Nat
    BY <1>1, <1>3, <1>5
  <2>2. /\ pl(i) \in Place /\ pl(i) # 0 /\ At(pl(i)).parent = pl(i - 1)
    BY <2>1, Shape DEF Path, Types
  <2>3. HolderAt(pl(i - 1)) = IF H(i - 1) = {} THEN 0 ELSE pl(Max(H(i - 1)))
    BY <1>3, <2>1
  <2>4. \A k : k \in 2 .. i <=> k \in 2 .. i - 1 \/ k = i
    BY <2>1
  <2>5. H(i) \in SUBSET (0 .. i)
    OBVIOUS
  <2>6. CASE At(pl(i)).kind \notin Wrapping
    <3>1. i \in H(i)
      BY <2>1, <2>6
    <3>2. Max(H(i)) \in H(i) /\ i <= Max(H(i))
      BY <2>1, <2>5, <3>1, MaxIsGreatest
    <3>3. Max(H(i)) = i
      BY <2>1, <3>2
    <3>4. HolderAt(pl(i)) = pl(i)
      BY <2>2, <2>6 DEF HolderAt
    <3>5. QED
      BY <1>3, <3>1, <3>3, <3>4
  <2>7. CASE At(pl(i)).kind \in Wrapping
    <3>1. H(i) = H(i - 1)
      BY <2>4, <2>7
    <3>2. HolderAt(pl(i)) = Holder(pl(i))
      BY <2>2, <2>7 DEF HolderAt
    <3>3. Holder(pl(i)) = HolderAt(pl(i - 1))
      BY <2>2, ScopeOfPlace DEF Types
    <3> HIDE DEF H, pl
    <3>4. HolderAt(pl(i)) = IF H(i) = {} THEN 0 ELSE pl(Max(H(i)))
      BY <2>3, <3>1, <3>2, <3>3
    <3>5. QED
      BY <1>3, <3>4
  <2>8. QED
    BY <2>6, <2>7
<1>6. QED
  BY <1>4, <1>5

\* A call is seen to be isolated exactly if it stands alone.
LEMMA IsolatedStandsAlone ==
  ASSUME Types, Path, place \in Place, pc # "walk"
  PROVE  Isolated(place) <=> StandsAlone(place)
<1> DEFINE holders == {i \in 2 .. Len(frames) : At(frames[i].place).kind \notin Wrapping}
<1>1. HolderAt(Top.place) = IF holders = {} THEN 0 ELSE frames[Max(holders)].place
  BY HolderOnPath
<1>2. Holder(place) = HolderAt(Top.place)
  BY ScopeOfPlace DEF Types, Path
<1>3. holders # {} => frames[Max(holders)].place # 0
  <2>1. Len(frames) \in Nat /\ holders \in SUBSET (0 .. Len(frames))
    BY TopFrame
  <2>2. holders # {} => Max(holders) \in holders
    BY <2>1, MaxIsGreatest
  <2>3. \A i \in 2 .. Len(frames) : frames[i].place # 0
    BY Shape DEF Path, Types
  <2>4. QED
    BY <2>2, <2>3
<1>4. Isolated(place) <=>
        /\ holders # {}
        /\ At(frames[Max(holders)].place).kind \in {"compound", "variable", "assignment"}
  BY DEF Isolated
<1> HIDE DEF holders
<1>5. QED
  BY <1>1, <1>2, <1>3, <1>4 DEF StandsAlone

\* A visit that was stopped stays so.
LEMMA StoppedStays == Types /\ [Next]_vars /\ ~ stopped' => ~ stopped
<1> SUFFICES ASSUME Types, [Next]_vars, ~ stopped' PROVE ~ stopped
  OBVIOUS
<1>1. VisitPlace => ~ stopped
  BY DEF VisitPlace, TakeUp, PlaceFails, Foreign, Begin, Omit, Finish, Emit, EmitRecord, StepFails,
     Types
<1>2. WalkTree => ~ stopped
  BY DEF WalkTree, PassBy, Enter, EnterFunctionFails, EnterEnumFails, Leave
<1>3. CollectMacros => ~ stopped
  BY DEF CollectMacros, CollectForeign, GrowFails, Grow, Collect
<1>4. ReportsDone \/ StartVisit \/ End => ~ stopped
  BY DEF ReportsDone, StartVisit, End
<1>5. QED
  BY <1>1, <1>2, <1>3, <1>4 DEF Next, vars

\* The places that owe something have been asked for it once they are behind, and the
\* one at hand once its program has said one of the words.
Covers(owed, words, h) ==
  /\ \A q \in owed : Behind(q) => q \in h
  /\ Said(words) /\ place \in owed => place \in h

\* That stays so if no place is passed over that owes something, the program of each that
\* does says one of the words, and it is given what it says.
LEMMA CoversStep ==
  ASSUME Types, Path, Order, NextInReach, [Next]_vars, ~ stopped,
         NEW owed \in SUBSET Place, NEW words, NEW h, NEW h2,
         h \subseteq h2, Covers(owed, words, h),
         ~ PlaceFails, Foreign => place \notin owed,
         Finish /\ place \in owed => Said(words),
         VisitPlace /\ InStep /\ pc' = "emit" /\ Current.says \in words /\ place \in owed
           => place \in h2
  PROVE  Covers(owed, words, h2)'
<1> DEFINE Spoken(s) == \E i \in 1 .. s - 1 : i <= Len(Program) /\ Program[i].says \in words
           Behind2(q) == q < place' \/ (q = place' /\ pc' \in {"enter", "walk"})
           Passed == \A q \in owed : Behind2(q) => q \in h2
           Told == pc' = "emit" /\ Said(words)' /\ place' \in owed => place' \in h2
<1>1. unit' = unit /\ Unit' = Unit /\ \A p : At(p)' = At(p)
  BY UnitStays, SameUnit
<1>2. SUFFICES Passed /\ Told
  BY DEF Covers, Behind, Said
<1>3. /\ \A q \in owed : (q < place \/ (q = place /\ pc \in {"enter", "walk"})) => q \in h2
      /\ pc = "emit" /\ Spoken(step) /\ place \in owed => place \in h2
  BY DEF Covers, Behind, Said
<1>4. place' = place => Program' = Program
  BY <1>1 DEF Program, Here, At
<1>5. /\ place \in Nat /\ \A q \in owed : q \in Nat
      /\ step \in Nat \ {0}
  BY Shape DEF Types, Anywhere
<1>6. UNCHANGED <<place, pc, step>> => Passed /\ Told
  BY <1>3, <1>4 DEF Said
<1>7. CASE TakeUp
  <2>1. place' = place + 1 /\ pc' = "place" /\ pc = "walk"
    BY <1>7, NextIsTaken DEF TakeUp
  <2>2. \A q \in owed : q < place + 1 => q < place \/ q = place
    BY <1>5
  <2>3. QED
    BY <1>3, <2>1, <2>2
<1>8. CASE Foreign
  BY <1>3, <1>8 DEF Foreign
<1>9. CASE Begin
  <2>1. pc = "place" /\ pc' = "emit" /\ step' = 1 /\ place' = place
    BY <1>9 DEF Begin
  <2>2. ~ Said(words)'
    BY <2>1 DEF Said
  <2>3. QED
    BY <1>3, <2>1, <2>2
<1>10. ASSUME VisitPlace, InStep, pc' = "emit", place' = place, step' \in {step, step + 1}
       PROVE  Passed /\ Told
  <2>1. pc = "emit" /\ Current = Program[step]
    BY <1>10 DEF InStep, Current
  <2>2. Passed
    BY <1>3, <1>10, <2>1
  <2>3. ASSUME Said(words)', place \in owed PROVE place \in h2
    <3>1. PICK i \in 1 .. step' - 1 : i <= Len(Program) /\ Program[i].says \in words
      BY <1>4, <1>10, <2>3 DEF Said
    <3>2. i = step \/ i \in 1 .. step - 1
      <4>1. step' = step \/ step' = step + 1
        BY <1>10
      <4>2. QED
        BY <1>5, <3>1, <4>1
    <3>3. CASE i = step
      BY <1>10, <2>1, <2>3, <3>1, <3>3
    <3>4. CASE i \in 1 .. step - 1
      BY <1>3, <2>1, <2>3, <3>1, <3>4
    <3>5. QED
      BY <3>2, <3>3, <3>4
  <2>4. QED
    BY <1>10, <2>2, <2>3
<1>11. CASE Omit
  BY <1>10, <1>11 DEF Omit, InStep, VisitPlace
<1>12. ASSUME NEW outcome \in Outcome, Emit(outcome) PROVE Passed /\ Told
  BY <1>10, <1>12 DEF Emit, InStep, Proceed, VisitPlace
<1>13. ASSUME NEW stops \in BOOLEAN, StepFails(stops) PROVE Passed /\ Told
  BY <1>10, <1>13 DEF StepFails, InStep, Proceed, VisitPlace
<1>14. CASE Finish
  <2>1. pc = "emit" /\ pc' = "enter" /\ place' = place
    BY <1>14 DEF Finish
  <2>2. place \in owed => place \in h2
    BY <1>3, <1>14 DEF Said
  <2>3. QED
    BY <1>3, <2>1, <2>2
<1>15. CASE PassBy \/ Enter \/ EnterFunctionFails \/ EnterEnumFails
  <2>1. pc = "enter" /\ pc' = "walk" /\ place' = place
    BY <1>15 DEF PassBy, Enter, EnterFunctionFails, EnterEnumFails
  <2>2. QED
    BY <1>3, <2>1
<1>16. CASE Leave
  BY <1>6, <1>16 DEF Leave
<1>17. CASE CollectMacros
  BY <1>6, <1>17 DEF CollectMacros, CollectForeign, GrowFails, Grow, Collect, position
<1>18. CASE ReportsDone \/ StartVisit
  BY <1>6, <1>18 DEF ReportsDone, StartVisit
<1>19. CASE End \/ UNCHANGED vars
  BY <1>6, <1>19 DEF End, vars, position
<1>20. QED
  BY <1>7, <1>8, <1>9, <1>11, <1>12, <1>13, <1>14, <1>15, <1>16, <1>17, <1>18, <1>19
     DEF Next, VisitPlace, WalkTree

\* An error raised, a record refused or not: what was heard and blamed only grows.
LEMMA HeardGrows ==
  ASSUME Types, Path, [Next]_vars
  PROVE  /\ heard' \in {heard, heard \cup {place}} /\ blamed' \in {blamed, blamed \cup {place}}
         /\ heard' # heard \/ blamed' # blamed => place \in Place /\ InStep
<1> DEFINE Kept == heard' = heard /\ blamed' = blamed
<1>1. ASSUME NEW outcome \in Outcome, Emit(outcome)
      PROVE  /\ heard' \in {heard, heard \cup {place}} /\ blamed' \in {blamed, blamed \cup {place}}
             /\ place \in Place /\ InStep
  BY <1>1 DEF Emit, InStep, Remember, Path
<1>2. VisitPlace => Kept \/ \E outcome \in Outcome : Emit(outcome)
  BY DEF VisitPlace, TakeUp, PlaceFails, Foreign, Begin, Omit, Finish, StepFails, history
<1>3. WalkTree => Kept
  BY DEF WalkTree, PassBy, Enter, EnterFunctionFails, EnterEnumFails, Leave, history
<1>4. CollectMacros => Kept
  BY DEF CollectMacros, CollectForeign, GrowFails, Grow, Collect, history
<1>5. ReportsDone \/ StartVisit \/ End => Kept
  BY DEF ReportsDone, StartVisit, End, history
<1>6. UNCHANGED vars => Kept
  BY DEF vars, history
<1>7. QED
  BY <1>1, <1>2, <1>3, <1>4, <1>5, <1>6 DEF Next

\* A place that owes a record has been heard of when its program ends.
LEMMA HeardStart == Init => Heard
<1> SUFFICES ASSUME Init PROVE Heard
  OBVIOUS
<1>1. \A q \in Place : ~ Behind(q)
  <2>1. place = 0 /\ \A q \in Place : q \in Nat /\ q > 0
    BY Shape DEF Init
  <2>2. QED
    BY <2>1 DEF Behind
<1>2. ~ Said(OwnRecords)
  BY DEF Init, Said
<1>3. QED
  BY <1>1, <1>2 DEF Init, Heard

\* Each action keeps it so: no program ends without the record of its own that is due.
LEMMA HeardStep ==
  Types /\ Path /\ Order /\ NextInReach /\ Scopes /\ Heard /\ [Next]_vars => Heard'
<1> SUFFICES ASSUME Types, Path, Order, NextInReach, Scopes, Heard, [Next]_vars PROVE Heard'
  OBVIOUS
<1>1. PICK owed : owed = {q \in Place : Owes(q)}
  OBVIOUS
<1>2. PICK h : h = heard
  OBVIOUS
<1>3. PICK h2 : h2 = heard'
  OBVIOUS
<1>4. unit' = unit /\ Place' = Place /\ \A q : Owes(q)' <=> Owes(q)
  BY UnitStays, SameUnit, SameDuties
<1>5. h2 \subseteq Place /\ h \subseteq h2
  BY <1>2, <1>3, HeardGrows DEF Heard
<1>6. SUFFICES ASSUME ~ stopped', ~ err' PROVE Covers(owed, OwnRecords, h2)'
  <2>1. \A q \in Place' : Owes(q)' => q \in owed
    BY <1>1, <1>4
  <2>2. Said(OwnRecords)' => place' \in Place'
    BY PathStep DEF Path, Said
  <2>3. Covers(owed, OwnRecords, h2)' =>
          /\ \A q \in Place' : Behind(q)' /\ Owes(q)' => q \in heard'
          /\ Said(OwnRecords)' /\ Owes(place)' => place' \in heard'
    BY <1>3, <2>1, <2>2 DEF Covers
  <2>4. QED
    BY <1>3, <1>4, <1>5, <2>3 DEF Heard
<1>7. ~ stopped /\ ~ err
  BY <1>6, StoppedStays, ErrorStays
<1>8. Covers(owed, OwnRecords, h)
  BY <1>1, <1>2, <1>7 DEF Covers, Heard
<1>9. ~ PlaceFails /\ ~ EnterFunctionFails /\ ~ EnterEnumFails
  BY <1>6 DEF PlaceFails, EnterFunctionFails, EnterEnumFails
<1>10. Foreign => place \notin owed
  BY <1>1 DEF Foreign, Owes, Here
<1>11. Finish /\ place \in owed => Said(OwnRecords)
  <2> SUFFICES ASSUME Finish, place \in owed PROVE Said(OwnRecords)
    OBVIOUS
  <2>1. place \in Place /\ Here.kind \in Declaring
    BY <1>1 DEF Owes, Here
  <2>2. PICK i \in DOMAIN Program : Program[i].says \in OwnRecords
    BY <2>1 DEF Declaring, Program
  <2>3. Len(Program) \in Nat /\ i \in 1 .. Len(Program)
    BY <2>1, <2>2, ProgramFits
  <2>4. pc = "emit" /\ step > Len(Program) /\ step \in Nat
    BY DEF Finish, Types
  <2>5. i \in 1 .. step - 1
    BY <2>3, <2>4
  <2>6. QED
    BY <2>2, <2>3, <2>4, <2>5 DEF Said
<1>12. ASSUME VisitPlace, InStep, pc' = "emit", Current.says \in OwnRecords, place \in owed
       PROVE  place \in h2
  <2>1. /\ place \in Place /\ At(place).named /\ Here = At(place)
        /\ Here.kind = "enumerator" => NamedEnum(place) # 0
    BY <1>1, <1>12 DEF Owes, Here
  <2>2. /\ Current.when = "asked" /\ Current.many = "one" /\ Current.fails = {}
        /\ Current.says = "ENUMERATOR" => Here.kind = "enumerator"
    <3>1. step \in 1 .. Len(Program)
      BY <1>12, <2>1, ProgramFits DEF InStep, Types
    <3>2. Fits(Current, Here.kind)
      BY <2>1, <3>1, ProgramFits DEF Current
    <3>3. QED
      BY <1>12, <3>2 DEF Fits, Wanted, OwnRecords
  <2>3. pc = "emit" /\ At(place).parent = Top.place
    BY <1>12 DEF InStep, Path
  <2>4. enum = NamedEnum(place)
    BY <1>7, <2>1, <2>3, ScopeOfPlace DEF Scopes, Types
  <2>5. Due = {TRUE}
    <3>1. Due = {Here.named /\ (Current.says = "ENUMERATOR" => enum # 0)}
      <4>1. Current.says \notin {"CALL_NOT_ISOLATED", "MUTATION", "FUNCTION_RETURN"}
        BY <1>12 DEF OwnRecords
      <4>2. QED
        BY <1>12, <4>1 DEF Due
    <3>2. Here.named /\ (Current.says = "ENUMERATOR" => enum # 0)
      BY <2>1, <2>2, <2>4
    <3>3. QED
      BY <3>1, <3>2
  <2>6. Reached
    BY <1>7, <2>2 DEF Reached
  <2>7. ~ Omit
    BY <2>2, <2>5, <2>6 DEF Omit
  <2>8. \A stops \in BOOLEAN : ~ StepFails(stops)
    BY <2>2 DEF StepFails
  <2>9. \E outcome \in Outcome : Emit(outcome)
    <3>1. ~ TakeUp /\ ~ Foreign /\ ~ Begin /\ ~ Finish
      BY <1>12 DEF TakeUp, Foreign, Begin, Finish, InStep, Types
    <3>2. QED
      BY <1>9, <1>12, <2>7, <2>8, <3>1 DEF VisitPlace
  <2>10. QED
    BY <1>3, <1>12, <2>9 DEF Emit, Remember
<1>13. QED
  BY <1>1, <1>5, <1>7, <1>8, <1>9, <1>10, <1>11, <1>12, CoversStep

\* Every call to blame has been blamed when its program ends, and no other.
LEMMA BlamedStart == Init => Blamed
<1> SUFFICES ASSUME Init PROVE Blamed
  OBVIOUS
<1>1. \A q \in ToBlame : ~ Behind(q)
  <2>1. place = 0 /\ \A q \in Place : q \in Nat /\ q > 0
    BY Shape DEF Init
  <2>2. QED
    BY <2>1 DEF Behind, ToBlame
<1>2. ~ Said({"CALL_NOT_ISOLATED"})
  BY DEF Init, Said
<1>3. QED
  BY <1>1, <1>2 DEF Init, Blamed

\* Only at an admitted place is a program worked through.
LEMMA AdmittedStep ==
  ASSUME Types, Path, Blamed, [Next]_vars, pc' = "emit"
  PROVE  Unit.places[place'].admitted
<1>1. pc = "emit" /\ place' = place => Unit.places[place'].admitted
  BY DEF Blamed, Here, At
<1>2. CASE VisitPlace
  <2>1. CASE Begin
    BY <2>1 DEF Begin, Here, At
  <2>2. CASE TakeUp \/ PlaceFails \/ Foreign \/ Finish
    BY <2>2 DEF TakeUp, PlaceFails, Foreign, Finish
  <2>3. CASE Omit
    BY <1>1, <2>3 DEF Omit, InStep
  <2>4. CASE \E outcome \in Outcome : Emit(outcome)
    BY <1>1, <2>4 DEF Emit, InStep
  <2>5. CASE \E stops \in BOOLEAN : StepFails(stops)
    BY <1>1, <2>5 DEF StepFails, InStep
  <2>6. QED
    BY <1>2, <2>1, <2>2, <2>3, <2>4, <2>5 DEF VisitPlace
<1>3. CASE WalkTree
  BY <1>1, <1>3 DEF WalkTree, PassBy, Enter, EnterFunctionFails, EnterEnumFails, Leave
<1>4. CASE CollectMacros
  BY <1>1, <1>4 DEF CollectMacros, CollectForeign, GrowFails, Grow, Collect, position
<1>5. CASE ReportsDone \/ StartVisit \/ End \/ UNCHANGED vars
  BY <1>1, <1>5 DEF ReportsDone, StartVisit, End, vars, position
<1>6. QED
  BY <1>2, <1>3, <1>4, <1>5 DEF Next

\* The text of a call decides exactly if the call is not written by a macro, but for the
\* parenthesis it must have, and does not stand alone.
LEMMA TextDecidesToBlame ==
  ASSUME Types, Macros, Path, Order, Blamed, Unit.detailed, pc = "emit", place \in Place,
         Here.kind = "call"
  PROVE  TextDecides(place) /\ Here.parens <=> place \in ToBlame
<1>1. phase = "visit"
  <2>1. place # 0 /\ At(place).kind \notin Reports
    BY Shape DEF Types, Here, Reports
  <2>2. QED
    BY <2>1 DEF Order
<1>2. /\ At(place).range \in Nat /\ Here = At(place)
      /\ DOMAIN ranges = 1 .. Len(ranges) /\ DOMAIN Unit.expansions = 1 .. Len(Unit.expansions)
  <2>1. At(place).range \in Nat /\ Here = At(place)
    BY Shape DEF Types, PlaceRecord, Here
  <2>2. DOMAIN ranges = 1 .. Len(ranges)
    BY DEF Macros
  <2>3. DOMAIN Unit.expansions = 1 .. Len(Unit.expansions)
    BY Shape DEF Types
  <2>4. QED
    BY <2>1, <2>2, <2>3
<1>3. Covered(place) <=>
        \E i \in DOMAIN Unit.expansions :
          ~ Unit.expansions[i].system /\ Unit.expansions[i].range = At(place).range
  BY <1>1, <1>2 DEF Macros, Covered, Foreigner
<1>4. Isolated(place) <=> StandsAlone(place)
  BY IsolatedStandsAlone
<1>5. Here.admitted
  BY DEF Blamed
<1>6. TextDecides(place) <=> ~ (At(place).moved \/ Covered(place)) /\ ~ StandsAlone(place)
  BY <1>4 DEF TextDecides, Generated
<1>7. place \in ToBlame <=> ~ WrittenByMacro(place) /\ ~ StandsAlone(place)
  BY <1>2, <1>5 DEF ToBlame, Here
<1>8. WrittenByMacro(place) <=> At(place).moved \/ ~ At(place).parens \/ Covered(place)
  BY <1>3 DEF WrittenByMacro
<1>9. QED
  BY <1>2, <1>6, <1>7, <1>8

\* While no error is pending, a call is blamed exactly if it is to blame.
LEMMA BlameIsDue ==
  ASSUME Types, Macros, Path, Order, Blamed, Unit.detailed, ~ err, ~ stopped, InStep,
         place \in Place, Current.says = "CALL_NOT_ISOLATED"
  PROVE  /\ TRUE \in Due <=> place \in ToBlame
         /\ place \in ToBlame => FALSE \notin Due
         /\ Reached /\ Current.many = "one" /\ Current.fails = {}
<1>1. step \in 1 .. Len(Program) /\ pc = "emit"
  BY ProgramFits DEF InStep, Types
<1>2. Fits(Current, Here.kind) /\ Here.kind # "call head"
  BY <1>1, ProgramFits DEF Current, Kind, Reports, Wrapping
<1>3. Here.kind = "call" /\ Current.when = "asked" /\ Current.many = "one" /\ Current.fails = {}
  BY <1>2 DEF Fits, Wanted
<1>4. TextDecides(place) /\ Here.parens <=> place \in ToBlame
  BY <1>1, <1>3, TextDecidesToBlame
<1>5. Here.parens \in BOOLEAN
  BY Shape DEF Types, PlaceRecord, Here
<1>6. Due = IF TextDecides(place) THEN {Here.parens, Here.parens \/ err} ELSE {FALSE}
  BY DEF Due, OwnRecords
<1>7. TRUE \in Due <=> TextDecides(place) /\ Here.parens
  <2>1. CASE TextDecides(place) /\ Here.parens
    <3>1. Here.parens = TRUE
      BY <1>5, <2>1
    <3>2. QED
      BY <1>6, <2>1, <3>1
  <2>2. CASE TextDecides(place) /\ ~ Here.parens
    <3>1. Here.parens = FALSE /\ (Here.parens \/ err) = FALSE
      BY <1>5, <2>2
    <3>2. Due = {FALSE}
      BY <1>6, <2>2, <3>1
    <3>3. QED
      BY <2>2, <3>2
  <2>3. CASE ~ TextDecides(place)
    BY <1>6, <2>3
  <2>4. QED
    BY <2>1, <2>2, <2>3
<1>8. FALSE \in Due => ~ (TextDecides(place) /\ Here.parens)
  <2>1. ASSUME TextDecides(place) /\ Here.parens PROVE FALSE \notin Due
    <3>1. Here.parens = TRUE /\ (Here.parens \/ err) = TRUE
      BY <1>5, <2>1
    <3>2. Due = {TRUE}
      BY <1>6, <2>1, <3>1
    <3>3. QED
      BY <3>2
  <2>2. QED
    BY <2>1
<1>9. Reached
  BY <1>3 DEF Reached
<1>10. QED
  BY <1>3, <1>4, <1>7, <1>8, <1>9

\* Each action keeps it so: no program of a call ends without the question.
LEMMA BlamedStep ==
  Types /\ Macros /\ Path /\ Order /\ NextInReach /\ Blamed /\ [Next]_vars => Blamed'
<1> SUFFICES ASSUME Types, Macros, Path, Order, NextInReach, Blamed, [Next]_vars PROVE Blamed'
  OBVIOUS
<1> DEFINE words == {"CALL_NOT_ISOLATED"}
<1>1. PICK owed : owed = ToBlame
  OBVIOUS
<1>2. PICK h : h = blamed
  OBVIOUS
<1>3. PICK h2 : h2 = blamed'
  OBVIOUS
<1>4. unit' = unit /\ Place' = Place /\ Unit' = Unit /\ ToBlame' = owed
  BY <1>1, UnitStays, SameUnit, SameDuties
<1>5. h2 \subseteq Place /\ h \subseteq h2
  BY <1>2, <1>3, HeardGrows DEF Blamed
<1>6. SUFFICES ASSUME Unit.detailed, ~ err'
               PROVE  h2 \subseteq owed /\ (~ stopped' => Covers(owed, words, h2)')
  <2>1. pc' = "emit" => Here'.admitted
    <3>1. pc' = "emit" => Unit.places[place'].admitted
      BY AdmittedStep
    <3>2. Here' = Unit'.places[place']
      BY DEF Here, At
    <3>3. QED
      BY <1>4, <3>1, <3>2
  <2>2. Covers(owed, words, h2)' =>
          /\ \A q \in ToBlame' : Behind(q)' => q \in blamed'
          /\ Said(words)' /\ place' \in ToBlame' => place' \in blamed'
    BY <1>3, <1>4 DEF Covers
  <2>3. QED
    BY <1>3, <1>4, <1>5, <2>1, <2>2 DEF Blamed
<1>7. ~ err
  BY <1>6, ErrorStays
<1>8. owed \in SUBSET Place
  BY <1>1 DEF ToBlame
<1>9. h \subseteq owed /\ (~ stopped => Covers(owed, words, h))
  BY <1>1, <1>2, <1>6, <1>7 DEF Covers, Blamed
<1>10. h2 \subseteq owed
  <2>1. SUFFICES ASSUME NEW outcome \in Outcome, Emit(outcome), blamed' # blamed
                 PROVE  place \in owed
    <3>1. (\E outcome \in Outcome : Emit(outcome)) \/ blamed' = blamed
      <4>1. VisitPlace => blamed' = blamed \/ \E outcome \in Outcome : Emit(outcome)
        BY DEF VisitPlace, TakeUp, PlaceFails, Foreign, Begin, Omit, Finish, StepFails, history
      <4>2. WalkTree \/ CollectMacros => blamed' = blamed
        BY DEF WalkTree, PassBy, Enter, EnterFunctionFails, EnterEnumFails, Leave, CollectMacros,
           CollectForeign, GrowFails, Grow, Collect, history
      <4>3. ReportsDone \/ StartVisit \/ End \/ UNCHANGED vars => blamed' = blamed
        BY DEF ReportsDone, StartVisit, End, vars, history
      <4>4. QED
        BY <4>1, <4>2, <4>3 DEF Next
    <3>2. blamed' \in {blamed, blamed \cup {place}}
      BY HeardGrows
    <3>3. QED
      BY <1>2, <1>3, <1>9, <3>1, <3>2
  <2>2. InStep /\ place \in Place /\ Reached /\ TRUE \in Due
    BY <2>1, HeardGrows DEF Emit
  <2>3. Current.says = "CALL_NOT_ISOLATED"
    BY <2>1 DEF Emit, Remember
  <2>4. CASE ~ stopped
    <3>1. TRUE \in Due <=> place \in ToBlame
      BY <1>6, <1>7, <2>2, <2>3, <2>4, BlameIsDue
    <3>2. QED
      BY <1>1, <2>2, <3>1
  <2>5. CASE stopped
    <3>1. step \in 1 .. Len(Program)
      BY <2>2, ProgramFits DEF InStep, Types
    <3>2. Fits(Current, Here.kind)
      BY <2>2, <3>1, ProgramFits DEF Current
    <3>3. Current.when = "asked"
      BY <2>3, <3>2 DEF Fits, Wanted
    <3>4. QED
      BY <2>2, <2>5, <3>3 DEF Reached
  <2>6. QED
    BY <2>4, <2>5
<1>11. ASSUME ~ stopped' PROVE Covers(owed, words, h2)'
  <2>1. ~ stopped
    BY <1>11, StoppedStays
  <2>2. Covers(owed, words, h)
    BY <1>9, <2>1
  <2>3. ~ PlaceFails
    BY <1>6 DEF PlaceFails
  <2>4. Foreign => place \notin owed
    BY <1>1 DEF Foreign, ToBlame, Here
  <2>5. Finish /\ place \in owed => Said(words)
    <3> SUFFICES ASSUME Finish, place \in owed PROVE Said(words)
      OBVIOUS
    <3>1. place \in Place /\ Program = Steps["call"]
      BY <1>1 DEF ToBlame, Program, Here
    <3>2. PICK i \in 1 .. Len(Program) : Program[i].says = "CALL_NOT_ISOLATED"
      BY <3>1, CallAsks
    <3>3. Len(Program) \in Nat
      BY <3>1, ProgramFits
    <3>4. pc = "emit" /\ step > Len(Program) /\ step \in Nat
      BY DEF Finish, Types
    <3>5. i \in 1 .. step - 1
      BY <3>2, <3>3, <3>4
    <3>6. QED
      BY <3>2, <3>3, <3>4, <3>5 DEF Said
  <2>6. ASSUME VisitPlace, InStep, pc' = "emit", Current.says \in words, place \in owed
        PROVE  place \in h2
    <3>1. place \in Place
      BY <1>8, <2>6
    <3>2. /\ place \in ToBlame => FALSE \notin Due
          /\ Reached /\ Current.many = "one" /\ Current.fails = {}
      BY <1>6, <1>7, <2>1, <2>6, <3>1, BlameIsDue
    <3>3. FALSE \notin Due
      BY <1>1, <2>6, <3>2
    <3>4. ~ Omit
      BY <3>2, <3>3 DEF Omit
    <3>5. \A stops \in BOOLEAN : ~ StepFails(stops)
      BY <3>2 DEF StepFails
    <3>6. ~ TakeUp /\ ~ Foreign /\ ~ Begin /\ ~ Finish
      BY <2>6 DEF TakeUp, Foreign, Begin, Finish, InStep, Types
    <3>7. \E outcome \in Outcome : Emit(outcome)
      BY <2>3, <2>6, <3>4, <3>5, <3>6 DEF VisitPlace
    <3>8. QED
      BY <1>3, <2>6, <3>7 DEF Emit, Remember
  <2> HIDE DEF words
  <2>7. QED
    BY <1>5, <1>8, <2>1, <2>2, <2>3, <2>4, <2>5, <2>6, CoversStep
<1>12. QED
  BY <1>10, <1>11

\* One element put behind a sequence.
LEMMA OneMore ==
  ASSUME NEW S, NEW s \in Seq(S), NEW t \in Seq(S), Len(t) = 1
  PROVE  /\ Len(s) \in Nat /\ Len(s \o t) = Len(s) + 1
         /\ \A i \in 1 .. Len(s) : (s \o t)[i] = s[i]
         /\ (s \o t)[Len(s) + 1] = t[1]
<1>1. /\ Len(s \o t) = Len(s) + Len(t)
      /\ \A i \in 1 .. Len(s) + Len(t) :
           (s \o t)[i] = IF i <= Len(s) THEN s[i] ELSE t[i - Len(s)]
  BY ConcatProperties
<1>2. Len(s) \in Nat
  OBVIOUS
<1>3. /\ \A i \in 1 .. Len(s) : i \in 1 .. Len(s) + 1 /\ i <= Len(s)
      /\ Len(s) + 1 \in 1 .. Len(s) + 1 /\ ~ (Len(s) + 1 <= Len(s))
      /\ (Len(s) + 1) - Len(s) = 1
  BY <1>2
<1>4. QED
  BY <1>1, <1>2, <1>3

\* Which candidates a place has, and which places offer one, is a matter of the unit.
LEMMA SameOffering ==
  ASSUME unit' = unit
  PROVE  /\ \A q : Candidates(q)' = Candidates(q)
         /\ Offering' = Offering
<1>1. /\ Unit' = Unit /\ Place' = Place /\ \A p : At(p)' = At(p)
  BY SameUnit
<1>2. \A p, role : HasRole(p, role)' <=> HasRole(p, role)
  BY <1>1 DEF HasRole, At
<1>3. ASSUME NEW role PROVE Known(role)' = Known(role)
  BY <1>1 DEF Known, HasRole, At, Unit
<1>4. ASSUME NEW q PROVE Candidates(q)' = Candidates(q)
  <2>1. \A role : OnlyWithRole(role)' = OnlyWithRole(role)
    BY <1>1, <1>3 DEF OnlyWithRole
  <2>2. Replacement(q)' = Replacement(q)
    BY <1>1, <2>1 DEF Replacement, At
  <2>3. QED
    BY <1>1, <2>2 DEF Candidates, FirstCandidate, At
<1>5. QED
  BY <1>1, <1>4 DEF Offering, At

\* A place offers at most one candidate, of its own, and names it by one of its marks.
LEMMA OneCandidate ==
  ASSUME unit \in DOMAIN Units, NEW c \in Place, Candidates(c) # << >>
  PROVE  /\ Candidates(c) \in Seq(Candidate) /\ Len(Candidates(c)) = 1
         /\ Candidates(c)[1].place = c /\ Candidates(c)[1].token \in Marks(Unit.places, c)
         /\ At(c).kind \in {"call", "binary"}
<1> DEFINE first(r) == [place |-> c, token |-> Head(At(c).tokens), replacement |-> r]
           whole == [place |-> c, token |-> At(c).range, replacement |-> 0]
<1>1. Candidates(c) \in Seq(Candidate)
  BY CandidatesSwap
<1>2. At(c).kind \in {"call", "binary"}
  BY DEF Candidates
<1>3. ASSUME NEW r, Candidates(c) = FirstCandidate(c, r)
      PROVE  Candidates(c) = <<first(r)>> /\ first(r).token \in Marks(Unit.places, c)
  <2>1. At(c).tokens # << >> /\ Candidates(c) = <<first(r)>>
    BY <1>3 DEF FirstCandidate
  <2>2. Head(At(c).tokens) \in Marks(Unit.places, c)
    BY <1>2, <2>1 DEF Marks, At
  <2>3. QED
    BY <2>1, <2>2
<1>4. ASSUME At(c).kind = "call", Replacement(c) = 0
      PROVE  Candidates(c) = <<whole>> /\ whole.token \in Marks(Unit.places, c)
  <2>1. /\ At(c).parent # 0 /\ At(At(c).parent).kind = "compound"
        /\ Candidates(c) = <<whole>>
    BY <1>4 DEF Candidates
  <2>2. At(c).range \in Marks(Unit.places, c)
    BY <1>4, <2>1 DEF Marks, At
  <2>3. QED
    BY <2>1, <2>2
<1>5. \/ \E r : Candidates(c) = FirstCandidate(c, r)
      \/ At(c).kind = "call" /\ Replacement(c) = 0
  BY <1>2 DEF Candidates
<1>6. \/ \E r : Candidates(c) = <<first(r)>> /\ first(r).token \in Marks(Unit.places, c)
      \/ Candidates(c) = <<whole>> /\ whole.token \in Marks(Unit.places, c)
  BY <1>3, <1>4, <1>5
<1>7. PICK m : /\ Candidates(c) = <<m>>
               /\ m.place = c /\ m.token \in Marks(Unit.places, c)
  BY <1>6
<1>8. Len(<<m>>) = 1 /\ <<m>>[1] = m
  OBVIOUS
<1>9. QED
  BY <1>1, <1>2, <1>7, <1>8

\* A mutation is handed over in the last step of a place that offers one: its candidate is
\* added to the others.
LEMMA ChosenGrows ==
  ASSUME Types, Path, Blamed, [Next]_vars, mutated' # mutated
  PROVE  /\ place \in Offering /\ InStep /\ step = Len(Program)
         /\ place' = place /\ pc' = "emit" /\ step' = step + 1
         /\ mutated' = mutated \o Candidates(place)
<1>1. \E outcome \in Outcome : Emit(outcome)
  <2>1. VisitPlace => mutated' = mutated \/ \E outcome \in Outcome : Emit(outcome)
    BY DEF VisitPlace, TakeUp, PlaceFails, Foreign, Begin, Omit, Finish, StepFails, history
  <2>2. WalkTree \/ CollectMacros => mutated' = mutated
    BY DEF WalkTree, PassBy, Enter, EnterFunctionFails, EnterEnumFails, Leave, CollectMacros,
       CollectForeign, GrowFails, Grow, Collect, history
  <2>3. ReportsDone \/ StartVisit \/ End \/ UNCHANGED vars => mutated' = mutated
    BY DEF ReportsDone, StartVisit, End, vars, history
  <2>4. QED
    BY <2>1, <2>2, <2>3 DEF Next
<1>2. PICK outcome \in Outcome : Emit(outcome)
  BY <1>1
<1>3. /\ InStep /\ pc = "emit" /\ pc' = pc /\ place' = place /\ TRUE \in Due /\ Proceed(stopped')
      /\ Current.says = "MUTATION" /\ mutated' = mutated \o Candidates(place)
  BY <1>2 DEF Emit, InStep, Remember
<1>4. place \in Place /\ Here.admitted /\ step \in 1 .. Len(Program) /\ Current = Program[step]
  BY <1>3, ProgramFits DEF Path, Blamed, InStep, Types, Current
<1>5. step = Len(Program) /\ Current.many = "one"
  BY <1>3, <1>4, MutationIsLast
<1>6. step' = step + 1
  BY <1>3, <1>5 DEF Proceed
<1>7. Candidates(place) # << >>
  <2>1. Due = {Candidates(place) # << >>}
    BY <1>3 DEF Due, OwnRecords
  <2>2. QED
    BY <1>3, <2>1
<1>8. place \in Offering
  BY <1>4, <1>7 DEF Offering, Here
<1>9. QED
  BY <1>3, <1>5, <1>6, <1>8

\* A place that is behind, or has only the end of its program left, stays so.
Spent(q) == q <= place /\ (q = place => pc # "place" /\ (pc = "emit" => step > Len(Program)))
LEMMA SpentStays ==
  ASSUME Types, Path, Order, NextInReach, [Next]_vars, NEW q \in Nat, Spent(q)
  PROVE  Spent(q)'
<1>1. Unit' = Unit /\ (place' = place => Program' = Program)
  <2>1. unit' = unit /\ Unit' = Unit /\ \A p : At(p)' = At(p)
    BY UnitStays, SameUnit
  <2>2. QED
    BY <2>1 DEF Program, Here, At
<1>2. place \in Nat
  BY Shape DEF Types, Anywhere
<1>3. UNCHANGED <<place, pc, step>> => Spent(q)'
  BY <1>1 DEF Spent
<1>4. place' = place /\ pc' \in {"enter", "walk"} => Spent(q)'
  BY DEF Spent
<1>5. CASE TakeUp
  <2>1. place' = place + 1
    BY <1>5, NextIsTaken
  <2>2. QED
    BY <1>2, <2>1 DEF Spent
<1>6. CASE PlaceFails \/ Foreign \/ Begin
  <2>1. pc = "place" /\ place' = place
    BY <1>6 DEF PlaceFails, Foreign, Begin
  <2>2. QED
    BY <2>1 DEF Spent
<1>7. CASE InStep /\ place' = place /\ pc' = pc
  <2>1. pc = "emit" /\ ~ (step > Len(Program))
    <3>1. place \in Place
      BY <1>7 DEF InStep, Path
    <3>2. QED
      BY <1>7, <3>1, ProgramFits DEF InStep, Types
  <2>2. QED
    BY <1>7, <2>1 DEF Spent
<1>8. CASE VisitPlace
  <2>1. CASE Omit
    BY <1>7, <2>1 DEF Omit
  <2>2. CASE \E outcome \in Outcome : Emit(outcome)
    BY <1>7, <2>2 DEF Emit
  <2>3. CASE \E stops \in BOOLEAN : StepFails(stops)
    BY <1>7, <2>3 DEF StepFails
  <2>4. CASE Finish
    BY <1>4, <2>4 DEF Finish
  <2>5. QED
    BY <1>5, <1>6, <1>8, <2>1, <2>2, <2>3, <2>4 DEF VisitPlace
<1>9. CASE PassBy \/ Enter \/ EnterFunctionFails \/ EnterEnumFails
  BY <1>4, <1>9 DEF PassBy, Enter, EnterFunctionFails, EnterEnumFails
<1>10. CASE Leave
  BY <1>3, <1>10 DEF Leave
<1>11. CASE CollectMacros
  BY <1>3, <1>11 DEF CollectMacros, CollectForeign, GrowFails, Grow, Collect, position
<1>12. CASE ReportsDone \/ StartVisit \/ End \/ UNCHANGED vars
  BY <1>3, <1>12 DEF ReportsDone, StartVisit, End, vars, position
<1>13. QED
  BY <1>8, <1>9, <1>10, <1>11, <1>12 DEF Next, WalkTree

\* No place has been chosen at the start.
LEMMA ChosenStart == Init => Chosen
<1> SUFFICES ASSUME Init PROVE Chosen
  OBVIOUS
<1>1. \A i : i \notin 1 .. Len(mutated)
  <2>1. Len(<< >>) = 0 /\ \A i : i \notin 1 .. 0
    OBVIOUS
  <2>2. QED
    BY <2>1 DEF Init
<1>2. \A q \in Offering : ~ Behind(q)
  <2>1. place = 0 /\ pc = "walk" /\ \A q \in Place : q \in Nat /\ q > 0
    BY Shape DEF Init
  <2>2. QED
    BY <2>1 DEF Behind, Offering
<1>3. ~ Said({"MUTATION"})
  BY DEF Init, Said
<1>4. QED
  BY <1>1, <1>2, <1>3 DEF Chosen

\* Each action keeps it so: a place offers its candidate once, at the end of its program.
LEMMA ChosenStep ==
  Types /\ Path /\ Order /\ NextInReach /\ Blamed /\ Mutated /\ Chosen /\ [Next]_vars => Chosen'
<1> SUFFICES ASSUME Types, Path, Order, NextInReach, Blamed, Mutated, Chosen, [Next]_vars
             PROVE  Chosen'
  OBVIOUS
<1> DEFINE words == {"MUTATION"}
<1>1. PICK list : list = mutated
  OBVIOUS
<1>2. PICK list2 : list2 = mutated'
  OBVIOUS
<1>3. PICK owed : owed = Offering
  OBVIOUS
<1> DEFINE n == Len(list)
<1>4. /\ unit' = unit /\ Unit' = Unit /\ Offering' = owed
      /\ \A q : Candidates(q)' = Candidates(q)
  BY <1>3, UnitStays, SameUnit, SameOffering
<1>5. owed \in SUBSET Place /\ \A q \in Place : q \in Nat
  BY <1>3, Shape DEF Offering, Types
<1>6. /\ list \in Seq(Candidate) /\ n \in Nat
      /\ \A i \in 1 .. n : list[i].place \in owed /\ list[i] = Candidates(list[i].place)[1]
      /\ \A i, j \in 1 .. n : list[i].place = list[j].place => i = j
      /\ \A i \in 1 .. n : Spent(list[i].place)
  BY <1>1, <1>3 DEF Chosen, Mutated, Spent
<1>7. SUFFICES /\ \A i \in 1 .. Len(list2) :
                    list2[i].place \in owed /\ list2[i] = Candidates(list2[i].place)[1]
               /\ \A i, j \in 1 .. Len(list2) : list2[i].place = list2[j].place => i = j
               /\ \A i \in 1 .. Len(list2) : Spent(list2[i].place)'
               /\ ~ stopped' /\ ~ err' => Covers(owed, words, Named(list2))'
  BY <1>2, <1>4 DEF Chosen, Spent, Covers, Named
<1>8. \A i \in 1 .. n : Spent(list[i].place)'
  BY <1>5, <1>6, SpentStays
<1>9. ASSUME list2 # list
      PROVE  /\ Len(list2) = n + 1 /\ \A i \in 1 .. n : list2[i] = list[i]
             /\ list2[n + 1].place = place /\ list2[n + 1] = Candidates(place)[1]
             /\ place \in owed /\ \A i \in 1 .. n : list[i].place # place
             /\ place' = place /\ Spent(place)'
  <2>1. /\ place \in Offering /\ InStep /\ step = Len(Program) /\ place' = place
        /\ pc' = "emit" /\ step' = step + 1 /\ list2 = list \o Candidates(place)
    BY <1>1, <1>2, <1>9, ChosenGrows
  <2>2. /\ Candidates(place) \in Seq(Candidate) /\ Len(Candidates(place)) = 1
        /\ Candidates(place)[1].place = place
    BY <2>1, OneCandidate DEF Offering, Types
  <2>3. /\ Len(list2) = n + 1 /\ \A i \in 1 .. n : list2[i] = list[i]
        /\ list2[n + 1] = Candidates(place)[1]
    <3>1. PICK c : c = Candidates(place)
      OBVIOUS
    <3>2. c \in Seq(Candidate) /\ Len(c) = 1 /\ list \in Seq(Candidate)
      BY <1>6, <2>2, <3>1
    <3>3. list2 = list \o c
      BY <2>1, <3>1
    <3>4. /\ Len(list \o c) = Len(list) + 1 /\ \A i \in 1 .. Len(list) : (list \o c)[i] = list[i]
          /\ (list \o c)[Len(list) + 1] = c[1]
      BY <3>2, OneMore
    <3>5. QED
      BY <3>1, <3>3, <3>4
  <2> HIDE DEF n
  <2>4. Len(Program) \in Nat /\ pc = "emit"
    BY <1>3, <1>5, <2>1, ProgramFits DEF InStep
  <2>5. \A i \in 1 .. n : list[i].place # place
    <3>1. ~ (step > Len(Program))
      BY <2>1, <2>4
    <3>2. QED
      BY <1>6, <2>4, <3>1 DEF Spent
  <2>6. Spent(place)'
    <3>1. Program' = Program
      BY <1>4, <2>1 DEF Program, Here, At
    <3>2. place \in Nat
      BY <1>3, <1>5, <2>1
    <3>3. QED
      BY <2>1, <2>4, <3>1, <3>2 DEF Spent
  <2>7. QED
    BY <1>3, <2>1, <2>2, <2>3, <2>5, <2>6
<1> HIDE DEF n
<1>10. ASSUME NEW i \in 1 .. Len(list2)
       PROVE  /\ list2[i].place \in owed /\ list2[i] = Candidates(list2[i].place)[1]
              /\ Spent(list2[i].place)'
  <2>1. CASE list2 = list
    BY <1>6, <1>8, <2>1 DEF n
  <2>2. CASE list2 # list
    <3>1. i \in 1 .. n \/ i = n + 1
      BY <1>6, <1>9, <2>2
    <3>2. CASE i \in 1 .. n
      BY <1>6, <1>8, <1>9, <2>2, <3>2
    <3>3. CASE i = n + 1
      <4>1. /\ list2[i].place = place /\ list2[i] = Candidates(place)[1] /\ place \in owed
            /\ place' = place /\ Spent(place)'
        BY <1>9, <2>2, <3>3
      <4>2. Spent(list2[i].place)'
        BY <4>1 DEF Spent
      <4>3. QED
        BY <4>1, <4>2
    <3>4. QED
      BY <3>1, <3>2, <3>3
  <2>3. QED
    BY <2>1, <2>2
<1>11. ASSUME NEW i \in 1 .. Len(list2), NEW j \in 1 .. Len(list2),
              list2[i].place = list2[j].place
       PROVE  i = j
  <2>1. CASE list2 = list
    BY <1>6, <1>11, <2>1 DEF n
  <2>2. CASE list2 # list
    <3>1. (i \in 1 .. n \/ i = n + 1) /\ (j \in 1 .. n \/ j = n + 1)
      BY <1>6, <1>9, <2>2
    <3>2. QED
      BY <1>6, <1>9, <1>11, <2>2, <3>1
  <2>3. QED
    BY <2>1, <2>2
<1>12. ASSUME ~ stopped', ~ err' PROVE Covers(owed, words, Named(list2))'
  <2>1. ~ stopped /\ ~ err
    BY <1>12, StoppedStays, ErrorStays
  <2>2. PICK h : h = Named(list)
    OBVIOUS
  <2>3. PICK h2 : h2 = Named(list2)
    OBVIOUS
  <2>4. h \subseteq h2
    <3>1. \A i \in 1 .. n : i \in 1 .. Len(list2) /\ list2[i] = list[i]
      BY <1>6, <1>9 DEF n
    <3>2. QED
      BY <2>2, <2>3, <3>1 DEF Named, n
  <2>5. Covers(owed, words, h)
    BY <1>1, <1>3, <2>1, <2>2 DEF Covers, Chosen
  <2>6. ~ PlaceFails
    BY <1>12 DEF PlaceFails
  <2>7. Foreign => place \notin owed
    BY <1>3 DEF Foreign, Offering, Here
  <2>8. ASSUME place \in owed
        PROVE  /\ place \in Place /\ Candidates(place) # << >>
               /\ Len(Program) \in Nat /\ Len(Program) >= 1
               /\ Program[Len(Program)].says = "MUTATION"
    <3>1. place \in Place /\ Candidates(place) # << >>
      BY <1>3, <2>8 DEF Offering
    <3>2. Here.kind \in {"call", "binary"}
      BY <3>1, OneCandidate DEF Types, Here
    <3>3. QED
      BY <3>1, <3>2, MutationIsLast, ProgramFits
  <2>9. Finish /\ place \in owed => Said(words)
    <3> SUFFICES ASSUME Finish, place \in owed PROVE Said(words)
      OBVIOUS
    <3>1. pc = "emit" /\ step > Len(Program) /\ step \in Nat
      BY DEF Finish, Types
    <3>2. Len(Program) \in 1 .. step - 1 /\ Len(Program) <= Len(Program)
      BY <2>8, <3>1
    <3>3. QED
      BY <2>8, <3>1, <3>2 DEF Said
  <2>10. ASSUME VisitPlace, InStep, pc' = "emit", Current.says \in words, place \in owed
         PROVE  place \in h2
    <3>1. step \in 1 .. Len(Program) /\ Current = Program[step] /\ Current.says = "MUTATION"
      BY <2>8, <2>10 DEF InStep, Types, Current
    <3>2. Current.many = "one" /\ Current.when \in {"asked", "always"}
      BY <2>8, <2>10, <3>1, MutationIsLast
    <3>3. Reached /\ Due = {TRUE}
      <4>1. Reached
        BY <2>1, <3>2 DEF Reached
      <4>2. Due = {Candidates(place) # << >>}
        BY <3>1 DEF Due, OwnRecords
      <4>3. QED
        BY <2>8, <2>10, <4>1, <4>2
    <3>4. ~ Omit
      BY <3>2, <3>3 DEF Omit
    <3>5. \A stops \in BOOLEAN : ~ StepFails(stops)
      BY <1>12 DEF StepFails
    <3>6. ~ TakeUp /\ ~ Foreign /\ ~ Begin /\ ~ Finish
      BY <2>10 DEF TakeUp, Foreign, Begin, Finish, InStep, Types
    <3>7. \E outcome \in Outcome : Emit(outcome)
      BY <2>6, <2>10, <3>4, <3>5, <3>6 DEF VisitPlace
    <3>8. list2 = list \o Candidates(place)
      BY <1>1, <1>2, <3>1, <3>7 DEF Emit, Remember
    <3>9. list2 # list
      <4>1. Candidates(place) \in Seq(Candidate) /\ Len(Candidates(place)) = 1
        BY <2>8, <2>10, OneCandidate DEF Types
      <4>2. Len(list2) = Len(list) + 1 /\ Len(list) \in Nat
        BY <1>6, <3>8, <4>1, OneMore
      <4>3. QED
        BY <4>2
    <3>10. Len(list2) = n + 1 /\ list2[n + 1].place = place /\ n + 1 \in 1 .. n + 1
      BY <1>6, <1>9, <3>9
    <3>11. QED
      BY <2>3, <3>10 DEF Named
  <2> HIDE DEF words
  <2>11. Covers(owed, words, h2)'
    BY <1>5, <2>1, <2>4, <2>5, <2>6, <2>7, <2>9, <2>10, CoversStep
  <2>12. QED
    BY <2>3, <2>11 DEF Covers
<1>13. QED
  BY <1>10, <1>11, <1>12

\* The invariant holds of every state of every unit.
LEMMA Invariant == Spec => []IInv
<1>1. Init => IInv
  BY TypesStart, MacrosStart, PathStart, OrderStart, NextInReachStart, OverStart, ScopesStart,
     HeardStart, BlamedStart, MutatedStart, ChosenStart, EndedStart DEF IInv
<1>2. IInv /\ [Next]_vars => IInv'
  BY TypesStep, MacrosStep, PathStep, OrderStep, NextInReachStep, OverStep, ScopesStep,
     HeardStep, BlamedStep, MutatedStep, ChosenStep, EndedStep DEF IInv
<1>3. QED
  BY <1>1, <1>2, PTL DEF Spec

-----------------------------------------------------------------------------
(* What the runs check, for every unit and every capacity.                 *)

\* The variables keep their types; no range is written behind the array of macro
\* expansions.
THEOREM TypeCorrect == Spec => []TypeOK
<1>1. IInv => TypeOK
  <2> SUFFICES ASSUME IInv PROVE TypeOK
    OBVIOUS
  <2>1. /\ unit \in DOMAIN Units
        /\ phase \in {"report", "collect", "visit"}
        /\ pc \in {"walk", "place", "emit", "enter"}
        /\ place \in {0} \cup Place
        /\ result \in {"none", "true", "false"}
    BY DEF IInv, Types, Anywhere
  <2>2. {function, enum} \subseteq {0} \cup Place
    BY DEF IInv, Types, Anywhere
  <2>3. inside \in BOOLEAN /\ stopped \in BOOLEAN /\ err \in BOOLEAN
    BY DEF IInv, Types
  <2>4. {stopped, err, inside} \subseteq BOOLEAN
    BY <2>3
  <2>5. capacity \in 0 .. MaxCapacity /\ ranges \in Seq(Nat) /\ Len(ranges) <= capacity
    BY DEF IInv, Macros
  <2>6. heard \subseteq Place /\ blamed \subseteq Place
    BY DEF IInv, Heard, Blamed
  <2>7. mutated \in Seq([place : Place, token : Nat, replacement : Nat])
    BY DEF IInv, Mutated, Candidate
  <2>8. QED
    BY <2>1, <2>2, <2>4, <2>5, <2>6, <2>7 DEF TypeOK
<1>2. QED
  BY Invariant, <1>1, PTL

\* However the tree nests and wherever the unit fails, a record names the function and
\* the enumeration that its cursor lies in.
THEOREM RecordsAreScoped == Spec => []RecordsNameTheirScope
<1>1. IInv => RecordsNameTheirScope
  BY DEF IInv, Scopes, RecordsNameTheirScope
<1>2. QED
  BY Invariant, <1>1, PTL

\* A predicate is swapped for another only if the unit declares one identity with the
\* opposite role, and then for that.
THEOREM SwapsAreUnambiguous == Spec => []PredicatesAreSwapped
<1>1. IInv => PredicatesAreSwapped
  <2> SUFFICES ASSUME IInv, NEW i \in DOMAIN mutated PROVE Swapped(mutated[i])
    BY DEF PredicatesAreSwapped, Swapped, Opposites
  <2>1. DOMAIN mutated = 1 .. Len(mutated)
    BY DEF IInv, Mutated
  <2>2. QED
    BY <2>1 DEF IInv, Mutated
<1>2. QED
  BY Invariant, <1>1, PTL

\* When the unit is true, every place is behind.
LEMMA AllIsBehind ==
  ASSUME IInv, result = "true"
  PROVE  ~ stopped /\ ~ err /\ \A q \in Place : Behind(q)
<1>1. ~ stopped /\ ~ err /\ place = Len(Unit.places) /\ pc = "walk"
  BY DEF IInv, Ended, Over, AtRoot
<1>2. Place = 1 .. Len(Unit.places) /\ Len(Unit.places) \in Nat
  BY Shape DEF IInv, Types
<1>3. QED
  BY <1>1, <1>2 DEF Behind

\* In every unit with detailed preprocessing the calls blamed are calls to blame, and all
\* of them when the unit is true.
THEOREM CallsAreJudgedRight == Spec => []CallsAreJudged
<1>1. IInv => CallsAreJudged
  <2> SUFFICES ASSUME IInv, Unit.detailed, ~ err
               PROVE  blamed \subseteq ToBlame /\ (result = "true" => blamed = ToBlame)
    BY DEF CallsAreJudged
  <2>1. blamed \subseteq ToBlame
    BY DEF IInv, Blamed
  <2>2. ASSUME result = "true" PROVE ToBlame \subseteq blamed
    <3>1. ~ stopped /\ \A q \in Place : Behind(q)
      BY <2>2, AllIsBehind
    <3>2. \A q \in ToBlame : Behind(q) => q \in blamed
      BY <3>1 DEF IInv, Blamed
    <3>3. ToBlame \subseteq Place
      BY DEF ToBlame
    <3>4. QED
      BY <3>1, <3>2, <3>3
  <2>3. QED
    BY <2>1, <2>2
<1>2. QED
  BY Invariant, <1>1, PTL

\* When the unit is true, the places named are those that offer a candidate.
LEMMA AllIsOffered ==
  ASSUME IInv, result = "true"
  PROVE  Named(mutated) = Offering
<1>1. ~ stopped /\ ~ err /\ \A q \in Place : Behind(q)
  BY AllIsBehind
<1>2. \A q \in Offering : q \in Named(mutated)
  BY <1>1 DEF IInv, Chosen, Offering
<1>3. \A q \in Named(mutated) : q \in Offering
  BY DEF IInv, Chosen, Named
<1>4. QED
  BY <1>2, <1>3

\* No place is named by two mutations, and a unit that is true has named every place that
\* offers a candidate: whatever libclang makes of the tokens.
THEOREM EveryOfferIsTaken ==
  Spec => [](/\ \A i, j \in DOMAIN mutated : mutated[i].place = mutated[j].place => i = j
             /\ result = "true" => Named(mutated) = Offering)
<1>1. ASSUME IInv
      PROVE  /\ \A i, j \in DOMAIN mutated : mutated[i].place = mutated[j].place => i = j
             /\ result = "true" => Named(mutated) = Offering
  <2>1. DOMAIN mutated = 1 .. Len(mutated)
    BY <1>1 DEF IInv, Mutated
  <2>2. \A i, j \in DOMAIN mutated : mutated[i].place = mutated[j].place => i = j
    BY <1>1, <2>1 DEF IInv, Chosen
  <2>3. result = "true" => Named(mutated) = Offering
    BY <1>1, AllIsOffered
  <2>4. QED
    BY <2>2, <2>3
<1>2. QED
  BY Invariant, <1>1, PTL

\* In every unit whose places differ in their marks no token is the candidate of two places,
\* and every operator and callee with candidates has one when the unit is true.
THEOREM MutationsDiffer == Spec => [](MarksDiffer(Unit.places) => CandidatesAreDistinct)
<1>1. ASSUME IInv, MarksDiffer(Unit.places) PROVE CandidatesAreDistinct
  <2> DEFINE tokens == [i \in DOMAIN mutated |-> mutated[i].token]
  <2>1. DOMAIN mutated = 1 .. Len(mutated) /\ unit \in DOMAIN Units
    BY <1>1 DEF IInv, Mutated, Types
  <2>2. /\ \A i \in DOMAIN mutated :
             mutated[i].place \in Offering /\ mutated[i] = Candidates(mutated[i].place)[1]
        /\ \A i, j \in DOMAIN mutated : mutated[i].place = mutated[j].place => i = j
    BY <1>1, <2>1 DEF IInv, Chosen
  <2>3. ASSUME NEW i \in DOMAIN mutated
        PROVE  /\ mutated[i].place \in Place
               /\ mutated[i].token \in Marks(Unit.places, mutated[i].place)
    <3>1. PICK p : p = mutated[i].place
      OBVIOUS
    <3>2. p \in Place /\ Candidates(p) # << >> /\ mutated[i] = Candidates(p)[1]
      BY <2>2, <3>1 DEF Offering
    <3>3. Candidates(p)[1].token \in Marks(Unit.places, p)
      BY <2>1, <3>2, OneCandidate
    <3>4. QED
      BY <3>1, <3>2, <3>3
  <2>4. ASSUME NEW i \in DOMAIN mutated, NEW j \in DOMAIN mutated,
               mutated[i].token = mutated[j].token
        PROVE  i = j
    <3>1. mutated[i].place = mutated[j].place
      BY <1>1, <2>3, <2>4 DEF MarksDiffer, Place
    <3>2. QED
      BY <2>2, <3>1
  <2>5. IsInjective(tokens)
    BY <2>4 DEF IsInjective
  <2>6. result = "true" => Named(mutated) = Offering
    BY <1>1, AllIsOffered
  <2>7. Named(mutated) = {mutated[i].place : i \in DOMAIN mutated}
    BY <2>1 DEF Named
  <2>8. QED
    BY <2>5, <2>6, <2>7 DEF CandidatesAreDistinct, Offering
<1>2. QED
  BY Invariant, <1>1, PTL

-----------------------------------------------------------------------------
(* The refinement of UnitContract.                                         *)

\* Besides a place taken up, a record and the end, nothing is seen from outside.
LEMMA OthersAreQuiet ==
  ASSUME [Next]_vars, ~ TakeUp, ~ End, \A outcome \in Outcome : ~ Emit(outcome)
  PROVE  UNCHANGED <<heard, place, result>>
<1>1. VisitPlace => UNCHANGED <<heard, place, result>>
  BY DEF VisitPlace, PlaceFails, Foreign, Begin, Omit, Finish, StepFails, history
<1>2. WalkTree => UNCHANGED <<heard, place, result>>
  BY DEF WalkTree, PassBy, Enter, EnterFunctionFails, EnterEnumFails, Leave, history
<1>3. CollectMacros => UNCHANGED <<heard, place, result>>
  BY DEF CollectMacros, CollectForeign, GrowFails, Grow, Collect, history, position
<1>4. ReportsDone \/ StartVisit => UNCHANGED <<heard, place, result>>
  BY DEF ReportsDone, StartVisit, history
<1>5. UNCHANGED vars => UNCHANGED <<heard, place, result>>
  BY DEF vars, history, position
<1>6. QED
  BY <1>1, <1>2, <1>3, <1>4, <1>5 DEF Next

\* A unit starts where its contract does.
LEMMA ContractInit == Init => Contract!Init
BY DEF Init, Contract!Init

\* A unit that ends with true has been heard of in full.
LEMMA AllIsHeard ==
  ASSUME IInv, [Next]_vars, End, ~ stopped, ~ err
  PROVE  {p \in Place : Owes(p)} \subseteq heard
<1>1. IInv'
  BY TypesStep, MacrosStep, PathStep, OrderStep, NextInReachStep, OverStep, ScopesStep,
     HeardStep, BlamedStep, MutatedStep, ChosenStep, EndedStep DEF IInv
<1>2. result' = "true" /\ place' = place /\ pc = "walk"
  BY DEF End, position, AtRoot
<1>3. place = Len(Unit.places)
  BY <1>1, <1>2, UnitStays, SameUnit DEF IInv, Ended
<1>4. Place = 1 .. Len(Unit.places) /\ Len(Unit.places) \in Nat
  BY Shape DEF IInv, Types
<1>5. \A q \in Place : Behind(q)
  BY <1>2, <1>3, <1>4 DEF Behind
<1>6. QED
  BY <1>5 DEF IInv, Heard

\* What else stops a unit, or is quiet about it, is an error.
LEMMA OnlyErrorsAreQuiet ==
  ASSUME Types, [Next]_vars, ~ TakeUp, ~ End, \A outcome \in Outcome : ~ Emit(outcome)
  PROVE  UNCHANGED <<stopped, err>> \/ (err' = TRUE /\ stopped' \in {stopped, TRUE})
<1> DEFINE Quiet == UNCHANGED <<stopped, err>> \/ (err' = TRUE /\ stopped' \in {stopped, TRUE})
<1>1. stopped \in BOOLEAN /\ err \in BOOLEAN
  BY DEF Types
<1>2. CASE Omit
  BY <1>1, <1>2 DEF Omit
<1>3. ASSUME NEW stops \in BOOLEAN, StepFails(stops) PROVE Quiet
  BY <1>1, <1>3 DEF StepFails
<1>4. CASE PlaceFails \/ Foreign \/ Begin \/ Finish
  BY <1>4 DEF PlaceFails, Foreign, Begin, Finish
<1>5. CASE WalkTree
  BY <1>5 DEF WalkTree, PassBy, Enter, EnterFunctionFails, EnterEnumFails, Leave
<1>6. CASE CollectMacros
  BY <1>6 DEF CollectMacros, CollectForeign, GrowFails, Grow, Collect
<1>7. CASE ReportsDone \/ StartVisit
  BY <1>7 DEF ReportsDone, StartVisit
<1>8. CASE UNCHANGED vars
  BY <1>8 DEF vars
<1>9. QED
  BY <1>2, <1>3, <1>4, <1>5, <1>6, <1>7, <1>8 DEF Next, VisitPlace

\* Every step of a unit is one of the contract's, or none.
LEMMA ContractStep == IInv /\ [Next]_vars => [Contract!Next]_(Contract!vars)
<1> SUFFICES ASSUME IInv, [Next]_vars PROVE [Contract!Next]_(Contract!vars)
  OBVIOUS
<1> DEFINE owed == {p \in Place : Owes(p)}
<1>1. owed' = owed
  BY UnitStays, SameUnit, SameDuties
<1>2. /\ Types /\ Path /\ Order /\ NextInReach /\ Over
      /\ (stopped => stopped') /\ (err => err')
  BY StoppedStays, ErrorStays DEF IInv
<1>3. CASE result # "none"
  <2>1. UNCHANGED <<heard, place, stopped, err, result>>
    BY <1>2, <1>3, EndIsFinal DEF vars, history, position
  <2>2. QED
    BY <1>1, <2>1 DEF Contract!vars
<1>4. CASE result = "none" /\ TakeUp
  <2>1. ~ stopped /\ UNCHANGED <<stopped, err, result, heard>>
    BY <1>4 DEF TakeUp, history
  <2>2. place' > place
    <3>1. place \in Nat /\ place' = place + 1
      BY <1>2, <1>4, NextIsTaken, Shape DEF Types, Anywhere
    <3>2. QED
      BY <3>1
  <2>3. Contract!TakeUp
    BY <1>1, <1>4, <2>1, <2>2 DEF Contract!TakeUp
  <2>4. QED
    BY <2>3 DEF Contract!Next
<1>5. ASSUME result = "none", NEW outcome \in Outcome, Emit(outcome)
      PROVE  [Contract!Next]_(Contract!vars)
  <2>1. UNCHANGED <<place, result>> /\ heard' \in {heard, heard \cup {place}}
    BY <1>2, <1>5, HeardGrows DEF Emit
  <2>2. err' = (err \/ outcome = "raise") /\ stopped' = (stopped \/ outcome = "refuse" \/ err')
    BY <1>5 DEF Emit, EmitRecord
  <2>3. Contract!Report(outcome)
    BY <1>1, <1>5, <2>1, <2>2 DEF Contract!Report
  <2>4. QED
    BY <2>3 DEF Contract!Next, Contract!Outcome, Outcome
<1>6. CASE result = "none" /\ End
  <2>1. /\ UNCHANGED <<stopped, err, heard, place>>
        /\ result' = IF stopped \/ err THEN "false" ELSE "true"
    BY <1>6 DEF End, history, position
  <2>2. CASE stopped \/ err
    <3>1. Contract!GiveUp
      BY <1>1, <1>6, <2>1, <2>2 DEF Contract!GiveUp
    <3>2. QED
      BY <3>1 DEF Contract!Next
  <2>3. CASE ~ stopped /\ ~ err
    <3>1. Contract!Succeed
      BY <1>1, <1>6, <2>1, <2>3, AllIsHeard DEF Contract!Succeed
    <3>2. QED
      BY <3>1 DEF Contract!Next
  <2>4. QED
    BY <2>2, <2>3
<1>7. CASE /\ result = "none" /\ ~ TakeUp /\ ~ End
           /\ \A outcome \in Outcome : ~ Emit(outcome)
  <2>1. UNCHANGED <<heard, place, result>>
    BY <1>7, OthersAreQuiet
  <2>2. UNCHANGED <<stopped, err>> \/ (err' = TRUE /\ stopped' \in {stopped, TRUE})
    BY <1>2, <1>7, OnlyErrorsAreQuiet
  <2>3. CASE UNCHANGED <<stopped, err>>
    BY <1>1, <2>1, <2>3 DEF Contract!vars
  <2>4. CASE err' = TRUE /\ stopped' \in {stopped, TRUE}
    <3>1. Contract!Fail
      BY <1>1, <1>7, <2>1, <2>4 DEF Contract!Fail
    <3>2. QED
      BY <3>1 DEF Contract!Next
  <2>5. QED
    BY <2>2, <2>3, <2>4
<1>8. QED
  BY <1>3, <1>4, <1>5, <1>6, <1>7

\* A unit keeps its contract: an error or a refusal ends it within one place, and true
\* means that every place that owes a record has handed it over.
THEOREM UnitKeepsContract == Spec => KeepsContract
BY ContractInit, ContractStep, Invariant, PTL DEF Spec, KeepsContract, Contract!Spec

=============================================================================
