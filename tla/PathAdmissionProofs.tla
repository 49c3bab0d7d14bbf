------------------------- MODULE PathAdmissionProofs -------------------------
(***************************************************************************)
(* What holds of the admission cache for every set of paths, every hash    *)
(* function, every initial capacity of at least two and any number of      *)
(* calls.                                                                  *)
(***************************************************************************)
EXTENDS PathAdmission, FiniteSetTheorems, TLAPS

\* A home slot is a slot of the table.
LEMMA HomeInTable ==
  ASSUME NEW p \in Path, NEW cap \in Nat, cap > 0
  PROVE  Home(p, cap) \in 0 .. cap - 1
<1>1. Hash[p] \in Nat
  BY HashAssumption
<1>2. QED
  BY <1>1 DEF Home

\* Stepping to the next slot stays in the table.
LEMMA AfterInTable ==
  ASSUME NEW cap \in Nat, NEW s \in Nat, s < cap
  PROVE  After(s, cap) \in Nat /\ After(s, cap) < cap
BY DEF After

\* The null array is a table of capacity zero.
LEMMA NoTableType == ASSUME NEW cap, cap = 0 PROVE NoTable \in [0 .. cap - 1 -> Entry]
<1>1. 0 .. cap - 1 = {}
  OBVIOUS
<1>2. QED
  BY <1>1 DEF NoTable

\* The cache starts empty, without a table, outside any call.
LEMMA TypesInit == Init => TypeOK /\ InBounds /\ InCall
<1> SUFFICES ASSUME Init PROVE TypeOK /\ InBounds /\ InCall
  OBVIOUS
<1>1. table \in [0 .. capacity - 1 -> Entry] /\ newTable \in [0 .. newCapacity - 1 -> Entry]
  BY NoTableType DEF Init
<1>2. QED
  BY <1>1 DEF Init, TypeOK, InBounds, InCall

\* Every action keeps the types, and every slot it goes to lies in its table.
LEMMA TypesStep ==
  TypeOK /\ InBounds /\ InCall /\ [Next]_vars => TypeOK' /\ InBounds' /\ InCall'
<1> SUFFICES ASSUME TypeOK, InBounds, InCall, [Next]_vars
             PROVE  TypeOK' /\ InBounds' /\ InCall'
  OBVIOUS
<1> USE DEF TypeOK, InBounds, InCall, cacheVars, callVars, rehashVars
<1>1. CASE CallWithNothing
  BY <1>1 DEF CallWithNothing, Return
<1>2. ASSUME NEW p \in Path, Call(p)
      PROVE  TypeOK' /\ InBounds' /\ InCall'
  <2>1. CASE capacity > 0
    <3>1. Home(p, capacity) \in Nat /\ Home(p, capacity) < capacity
      BY <2>1, HomeInTable
    <3>2. QED
      BY <1>2, <2>1, <3>1 DEF Call
  <2>2. CASE ~ (capacity > 0)
    <3>1. pc' = "resolve" /\ slot' = 0
      BY <1>2, <2>2 DEF Call
    <3>2. QED
      BY <1>2, <3>1 DEF Call
  <2>3. QED
    BY <2>1, <2>2
<1>3. CASE Lookup
  <2>1. pc = "lookup" => table[slot] \in Entry
    OBVIOUS
  <2>2. CASE LookupHit
    BY <2>1, <2>2 DEF LookupHit, Return, Entry
  <2>3. CASE LookupNext
    BY <2>3, AfterInTable DEF LookupNext
  <2>4. CASE LookupMiss
    BY <2>4 DEF LookupMiss
  <2>5. QED
    BY <1>3, <2>2, <2>3, <2>4 DEF Lookup
<1>4. CASE ResolveFails
  BY <1>4 DEF ResolveFails, Return
<1>5. CASE Resolve
  <2>1. Verdict(request, cwd) \in BOOLEAN
    BY DEF Verdict
  <2>2. QED
    BY <1>5, <2>1 DEF Resolve
<1>6. CASE Reserve
  <2>1. CASE ReserveEnough
    BY <2>1 DEF ReserveEnough, HasRoom
  <2>2. CASE ReserveFails
    BY <2>2 DEF ReserveFails, Return
  <2>3. CASE ReserveGrow
    <3>1. Grown(capacity) \in Nat /\ Grown(capacity) > 0
      BY CapacityAssumption DEF Grown
    <3>2. newTable' \in [0 .. newCapacity' - 1 -> Entry]
      BY <2>3 DEF ReserveGrow, EmptyTable, Free, Entry
    <3>3. QED
      BY <2>3, <3>1, <3>2 DEF ReserveGrow
  <2>4. QED
    BY <1>6, <2>1, <2>2, <2>3 DEF Reserve
<1>7. CASE Rehash
  <2>1. CASE RehashSkip
    BY <2>1 DEF RehashSkip
  <2>2. CASE RehashEntry
    <3>1. table[index].path \in Path
      BY <2>2 DEF RehashEntry, Entry
    <3>2. slot' \in Nat /\ slot' < newCapacity
      BY <2>2, <3>1, HomeInTable DEF RehashEntry
    <3>3. QED
      BY <2>2, <3>2 DEF RehashEntry
  <2>3. CASE PlaceNext
    BY <2>3, AfterInTable DEF PlaceNext
  <2>4. CASE Place
    <3>1. table[index] \in Entry
      BY <2>4 DEF Place
    <3>2. newTable' \in [0 .. newCapacity - 1 -> Entry]
      BY <2>4, <3>1 DEF Place
    <3>3. QED
      BY <2>4, <3>2 DEF Place
  <2>5. CASE RehashDone
    <3>1. newTable' \in [0 .. newCapacity' - 1 -> Entry]
      BY <2>5, NoTableType DEF RehashDone
    <3>2. QED
      BY <2>5, <3>1 DEF RehashDone
  <2>6. QED
    BY <1>7, <2>1, <2>2, <2>3, <2>4, <2>5 DEF Rehash
<1>8. CASE Insertion
  <2>1. CASE CopyFails
    BY <2>1 DEF CopyFails, Return
  <2>2. CASE Copy
    <3>1. slot' \in Nat /\ slot' < capacity
      BY <2>2, HomeInTable DEF Copy
    <3>2. QED
      BY <2>2, <3>1 DEF Copy
  <2>3. CASE InsertNext
    BY <2>3, AfterInTable DEF InsertNext
  <2>4. CASE Insert
    <3>1. [path |-> request, admitted |-> admitted] \in Entry
      BY DEF Entry
    <3>2. table' \in [0 .. capacity - 1 -> Entry]
      BY <2>4, <3>1 DEF Insert
    <3>3. QED
      BY <2>4, <3>2 DEF Insert, Return
  <2>5. QED
    BY <1>8, <2>1, <2>2, <2>3, <2>4 DEF Insertion
<1>9. ASSUME NEW d \in Dir, ChangeDirectory(d)
      PROVE  TypeOK' /\ InBounds' /\ InCall'
  BY <1>9 DEF ChangeDirectory
<1>10. CASE Destroy
  <2>1. table' \in [0 .. capacity' - 1 -> Entry]
    BY <1>10, NoTableType DEF Destroy
  <2>2. QED
    BY <1>10, <2>1 DEF Destroy
<1>11. CASE UNCHANGED vars
  BY <1>11 DEF vars
<1>12. QED
  BY <1>1, <1>2, <1>3, <1>4, <1>5, <1>6, <1>7, <1>8, <1>9, <1>10, <1>11
  DEF Next, Work

-----------------------------------------------------------------------------
(* Linear probing, apart from any state.                                   *)

\* Two slots of a table: a probe from any home meets one before the other.
LEMMA ProbeOrder ==
  ASSUME NEW cap \in Nat, NEW home \in 0 .. cap - 1,
         NEW a \in 0 .. cap - 1, NEW b \in 0 .. cap - 1, a # b
  PROVE  a \in Passed(home, b, cap) \/ b \in Passed(home, a, cap)
BY DEF Passed

\* A probe that moves on has passed one slot more.
LEMMA PassedAfter ==
  ASSUME NEW cap \in Nat, NEW home \in 0 .. cap - 1, NEW s \in 0 .. cap - 1,
         NEW k \in Passed(home, After(s, cap), cap)
  PROVE  k = s \/ k \in Passed(home, s, cap)
BY DEF Passed, After

\* A probe that has just begun has passed nothing.
LEMMA PassedNone ==
  ASSUME NEW cap \in Nat, NEW home \in 0 .. cap - 1
  PROVE  Passed(home, home, cap) = {}
BY DEF Passed

\* A probe that meets a free slot before the path has shown it is not stored.
LEMMA LookupComplete ==
  ASSUME NEW cap \in Nat, cap > 0, NEW t \in [0 .. cap - 1 -> Entry],
         ProbesReach(t, cap), NEW p \in Path,
         NEW s \in 0 .. cap - 1, t[s].path = NoPath,
         \A k \in Passed(Home(p, cap), s, cap) : t[k].path \notin {p, NoPath}
  PROVE  p \notin Stored(t)
<1> SUFFICES ASSUME NEW u \in Occupied(t), t[u].path = p
             PROVE  FALSE
  BY DEF Stored
<1>1. u \in 0 .. cap - 1 /\ u # s
  BY DEF Occupied
<1>2. Home(p, cap) \in 0 .. cap - 1
  BY HomeInTable
<1>3. CASE u \in Passed(Home(p, cap), s, cap)
  BY <1>3
<1>4. CASE s \in Passed(Home(p, cap), u, cap)
  BY <1>4 DEF ProbesReach
<1>5. QED
  BY <1>1, <1>2, <1>3, <1>4, ProbeOrder

\* The table u is t with e put into the slot s.
Filled(u, t, s, e) ==
  DOMAIN u = DOMAIN t /\ u[s] = e /\ \A k \in DOMAIN t : k # s => u[k] = t[k]

\* Filling the free slot a probe ended at keeps the table sound and adds
\* exactly the new entry.
LEMMA PlaceSound ==
  ASSUME NEW cap \in Nat, cap > 0, NEW t \in [0 .. cap - 1 -> Entry],
         ProbesReach(t, cap), NoDuplicates(t),
         NEW e \in Entry, e.path \in Path, e.path \notin Stored(t),
         NEW s \in 0 .. cap - 1, t[s].path = NoPath,
         \A k \in Passed(Home(e.path, cap), s, cap) : t[k].path # NoPath,
         NEW u, Filled(u, t, s, e)
  PROVE  /\ ProbesReach(u, cap)
         /\ NoDuplicates(u)
         /\ \A x : x \in Verdicts(u) <=> x \in Verdicts(t) \/ x = <<e.path, e.admitted>>
         /\ Stored(u) = Stored(t) \cup {e.path}
<1>1. Occupied(u) = Occupied(t) \cup {s} /\ s \notin Occupied(t)
  BY PathAssumption DEF Occupied, Filled
<1>2. u[s] = e /\ \A k \in Occupied(t) : u[k] = t[k]
  BY <1>1 DEF Occupied, Filled
<1>3. \A k \in 0 .. cap - 1 : t[k].path # NoPath => u[k].path # NoPath
  BY PathAssumption DEF Filled
<1>4. ProbesReach(u, cap)
  <2> SUFFICES ASSUME NEW v \in Occupied(u), NEW k \in Passed(Home(u[v].path, cap), v, cap)
               PROVE  u[k].path # NoPath
    BY DEF ProbesReach
  <2>1. k \in 0 .. cap - 1
    BY DEF Passed
  <2>2. CASE v = s
    BY <1>2, <1>3, <2>1, <2>2
  <2>3. CASE v \in Occupied(t)
    BY <1>2, <1>3, <2>1, <2>3 DEF ProbesReach
  <2>4. QED
    BY <1>1, <2>2, <2>3
<1>5. NoDuplicates(u)
  BY <1>1, <1>2 DEF NoDuplicates, Stored
<1>6. \A x : x \in Stored(u) <=> x \in Stored(t) \/ x = e.path
  BY <1>1, <1>2 DEF Stored
<1>7. \A x : x \in Verdicts(u) <=> x \in Verdicts(t) \/ x = <<e.path, e.admitted>>
  BY <1>1, <1>2 DEF Verdicts
<1>8. QED
  BY <1>4, <1>5, <1>6, <1>7

\* The verdicts recorded determine the paths stored.
LEMMA StoredByVerdicts ==
  ASSUME NEW t, NEW u, Verdicts(t) = Verdicts(u)
  PROVE  Stored(t) = Stored(u)
<1>1. \A p \in Stored(t) : \E v : <<p, v>> \in Verdicts(t)
  BY DEF Stored, Verdicts
<1>2. \A p \in Stored(u) : \E v : <<p, v>> \in Verdicts(u)
  BY DEF Stored, Verdicts
<1>3. \A p, v : <<p, v>> \in Verdicts(t) => p \in Stored(t)
  BY DEF Stored, Verdicts
<1>4. \A p, v : <<p, v>> \in Verdicts(u) => p \in Stored(u)
  BY DEF Stored, Verdicts
<1>5. QED
  BY <1>1, <1>2, <1>3, <1>4

-----------------------------------------------------------------------------
(* The inductive invariant.                                                *)

\* The null array has no entries.
LEMMA NoTableSound ==
  ASSUME NEW cap PROVE ProbesReach(NoTable, cap) /\ NoDuplicates(NoTable)
<1>1. Occupied(NoTable) = {}
  BY DEF Occupied, NoTable
<1>2. QED
  BY <1>1 DEF ProbesReach, NoDuplicates

\* A new table has no entries either.
LEMMA EmptyTableSound ==
  ASSUME NEW cap
  PROVE  /\ Verdicts(EmptyTable(cap)) = {}
         /\ ProbesReach(EmptyTable(cap), cap)
         /\ NoDuplicates(EmptyTable(cap))
<1>1. Occupied(EmptyTable(cap)) = {}
  BY DEF Occupied, EmptyTable, Free
<1>2. QED
  BY <1>1 DEF ProbesReach, NoDuplicates, Verdicts

\* The null table is sound, and no call is in progress.
LEMMA IInvInit == Init => IInv
<1> SUFFICES ASSUME Init PROVE IInv
  OBVIOUS
<1>1. TypeOK /\ InBounds /\ InCall
  BY TypesInit
<1>2. TableSound
  BY NoTableSound DEF Init, TableSound
<1>3. QED
  BY <1>1, <1>2 DEF Init, IInv, AtEntry, ResolvesOnlyNewPaths, ProbesSoFar, RehashSoFar

\* No action breaks the invariant: a lookup and a probe add the slot they leave
\* to the ones they passed, rehashing and insertion fill the free slot they met.
LEMMA IInvStep == IInv /\ [Next]_vars => IInv'
<1> SUFFICES ASSUME IInv, [Next]_vars PROVE IInv'
  OBVIOUS
<1> DEFINE Rest == /\ AtEntry /\ TableSound /\ ResolvesOnlyNewPaths
                   /\ ProbesSoFar /\ RehashSoFar
<1>t. TypeOK' /\ InBounds' /\ InCall'
  BY TypesStep DEF IInv
<1> SUFFICES Rest'
  BY <1>t DEF IInv
<1>i. TypeOK /\ InBounds /\ InCall /\ Rest
  BY DEF IInv
<1> USE DEF cacheVars, callVars, rehashVars
<1>1. CASE CallWithNothing
  BY <1>1, <1>i DEF CallWithNothing, Return, AtEntry, TableSound,
                    ResolvesOnlyNewPaths, ProbesSoFar, RehashSoFar
<1>2. ASSUME NEW p \in Path, Call(p)
      PROVE  Rest'
  <2>1. TableSound' /\ AtEntry' /\ RehashSoFar'
    BY <1>2, <1>i DEF Call, TableSound, AtEntry, RehashSoFar
  <2>2. ProbesSoFar'
    <3>1. CASE capacity > 0
      <4>1. Home(p, capacity) \in 0 .. capacity - 1
        BY <1>i, <3>1, HomeInTable DEF TypeOK
      <4>2. Passed(Home(p, capacity), Home(p, capacity), capacity) = {}
        BY <1>i, <4>1, PassedNone DEF TypeOK
      <4>3. pc' = "lookup" /\ slot' = Home(p, capacity) /\ request' = p /\ capacity' = capacity
        BY <1>2, <3>1 DEF Call
      <4>4. QED
        BY <4>2, <4>3 DEF ProbesSoFar
    <3>2. CASE ~ (capacity > 0)
      <4>1. pc' = "resolve"
        BY <1>2, <3>2 DEF Call
      <4>2. QED
        BY <4>1 DEF ProbesSoFar
    <3>3. QED
      BY <3>1, <3>2
  <2>3. ResolvesOnlyNewPaths'
    <3>1. CASE capacity > 0
      <4>1. pc' = "lookup"
        BY <1>2, <3>1 DEF Call
      <4>2. QED
        BY <4>1 DEF ResolvesOnlyNewPaths
    <3>2. CASE ~ (capacity > 0)
      <4>1. DOMAIN table = {} /\ table' = table
        BY <1>2, <1>i, <3>2 DEF Call, TypeOK
      <4>2. Stored(table') = {}
        BY <4>1 DEF Stored, Occupied
      <4>3. QED
        BY <4>2 DEF ResolvesOnlyNewPaths
    <3>3. QED
      BY <3>1, <3>2
  <2>4. QED
    BY <2>1, <2>2, <2>3
<1>3. CASE Lookup
  <2>1. CASE LookupHit
    BY <2>1, <1>i DEF LookupHit, Return, AtEntry, TableSound, ResolvesOnlyNewPaths,
                      ProbesSoFar, RehashSoFar
  <2>2. CASE LookupNext
    <3>1. Home(request, capacity) \in 0 .. capacity - 1 /\ slot \in 0 .. capacity - 1
      BY <2>2, <1>i, HomeInTable DEF LookupNext, TypeOK, InBounds, InCall
    <3>2. \A k \in Passed(Home(request, capacity), slot', capacity) :
             table[k].path \notin {request, NoPath}
      BY <2>2, <1>i, <3>1, PassedAfter DEF LookupNext, ProbesSoFar, TypeOK
    <3>3. QED
      BY <2>2, <1>i, <3>2 DEF LookupNext, AtEntry, TableSound, ResolvesOnlyNewPaths,
                              ProbesSoFar, RehashSoFar
  <2>3. CASE LookupMiss
    <3>1. request \in Path /\ slot \in 0 .. capacity - 1
      BY <2>3, <1>i DEF LookupMiss, TypeOK, InBounds, InCall
    <3>2. request \notin Stored(table)
      BY <2>3, <1>i, <3>1, LookupComplete DEF LookupMiss, TypeOK, TableSound, ProbesSoFar
    <3>3. QED
      BY <2>3, <1>i, <3>2 DEF LookupMiss, AtEntry, TableSound, ResolvesOnlyNewPaths,
                              ProbesSoFar, RehashSoFar
  <2>4. QED
    BY <1>3, <2>1, <2>2, <2>3 DEF Lookup
<1>4. CASE ResolveFails
  BY <1>4, <1>i DEF ResolveFails, Return, AtEntry, TableSound, ResolvesOnlyNewPaths,
                    ProbesSoFar, RehashSoFar
<1>5. CASE Resolve
  BY <1>5, <1>i DEF Resolve, AtEntry, TableSound, ResolvesOnlyNewPaths,
                    ProbesSoFar, RehashSoFar
<1>6. CASE Reserve
  <2>1. CASE ReserveEnough
    BY <2>1, <1>i DEF ReserveEnough, AtEntry, TableSound, ResolvesOnlyNewPaths,
                      ProbesSoFar, RehashSoFar
  <2>2. CASE ReserveFails
    BY <2>2, <1>i DEF ReserveFails, Return, AtEntry, TableSound, ResolvesOnlyNewPaths,
                      ProbesSoFar, RehashSoFar
  <2>3. CASE ReserveGrow
    <3>1. Moved' = {}
      <4>1. index' = 0 /\ table' = table /\ DOMAIN table = 0 .. capacity - 1
        BY <2>3, <1>i DEF ReserveGrow, TypeOK
      <4>2. QED
        BY <4>1, <1>i DEF Moved, Occupied, TypeOK
    <3>2. RehashSoFar'
      BY <2>3, <3>1, EmptyTableSound DEF ReserveGrow, RehashSoFar
    <3>3. QED
      BY <2>3, <1>i, <3>2 DEF ReserveGrow, AtEntry, TableSound, ResolvesOnlyNewPaths,
                              ProbesSoFar
  <2>4. QED
    BY <1>6, <2>1, <2>2, <2>3 DEF Reserve
<1>7. CASE Rehash
  <2>1. CASE RehashSkip
    <3>1. Moved' = Moved
      BY <2>1, <1>i DEF RehashSkip, Moved, Occupied, TypeOK
    <3>2. QED
      BY <2>1, <1>i, <3>1 DEF RehashSkip, AtEntry, TableSound, ResolvesOnlyNewPaths,
                              ProbesSoFar, RehashSoFar
  <2>2. CASE RehashEntry
    <3>1. Moved' = Moved
      BY <2>2 DEF RehashEntry, Moved
    <3>2. table[index].path \in Path
      BY <2>2, <1>i DEF RehashEntry, TypeOK, Entry
    <3>3. Home(table[index].path, newCapacity) \in 0 .. newCapacity - 1
      BY <2>2, <1>i, <3>2, HomeInTable DEF RehashEntry, TypeOK, InBounds
    <3>4. Passed(slot', slot', newCapacity) = {}
      BY <2>2, <1>i, <3>3, PassedNone DEF RehashEntry, TypeOK
    <3>5. QED
      BY <2>2, <1>i, <3>1, <3>4 DEF RehashEntry, AtEntry, TableSound,
         ResolvesOnlyNewPaths, ProbesSoFar, RehashSoFar
  <2>3. CASE PlaceNext
    <3>1. table[index].path \in Path
      BY <2>3, <1>i DEF PlaceNext, TypeOK, InBounds, AtEntry, Entry
    <3>2. /\ Home(table[index].path, newCapacity) \in 0 .. newCapacity - 1
          /\ slot \in 0 .. newCapacity - 1
      BY <2>3, <1>i, <3>1, HomeInTable DEF PlaceNext, TypeOK, InBounds
    <3>3. \A k \in Passed(Home(table[index].path, newCapacity), slot', newCapacity) :
             newTable[k].path # NoPath
      BY <2>3, <1>i, <3>2, PassedAfter DEF PlaceNext, ProbesSoFar, TypeOK
    <3>4. Moved' = Moved
      BY <2>3 DEF PlaceNext, Moved
    <3>5. QED
      BY <2>3, <1>i, <3>3, <3>4 DEF PlaceNext, AtEntry, TableSound,
         ResolvesOnlyNewPaths, ProbesSoFar, RehashSoFar
  <2>4. CASE Place
    <3> DEFINE e == table[index]
    <3>1. e \in Entry /\ e.path \in Path /\ index \in Occupied(table)
      BY <2>4, <1>i DEF Place, TypeOK, InBounds, AtEntry, Entry, Occupied
    <3>2. e.path \notin Stored(newTable)
      <4> SUFFICES ASSUME NEW s \in Occupied(newTable), newTable[s].path = e.path
                   PROVE  FALSE
        BY DEF Stored
      <4>1. <<newTable[s].path, newTable[s].admitted>> \in Verdicts(newTable)
        BY DEF Verdicts
      <4>2. PICK m \in Moved : newTable[s].path = table[m].path
        BY <4>1, <2>4, <1>i DEF Place, RehashSoFar
      <4>3. m \in Occupied(table) /\ m < index
        BY <4>2 DEF Moved
      <4>4. m = index
        BY <4>2, <4>3, <3>1, <1>i DEF TableSound, NoDuplicates
      <4>5. QED
        BY <4>3, <4>4, <1>i DEF TypeOK
    <3>3. /\ ProbesReach(newTable', newCapacity)
          /\ NoDuplicates(newTable')
          /\ \A x : x \in Verdicts(newTable')
                     <=> x \in Verdicts(newTable) \/ x = <<e.path, e.admitted>>
      <4>1. /\ newTable \in [0 .. newCapacity - 1 -> Entry] /\ newCapacity \in Nat
            /\ newCapacity > 0 /\ slot \in 0 .. newCapacity - 1
            /\ ProbesReach(newTable, newCapacity) /\ NoDuplicates(newTable)
            /\ newTable[slot].path = NoPath
            /\ \A k \in Passed(Home(e.path, newCapacity), slot, newCapacity) :
                  newTable[k].path # NoPath
            /\ Filled(newTable', newTable, slot, e)
        BY <2>4, <1>i DEF Place, TypeOK, InBounds, RehashSoFar, ProbesSoFar, Filled
      <4>2. e \in Entry /\ e.path \in Path /\ e.path \notin Stored(newTable)
        BY <3>1, <3>2
      <4> HIDE DEF e
      <4>3. ProbesReach(newTable', newCapacity)
        BY <4>1, <4>2, PlaceSound
      <4>4. NoDuplicates(newTable')
        BY <4>1, <4>2, PlaceSound
      <4>5. \A x : x \in Verdicts(newTable')
                   <=> x \in Verdicts(newTable) \/ x = <<e.path, e.admitted>>
        BY <4>1, <4>2, PlaceSound
      <4>6. QED
        BY <4>3, <4>4, <4>5
    <3>4. Moved' = Moved \cup {index}
      BY <2>4, <3>1, <1>i DEF Place, Moved, Occupied, TypeOK
    <3>5. Verdicts(newTable') = {<<table[s].path, table[s].admitted>> : s \in Moved'}
      <4>1. Verdicts(newTable) = {<<table[s].path, table[s].admitted>> : s \in Moved}
        BY <2>4, <1>i DEF Place, RehashSoFar
      <4>2. QED
        BY <4>1, <3>3, <3>4
    <3>6. RehashSoFar'
      BY <2>4, <3>3, <3>5 DEF Place, RehashSoFar
    <3>7. QED
      BY <2>4, <1>i, <3>6 DEF Place, AtEntry, TableSound, ResolvesOnlyNewPaths,
                              ProbesSoFar
  <2>5. CASE RehashDone
    <3>1. Moved = Occupied(table)
      BY <2>5, <1>i DEF RehashDone, Moved, Occupied, TypeOK
    <3>2. Verdicts(table') = Verdicts(table) /\ TableSound'
      BY <2>5, <1>i, <3>1 DEF RehashDone, RehashSoFar, TableSound, Verdicts
    <3>3. request \notin Stored(table')
      BY <2>5, <1>i, <3>2, StoredByVerdicts DEF RehashDone, ResolvesOnlyNewPaths
    <3>4. QED
      BY <2>5, <3>2, <3>3 DEF RehashDone, AtEntry, ResolvesOnlyNewPaths,
                              ProbesSoFar, RehashSoFar
  <2>6. QED
    BY <1>7, <2>1, <2>2, <2>3, <2>4, <2>5 DEF Rehash
<1>8. CASE Insertion
  <2>1. CASE CopyFails
    BY <2>1, <1>i DEF CopyFails, Return, AtEntry, TableSound, ResolvesOnlyNewPaths,
                      ProbesSoFar, RehashSoFar
  <2>2. CASE Copy
    <3>1. Home(request, capacity) \in 0 .. capacity - 1
      BY <2>2, <1>i, HomeInTable DEF Copy, TypeOK, InBounds, InCall
    <3>2. Passed(slot', slot', capacity) = {}
      BY <2>2, <1>i, <3>1, PassedNone DEF Copy, TypeOK
    <3>3. QED
      BY <2>2, <1>i, <3>2 DEF Copy, AtEntry, TableSound, ResolvesOnlyNewPaths,
                              ProbesSoFar, RehashSoFar
  <2>3. CASE InsertNext
    <3>1. Home(request, capacity) \in 0 .. capacity - 1 /\ slot \in 0 .. capacity - 1
      BY <2>3, <1>i, HomeInTable DEF InsertNext, TypeOK, InBounds, InCall
    <3>2. \A k \in Passed(Home(request, capacity), slot', capacity) :
             table[k].path # NoPath
      BY <2>3, <1>i, <3>1, PassedAfter DEF InsertNext, ProbesSoFar, TypeOK
    <3>3. QED
      BY <2>3, <1>i, <3>2 DEF InsertNext, AtEntry, TableSound, ResolvesOnlyNewPaths,
                              ProbesSoFar, RehashSoFar
  <2>4. CASE Insert
    <3> DEFINE e == [path |-> request, admitted |-> admitted]
    <3>1. e \in Entry /\ e.path \in Path /\ e.path \notin Stored(table)
      BY <2>4, <1>i DEF Insert, TypeOK, InCall, Entry, ResolvesOnlyNewPaths
    <3>2. /\ table \in [0 .. capacity - 1 -> Entry] /\ capacity \in Nat
          /\ capacity > 0 /\ slot \in 0 .. capacity - 1
          /\ ProbesReach(table, capacity) /\ NoDuplicates(table)
          /\ table[slot].path = NoPath
          /\ \A k \in Passed(Home(e.path, capacity), slot, capacity) : table[k].path # NoPath
          /\ Filled(table', table, slot, e)
      BY <2>4, <1>i DEF Insert, TypeOK, InBounds, TableSound, ProbesSoFar, Filled
    <3>3. ProbesReach(table', capacity) /\ NoDuplicates(table')
      BY <3>1, <3>2, PlaceSound
    <3>4. QED
      BY <2>4, <1>i, <3>3 DEF Insert, Return, AtEntry, TableSound,
         ResolvesOnlyNewPaths, ProbesSoFar, RehashSoFar
  <2>5. QED
    BY <1>8, <2>1, <2>2, <2>3, <2>4 DEF Insertion
<1>9. ASSUME NEW d \in Dir, ChangeDirectory(d)
      PROVE  Rest'
  BY <1>9, <1>i DEF ChangeDirectory, AtEntry, TableSound, ResolvesOnlyNewPaths,
                    ProbesSoFar, RehashSoFar
<1>10. CASE Destroy
  BY <1>10, NoTableSound DEF Destroy, AtEntry, TableSound, ResolvesOnlyNewPaths,
                             ProbesSoFar, RehashSoFar
<1>11. CASE UNCHANGED vars
  <2>1. Moved' = Moved
    BY <1>11 DEF vars, Moved
  <2>2. QED
    BY <1>11, <1>i, <2>1 DEF vars, AtEntry, TableSound, ResolvesOnlyNewPaths,
                             ProbesSoFar, RehashSoFar
<1>12. QED
  BY <1>1, <1>2, <1>3, <1>4, <1>5, <1>6, <1>7, <1>8, <1>9, <1>10, <1>11
  DEF Next, Work

(* The inductive invariant holds of every reachable state.                 *)
THEOREM Inductive == Spec => []IInv
BY IInvInit, IInvStep, PTL DEF Spec

(* The variables keep their types.                                         *)
THEOREM TypeCorrect == Spec => []TypeOK
BY Inductive, PTL DEF IInv

(* path_admission_cache_reserve and path_is_admitted only index entries    *)
(* inside the arrays they allocated, whatever the hash function.           *)
THEOREM AccessInBounds == Spec => []InBounds
BY Inductive, PTL DEF IInv

(* Every stored path is reached by linear probing from its home, before    *)
(* any free slot, and is stored once.                                      *)
THEOREM TableAlwaysSound == Spec => []TableSound
BY Inductive, PTL DEF IInv

(* realpath is asked only about paths the table does not hold: the cache   *)
(* never misses an entry it has.                                           *)
THEOREM ResolvesEachPathOnce == Spec => []ResolvesOnlyNewPaths
BY Inductive, PTL DEF IInv

-----------------------------------------------------------------------------
\* What a step does to the recorded verdicts: nothing, though rehashing moves
\* them all, or one is added, or the session ends.
LEMMA VerdictsStep ==
  ASSUME IInv, Next
  PROVE  \/ table' = table
         \/ RehashDone /\ Verdicts(table') = Verdicts(table)
         \/ Insert /\ \A x : x \in Verdicts(table')
                        <=> x \in Verdicts(table) \/ x = <<request, admitted>>
         \/ Destroy
<1> USE DEF cacheVars
<1>1. CASE CallWithNothing \/ \E p \in Path : Call(p)
  BY <1>1 DEF CallWithNothing, Call
<1>2. CASE Lookup \/ ResolveFails \/ Resolve \/ Reserve
  BY <1>2 DEF Lookup, LookupHit, LookupNext, LookupMiss, ResolveFails, Resolve,
              Reserve, ReserveEnough, ReserveFails, ReserveGrow
<1>3. CASE RehashSkip \/ RehashEntry \/ PlaceNext \/ Place
  BY <1>3 DEF RehashSkip, RehashEntry, PlaceNext, Place
<1>4. CASE RehashDone
  <2>1. Moved = Occupied(table)
    BY <1>4 DEF RehashDone, Moved, Occupied, IInv, TypeOK
  <2>2. QED
    BY <1>4, <2>1 DEF RehashDone, IInv, RehashSoFar, Verdicts
<1>5. CASE CopyFails \/ Copy \/ InsertNext
  BY <1>5 DEF CopyFails, Copy, InsertNext
<1>6. CASE Insert
  <2> DEFINE e == [path |-> request, admitted |-> admitted]
  <2>1. e \in Entry /\ e.path \in Path /\ e.path \notin Stored(table)
    BY <1>6 DEF Insert, IInv, TypeOK, InCall, Entry, ResolvesOnlyNewPaths
  <2>2. /\ table \in [0 .. capacity - 1 -> Entry] /\ capacity \in Nat
        /\ capacity > 0 /\ slot \in 0 .. capacity - 1
        /\ ProbesReach(table, capacity) /\ NoDuplicates(table)
        /\ table[slot].path = NoPath
        /\ \A k \in Passed(Home(e.path, capacity), slot, capacity) : table[k].path # NoPath
        /\ Filled(table', table, slot, e)
    BY <1>6 DEF Insert, IInv, TypeOK, InBounds, TableSound, ProbesSoFar, Filled
  <2>3. e.path = request /\ e.admitted = admitted
    OBVIOUS
  <2> HIDE DEF e
  <2>4. \A x : x \in Verdicts(table') <=> x \in Verdicts(table) \/ x = <<e.path, e.admitted>>
    BY <2>1, <2>2, PlaceSound
  <2>5. QED
    BY <1>6, <2>3, <2>4
<1>7. CASE (\E d \in Dir : ChangeDirectory(d)) \/ Destroy
  BY <1>7 DEF ChangeDirectory
<1>8. QED
  BY <1>1, <1>2, <1>3, <1>4, <1>5, <1>6, <1>7 DEF Next, Work, Rehash, Insertion

(* A verdict, once recorded, is kept unchanged until the session ends.     *)
THEOREM VerdictsStable == Spec => VerdictsKept
<1>1. IInv /\ [Next]_vars =>
        [pc' # "destroyed" => Verdicts(table) \subseteq Verdicts(table')]_vars
  <2> SUFFICES ASSUME IInv, Next, pc' # "destroyed"
               PROVE  Verdicts(table) \subseteq Verdicts(table')
    OBVIOUS
  <2>1. ~ Destroy
    BY DEF Destroy
  <2>2. CASE table' = table
    BY <2>2
  <2>3. QED
    BY <2>1, <2>2, VerdictsStep
<1>2. QED
  BY <1>1, Inductive, PTL DEF Spec, VerdictsKept

-----------------------------------------------------------------------------
(* The load factor, and the free slot every probe stops at.                *)

\* The occupied slots of a table are finitely many.
LEMMA OccupiedFinite ==
  ASSUME NEW cap \in Nat, NEW t \in [0 .. cap - 1 -> Entry]
  PROVE  /\ IsFiniteSet(Occupied(t))
         /\ Cardinality(Occupied(t)) \in Nat
<1>1. Occupied(t) \subseteq 0 .. cap - 1 /\ IsFiniteSet(0 .. cap - 1)
  BY FS_Interval DEF Occupied
<1>2. QED
  BY <1>1, FS_Subset, FS_CardinalityType

\* A table with fewer entries than slots has a free slot.
LEMMA FreeByCount ==
  ASSUME NEW cap \in Nat, NEW t \in [0 .. cap - 1 -> Entry],
         Cardinality(Occupied(t)) < cap
  PROVE  \E s \in DOMAIN t : t[s].path = NoPath
<1> SUFFICES ASSUME \A s \in DOMAIN t : t[s].path # NoPath
             PROVE  FALSE
  OBVIOUS
<1>1. Occupied(t) = 0 .. cap - 1
  BY DEF Occupied
<1>2. Cardinality(0 .. cap - 1) = cap
  BY FS_Interval
<1>3. QED
  BY <1>1, <1>2

\* Filling a free slot adds one entry.
LEMMA PlaceCount ==
  ASSUME NEW cap \in Nat, NEW t \in [0 .. cap - 1 -> Entry],
         NEW e \in Entry, e.path \in Path,
         NEW s \in 0 .. cap - 1, t[s].path = NoPath
  PROVE  Cardinality(Occupied([t EXCEPT ![s] = e])) = Cardinality(Occupied(t)) + 1
<1>1. Occupied([t EXCEPT ![s] = e]) = Occupied(t) \cup {s} /\ s \notin Occupied(t)
  BY PathAssumption DEF Occupied
<1>2. QED
  BY <1>1, OccupiedFinite, FS_AddElement

\* A table grown from one below the limit has room for one entry more.
LEMMA GrownHasRoom ==
  ASSUME NEW cap \in Nat, NEW n \in Nat,
         (cap = 0 /\ n = 0) \/ (cap >= 2 /\ HasRoom(n, cap))
  PROVE  Grown(cap) >= 2 /\ HasRoom(n + 1, Grown(cap))
BY CapacityAssumption DEF Grown, HasRoom

\* An array with no slots holds no entries.
LEMMA NoneOccupied ==
  ASSUME NEW cap \in Nat
  PROVE  /\ Cardinality(Occupied(NoTable)) = 0
         /\ Cardinality(Occupied(EmptyTable(cap))) = 0
<1>1. Occupied(NoTable) = {} /\ Occupied(EmptyTable(cap)) = {}
  BY DEF Occupied, NoTable, EmptyTable, Free
<1>2. QED
  BY <1>1, FS_EmptySet

\* Nothing is stored in no table.
LEMMA LoadInit == Init => LoadFactor
BY NoneOccupied DEF Init, LoadFactor

\* Insertion counts the entry it adds and reserve has made room for it; a
\* rehash carries as many entries over as it has passed.
LEMMA LoadStep == IInv /\ LoadFactor /\ [Next]_vars => LoadFactor'
<1> SUFFICES ASSUME IInv, LoadFactor, [Next]_vars PROVE LoadFactor'
  OBVIOUS
<1>i. TypeOK /\ InBounds /\ InCall /\ AtEntry
  BY DEF IInv
<1>n. Cardinality(Occupied(table)) \in Nat
  BY <1>i, OccupiedFinite DEF TypeOK
<1> USE DEF cacheVars, callVars, rehashVars
<1>1. CASE CallWithNothing
  BY <1>1 DEF CallWithNothing, Return, LoadFactor
<1>2. ASSUME NEW p \in Path, Call(p)
      PROVE  LoadFactor'
  <2>1. pc' \in {"lookup", "resolve"}
    BY <1>2 DEF Call
  <2>2. QED
    BY <1>2, <2>1 DEF Call, LoadFactor
<1>3. CASE Lookup \/ ResolveFails \/ Resolve
  BY <1>3 DEF Lookup, LookupHit, LookupNext, LookupMiss, ResolveFails, Resolve,
              Return, LoadFactor
<1>4. CASE Reserve
  <2>1. CASE ReserveEnough
    BY <2>1 DEF ReserveEnough, LoadFactor
  <2>2. CASE ReserveFails
    BY <2>2 DEF ReserveFails, Return, LoadFactor
  <2>3. CASE ReserveGrow
    <3>1. Moved' = {}
      <4>1. index' = 0 /\ table' = table /\ DOMAIN table = 0 .. capacity - 1
        BY <2>3, <1>i DEF ReserveGrow, TypeOK
      <4>2. QED
        BY <4>1, <1>i DEF Moved, Occupied, TypeOK
    <3>2. newCapacity' = Grown(capacity) /\ newCapacity' \in Nat
      BY <2>3, <1>i, CapacityAssumption DEF ReserveGrow, Grown, TypeOK
    <3>3. newCapacity' >= 2 /\ HasRoom(count + 1, newCapacity')
      <4>1. capacity = 0 => count = 0
        <5>1. capacity = 0 => Occupied(table) = {}
          BY <1>i DEF TypeOK, Occupied
        <5>2. QED
          BY <5>1, FS_EmptySet DEF LoadFactor
      <4>2. QED
        BY <1>i, <3>2, <4>1, GrownHasRoom DEF LoadFactor, TypeOK
    <3>4. Cardinality(Occupied(newTable')) = 0 /\ Cardinality(Moved') = 0
      BY <2>3, <3>1, <3>2, NoneOccupied, FS_EmptySet DEF ReserveGrow
    <3>5. QED
      BY <2>3, <3>3, <3>4 DEF ReserveGrow, LoadFactor
  <2>4. QED
    BY <1>4, <2>1, <2>2, <2>3 DEF Reserve
<1>5. CASE RehashSkip
  <2>1. Moved' = Moved
    BY <1>5, <1>i DEF RehashSkip, Moved, Occupied, TypeOK
  <2>2. QED
    BY <1>5, <2>1 DEF RehashSkip, LoadFactor
<1>6. CASE RehashEntry \/ PlaceNext
  <2>1. Moved' = Moved
    BY <1>6 DEF RehashEntry, PlaceNext, Moved
  <2>2. QED
    BY <1>6, <2>1 DEF RehashEntry, PlaceNext, LoadFactor
<1>7. CASE Place
  <2>1. Moved' = Moved \cup {index} /\ index \notin Moved
    BY <1>7, <1>i DEF Place, Moved, Occupied, TypeOK, InBounds, AtEntry
  <2>2. IsFiniteSet(Moved)
    <3>1. Moved \subseteq Occupied(table)
      BY DEF Moved
    <3>2. QED
      BY <3>1, <1>i, OccupiedFinite, FS_Subset DEF TypeOK
  <2>3. Cardinality(Moved') = Cardinality(Moved) + 1
    BY <2>1, <2>2, FS_AddElement
  <2>4. table[index] \in Entry /\ table[index].path \in Path
    BY <1>7, <1>i DEF Place, TypeOK, InBounds, AtEntry, Entry
  <2>5. Cardinality(Occupied(newTable')) = Cardinality(Occupied(newTable)) + 1
    <3>1. /\ newCapacity \in Nat /\ newTable \in [0 .. newCapacity - 1 -> Entry]
          /\ slot \in 0 .. newCapacity - 1 /\ newTable[slot].path = NoPath
          /\ newTable' = [newTable EXCEPT ![slot] = table[index]]
      BY <1>7, <1>i DEF Place, TypeOK, InBounds
    <3>2. QED
      BY <3>1, <2>4, PlaceCount
  <2>6. QED
    BY <1>7, <2>3, <2>5 DEF Place, LoadFactor
<1>8. CASE RehashDone
  <2>1. Moved = Occupied(table)
    BY <1>8, <1>i DEF RehashDone, Moved, Occupied, TypeOK
  <2>2. HasRoom(count, newCapacity)
    BY <1>8, <1>i DEF RehashDone, LoadFactor, HasRoom, TypeOK
  <2>3. QED
    BY <1>8, <2>1, <2>2 DEF RehashDone, LoadFactor
<1>9. CASE CopyFails \/ Copy \/ InsertNext
  BY <1>9 DEF CopyFails, Copy, InsertNext, Return, LoadFactor
<1>10. CASE Insert
  <2> DEFINE e == [path |-> request, admitted |-> admitted]
  <2>1. /\ e \in Entry /\ e.path \in Path
        /\ capacity \in Nat /\ table \in [0 .. capacity - 1 -> Entry]
        /\ slot \in 0 .. capacity - 1 /\ table[slot].path = NoPath
        /\ table' = [table EXCEPT ![slot] = e]
    BY <1>10, <1>i DEF Insert, TypeOK, InCall, InBounds, Entry
  <2> HIDE DEF e
  <2>2. Cardinality(Occupied(table')) = Cardinality(Occupied(table)) + 1
    BY <2>1, PlaceCount
  <2>3. QED
    BY <1>10, <2>2 DEF Insert, Return, LoadFactor
<1>11. CASE \E d \in Dir : ChangeDirectory(d)
  BY <1>11 DEF ChangeDirectory, LoadFactor
<1>12. CASE Destroy
  BY <1>12, NoneOccupied DEF Destroy, LoadFactor
<1>13. CASE UNCHANGED vars
  <2>1. Moved' = Moved
    BY <1>13 DEF vars, Moved
  <2>2. QED
    BY <1>13, <2>1 DEF vars, LoadFactor
<1>14. QED
  BY <1>1, <1>2, <1>3, <1>4, <1>5, <1>6, <1>7, <1>8, <1>9, <1>10, <1>11, <1>12, <1>13
  DEF Next, Work, Rehash, Insertion

(* The count is exact and the load factor is kept.                         *)
THEOREM LoadKept == Spec => []LoadFactor
BY LoadInit, LoadStep, Inductive, PTL DEF Spec

(* Neither table is ever full, so every probe meets a free slot.           *)
THEOREM ProbesCanStop == Spec => []FreeSlotRemains
<1>1. IInv /\ LoadFactor => FreeSlotRemains
  <2> SUFFICES ASSUME IInv, LoadFactor PROVE FreeSlotRemains
    OBVIOUS
  <2>1. TypeOK
    BY DEF IInv
  <2>2. Cardinality(Occupied(table)) \in Nat /\ IsFiniteSet(Occupied(table))
    BY <2>1, OccupiedFinite DEF TypeOK
  <2>3. ASSUME capacity > 0 PROVE \E s \in DOMAIN table : table[s].path = NoPath
    <3>1. Cardinality(Occupied(table)) < capacity
      BY <2>1, <2>2, <2>3 DEF LoadFactor, HasRoom, TypeOK
    <3>2. QED
      BY <3>1, <2>1, FreeByCount DEF TypeOK
  <2>4. ASSUME newCapacity > 0 PROVE \E s \in DOMAIN newTable : newTable[s].path = NoPath
    <3>1. pc \in {"rehash", "place"}
      BY <2>4 DEF LoadFactor
    <3>2. Moved \subseteq Occupied(table)
      BY DEF Moved
    <3>3. Cardinality(Moved) <= Cardinality(Occupied(table)) /\ Cardinality(Moved) \in Nat
      BY <3>2, <2>2, FS_Subset, FS_CardinalityType
    <3>4. Cardinality(Occupied(newTable)) < newCapacity
      BY <3>1, <3>3, <2>1, <2>2 DEF LoadFactor, HasRoom, TypeOK
    <3>5. QED
      BY <3>4, <2>1, FreeByCount DEF TypeOK
  <2>5. QED
    BY <2>3, <2>4 DEF FreeSlotRemains
<1>2. QED
  BY <1>1, Inductive, LoadKept, PTL

-----------------------------------------------------------------------------
(* The cache implements the memo.                                          *)

\* What the mapping reads as the question being decided.
Asked == IF pc \in {"idle", "destroyed"} THEN NoPath ELSE request

\* The memo's recorded paths are those the table stores.
LEMMA RecordedIsStored == Memo!Recorded = Stored(table)
<1>1. \A x \in Memo!Recorded : x \in Stored(table)
  BY DEF Memo!Recorded, Stored, Verdicts
<1>2. \A x \in Stored(table) : x \in Memo!Recorded
  <2> SUFFICES ASSUME NEW s \in Occupied(table)
               PROVE  table[s].path \in Memo!Recorded
    BY DEF Stored
  <2>1. <<table[s].path, table[s].admitted>> \in Verdicts(table)
    BY DEF Verdicts
  <2>2. QED
    BY <2>1 DEF Memo!Recorded
<1>3. QED
  BY <1>1, <1>2

\* The working directory does not move during a call, nor does the verdict.
LEMMA HeldVerdict == Spec => []VerdictInHand
<1>1. Init => VerdictInHand
  BY DEF Init, VerdictInHand
<1>2. VerdictInHand /\ [Next]_vars => VerdictInHand'
  <2> SUFFICES ASSUME VerdictInHand, [Next]_vars PROVE VerdictInHand'
    OBVIOUS
  <2> USE DEF VerdictInHand, cacheVars, callVars, rehashVars
  <2>1. CASE CallWithNothing \/ \E p \in Path : Call(p)
    BY <2>1 DEF CallWithNothing, Call, Return
  <2>2. CASE Lookup \/ ResolveFails \/ Resolve
    BY <2>2 DEF Lookup, LookupHit, LookupNext, LookupMiss, ResolveFails, Resolve, Return
  <2>3. CASE Reserve
    BY <2>3 DEF Reserve, ReserveEnough, ReserveFails, ReserveGrow, Return
  <2>4. CASE Rehash
    BY <2>4 DEF Rehash, RehashSkip, RehashEntry, PlaceNext, Place, RehashDone
  <2>5. CASE Insertion
    BY <2>5 DEF Insertion, CopyFails, Copy, InsertNext, Insert, Return
  <2>6. CASE (\E d \in Dir : ChangeDirectory(d)) \/ Destroy
    BY <2>6 DEF ChangeDirectory, Destroy
  <2>7. CASE UNCHANGED vars
    BY <2>7 DEF vars
  <2>8. QED
    BY <2>1, <2>2, <2>3, <2>4, <2>5, <2>6, <2>7 DEF Next, Work
<1>3. QED
  BY <1>1, <1>2, PTL DEF Spec

\* The memo and the cache resolve paths by the same rules.
LEMMA SameRules ==
  \A p, d : Memo!Resolves(p, d) = Resolves(p, d) /\ Memo!Verdict(p, d) = Verdict(p, d)
BY DEF Memo!Resolves, Resolves, Memo!Verdict, Verdict, Memo!MatchesRoot, MatchesRoot

\* The cache starts where the memo does: nothing asked, nothing recorded.
LEMMA MemoInit == Init => Memo!Init
<1>1. Verdicts(NoTable) = {}
  BY DEF Verdicts, Occupied, NoTable
<1>2. QED
  BY <1>1 DEF Init, Memo!Init

\* A hit, a failure and an insertion are the memo's steps; all others stutter.
LEMMA MemoStep == IInv /\ VerdictInHand /\ [Next]_vars => [Memo!Next]_(Memo!vars)
<1> SUFFICES ASSUME IInv, VerdictInHand, [Next]_vars
             PROVE  Memo!Next \/ UNCHANGED <<cwd, Verdicts(table), Asked, answer>>
  BY DEF Memo!vars, Asked
<1>i. TypeOK /\ InBounds /\ InCall
  BY DEF IInv
<1> USE DEF cacheVars, callVars, rehashVars
<1>1. CASE CallWithNothing
  <2>1. Memo!AskNothing
    BY <1>1 DEF CallWithNothing, Return, Memo!AskNothing
  <2>2. QED
    BY <2>1 DEF Memo!Next
<1>2. ASSUME NEW p \in Path, Call(p)
      PROVE  Memo!Next
  <2>1. pc' \in {"lookup", "resolve"}
    BY <1>2 DEF Call
  <2>2. Memo!Ask(p)
    BY <1>2, <2>1 DEF Call, Memo!Ask
  <2>3. QED
    BY <2>2 DEF Memo!Next
<1>3. CASE LookupHit
  <2>1. slot \in Occupied(table) /\ request \in Path
    BY <1>3, <1>i, PathAssumption DEF LookupHit, Occupied, TypeOK, InBounds, InCall
  <2>2. <<request, table[slot].admitted>> \in Verdicts(table) /\ request \in Stored(table)
    BY <1>3, <2>1 DEF LookupHit, Verdicts, Stored
  <2>3. Memo!Recall
    BY <1>3, <2>2, RecordedIsStored DEF LookupHit, Return, Memo!Recall
  <2>4. QED
    BY <2>3 DEF Memo!Next
<1>4. CASE LookupNext \/ LookupMiss \/ Resolve \/ ReserveEnough \/ ReserveGrow
           \/ RehashSkip \/ RehashEntry \/ PlaceNext \/ Place \/ Copy \/ InsertNext
  BY <1>4 DEF LookupNext, LookupMiss, Resolve, ReserveEnough, ReserveGrow, RehashSkip,
              RehashEntry, PlaceNext, Place, Copy, InsertNext, Asked
<1>5. CASE ResolveFails \/ ReserveFails \/ CopyFails
  <2>1. request \in Path /\ request # NoPath /\ request \notin Stored(table)
    BY <1>5, PathAssumption DEF IInv, InCall, ResolvesOnlyNewPaths, ResolveFails,
                                ReserveFails, CopyFails
  <2>2. Memo!Refuse
    BY <1>5, <2>1, RecordedIsStored
    DEF ResolveFails, ReserveFails, CopyFails, Return, Memo!Refuse
  <2>3. QED
    BY <2>2 DEF Memo!Next
<1>6. CASE RehashDone
  <2>1. Verdicts(table') = Verdicts(table)
    <3>1. Moved = Occupied(table)
      BY <1>6, <1>i DEF RehashDone, Moved, Occupied, TypeOK
    <3>2. QED
      BY <1>6, <3>1 DEF RehashDone, IInv, RehashSoFar, Verdicts
  <2>2. QED
    BY <1>6, <2>1 DEF RehashDone, Asked
<1>7. CASE Insert
  <2>1. request \in Path /\ request # NoPath /\ request \notin Stored(table)
    BY <1>7, PathAssumption DEF IInv, InCall, ResolvesOnlyNewPaths, Insert
  <2>2. ~ RehashDone /\ ~ Destroy /\ table' # table
    BY <1>7, <1>i, <2>1 DEF Insert, RehashDone, Destroy, TypeOK, InBounds
  <2>3. \A x : x \in Verdicts(table') <=> x \in Verdicts(table) \/ x = <<request, admitted>>
    BY <1>7, <2>2, VerdictsStep DEF Next, Work, Insertion
  <2>4. Verdicts(table') = Verdicts(table) \cup {<<request, Verdict(request, cwd)>>}
    BY <1>7, <2>3 DEF Insert, VerdictInHand
  <2>5. Memo!Decide
    <3>1. /\ pc = "insert" /\ pc' = "idle" /\ cwd' = cwd
          /\ Resolves(request, cwd) /\ answer' = Verdict(request, cwd)
      BY <1>7 DEF Insert, Return, VerdictInHand
    <3>2. request \notin Memo!Recorded
      BY <2>1, RecordedIsStored
    <3>3. QED
      BY <3>1, <3>2, <2>1, <2>4, SameRules DEF Memo!Decide
  <2>6. QED
    BY <2>5 DEF Memo!Next
<1>8. ASSUME NEW d \in Dir, ChangeDirectory(d)
      PROVE  Memo!Next
  <2>1. Memo!ChangeDirectory(d)
    BY <1>8 DEF ChangeDirectory, Memo!ChangeDirectory
  <2>2. QED
    BY <2>1 DEF Memo!Next
<1>9. CASE Destroy
  <2>1. Verdicts(NoTable) = {}
    BY DEF Verdicts, Occupied, NoTable
  <2>2. Memo!Forget
    BY <1>9, <2>1 DEF Destroy, Memo!Forget
  <2>3. QED
    BY <2>2 DEF Memo!Next
<1>10. CASE UNCHANGED vars
  BY <1>10 DEF vars, Asked
<1>11. QED
  BY <1>1, <1>2, <1>3, <1>4, <1>5, <1>6, <1>7, <1>8, <1>9, <1>10
  DEF Next, Work, Lookup, Reserve, Rehash, Insertion

(* path_is_admitted implements the memo, whatever the table does inside.   *)
THEOREM CacheImplementsMemo == Spec => ImplementsMemo
BY MemoInit, MemoStep, Inductive, HeldVerdict, PTL DEF Spec, ImplementsMemo, Memo!Spec

-----------------------------------------------------------------------------
(* What an answer is worth, however old: AnswerIsCurrent does not hold, but *)
(* paths that mean two files are the only reason.                          *)

\* The path names the same file, or none, wherever the process stands: an
\* absolute one does.
Steady(path) == \A d, e \in Dir : RealPath[path, d] = RealPath[path, e]

\* Every recorded verdict was true in a directory the process may stand in.
Judged == \A x \in Verdicts(table) : \E d \in Dir : x[2] = Verdict(x[1], d)

\* A call that says yes, or that no error excuses, has an answer to give.
Answers == Returns /\ (answer' \/ ~ err')

\* A verdict is recorded where it is computed and never changed.
LEMMA AlwaysJudged == Spec => []Judged
<1>1. Verdicts(NoTable) = {}
  BY DEF Verdicts, Occupied, NoTable
<1>2. Init => Judged
  BY <1>1 DEF Init, Judged
<1>3. IInv /\ VerdictInHand /\ Judged /\ [Next]_vars => Judged'
  <2> SUFFICES ASSUME IInv, VerdictInHand, Judged, [Next]_vars PROVE Judged'
    OBVIOUS
  <2>1. CASE table' = table
    BY <2>1 DEF Judged, Verdicts, Occupied
  <2>2. CASE Verdicts(table') = Verdicts(table)
    BY <2>2 DEF Judged
  <2>3. ASSUME Insert,
               \A x : x \in Verdicts(table')
                   <=> x \in Verdicts(table) \/ x = <<request, admitted>>
        PROVE  Judged'
    <3>1. cwd \in Dir /\ admitted = Verdict(request, cwd)
      BY <2>3 DEF IInv, TypeOK, VerdictInHand, Insert
    <3>2. QED
      BY <2>3, <3>1 DEF Judged
  <2>4. CASE Destroy
    BY <1>1, <2>4 DEF Destroy, Judged
  <2>5. CASE UNCHANGED vars
    BY <2>1, <2>5 DEF vars, cacheVars
  <2>6. QED
    BY <2>1, <2>2, <2>3, <2>4, <2>5, VerdictsStep
<1>4. QED
  BY <1>2, <1>3, Inductive, HeldVerdict, PTL DEF Spec

\* A call answers by recalling a verdict or by computing one.
LEMMA AnswersAreVerdicts ==
  ASSUME IInv, VerdictInHand, Judged, Next, Answers
  PROVE  /\ request \in Path /\ cwd \in Dir
         /\ \E d \in Dir : answer' = Verdict(request, d)
<1>1. request \in Path /\ cwd \in Dir
  BY DEF Answers, Returns, IInv, InCall, TypeOK
<1>2. CASE LookupHit
  <2>1. slot \in Occupied(table) /\ table[slot].path = request
    BY <1>1, <1>2, PathAssumption DEF LookupHit, Occupied, IInv, TypeOK, InBounds
  <2>2. <<request, table[slot].admitted>> \in Verdicts(table)
    BY <2>1 DEF Verdicts
  <2>3. \E d \in Dir : table[slot].admitted = Verdict(request, d)
    BY <2>2 DEF Judged
  <2>4. QED
    BY <1>1, <1>2, <2>3 DEF LookupHit, Return
<1>3. CASE Insert
  BY <1>1, <1>3 DEF Insert, Return, VerdictInHand
<1>4. CASE ResolveFails \/ ReserveFails \/ CopyFails
  BY <1>4 DEF ResolveFails, ReserveFails, CopyFails, Return, Answers
<1>5. CASE LookupNext \/ LookupMiss \/ Resolve \/ ReserveEnough \/ ReserveGrow
           \/ RehashSkip \/ RehashEntry \/ PlaceNext \/ Place \/ RehashDone \/ Copy
           \/ InsertNext
  BY <1>5 DEF LookupNext, LookupMiss, Resolve, ReserveEnough, ReserveGrow, RehashSkip,
              RehashEntry, PlaceNext, Place, RehashDone, Copy, InsertNext, Answers, Returns
<1>6. CASE CallWithNothing \/ (\E p \in Path : Call(p))
           \/ (\E d \in Dir : ChangeDirectory(d)) \/ Destroy
  BY <1>6 DEF CallWithNothing, Call, ChangeDirectory, Destroy, Answers, Returns
<1>7. QED
  BY <1>1, <1>2, <1>3, <1>4, <1>5, <1>6
  DEF Next, Work, Lookup, Reserve, Rehash, Insertion

(* What path_is_admitted answers about a path, the table having grown and  *)
(* been probed as it may, is the verdict on the file that the path names   *)
(* in one of the scan's directories; after an error it may only say no.    *)
THEOREM AnswersWereTrue ==
  Spec => [][Answers => \E d \in Dir : answer' = Verdict(request, d)]_vars
<1>1. IInv /\ VerdictInHand /\ Judged /\ [Next]_vars
        => [Answers => \E d \in Dir : answer' = Verdict(request, d)]_vars
  BY AnswersAreVerdicts
<1>2. QED
  BY <1>1, Inductive, HeldVerdict, AlwaysJudged, PTL DEF Spec

(* For a path that names one file wherever the process stands, the answer  *)
(* is the verdict on the file it names now: only relative paths go stale.  *)
THEOREM SteadyAnswersAreCurrent ==
  Spec => [][Answers /\ Steady(request) => answer' = Verdict(request, cwd)]_vars
<1>1. IInv /\ VerdictInHand /\ Judged /\ [Next]_vars
        => [Answers /\ Steady(request) => answer' = Verdict(request, cwd)]_vars
  <2> SUFFICES ASSUME IInv, VerdictInHand, Judged, Next, Answers, Steady(request)
               PROVE  answer' = Verdict(request, cwd)
    OBVIOUS
  <2>1. PICK d \in Dir : answer' = Verdict(request, d)
    BY AnswersAreVerdicts
  <2>2. cwd \in Dir
    BY AnswersAreVerdicts
  <2>3. RealPath[request, d] = RealPath[request, cwd]
    BY <2>2 DEF Steady
  <2>4. Verdict(request, d) = Verdict(request, cwd)
    BY <2>3 DEF Verdict, Resolves
  <2>5. QED
    BY <2>1, <2>4
<1>2. QED
  BY <1>1, Inductive, HeldVerdict, AlwaysJudged, PTL DEF Spec

=============================================================================
