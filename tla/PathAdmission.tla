---------------------------- MODULE PathAdmission ----------------------------
(***************************************************************************)
(* The session-wide admission cache of analysis.c: an open-addressing hash *)
(* table from the spelling of a path to the verdict on it.                 *)
(*                                                                         *)
(* A call of path_is_admitted is a sequence of steps here, one for each    *)
(* probe of the table, so that the loops are checked and not assumed: the  *)
(* lookup, the rehash of a grown table, and the insertion.  Only one call  *)
(* runs at a time.  Between calls the scan may change directory.           *)
(*                                                                         *)
(* A slot is found by masking the hash with capacity - 1.  The capacity    *)
(* starts at a power of two and doubles, so masking is the remainder.      *)
(***************************************************************************)
EXTENDS AdmissionRules, FiniteSets

CONSTANTS
  Hash,             \* [Path -> Nat], the value of path_admission_hash
  InitialCapacity   \* ANALYSIS_INITIAL_PATH_CAPACITY

ASSUME HashAssumption == Hash \in [Path -> Nat]
ASSUME CapacityAssumption == InitialCapacity \in Nat /\ InitialCapacity >= 2

VARIABLES
  cwd,          \* the process's working directory
  table,        \* session->path_admissions
  capacity,     \* session->path_admission_capacity
  count,        \* session->path_admission_count
  err,          \* whether session->err holds an error
  pc,           \* where the call in progress stands
  request,      \* the path of the call in progress, or of the last one
  slot,         \* the slot being probed
  admitted,     \* the verdict of the call in progress, once resolved
  newTable,     \* the table being filled by a rehash
  newCapacity,  \* its capacity
  index,        \* the next slot of the old table to move
  answer        \* what the last call returned

callVars   == <<request, slot, admitted>>
rehashVars == <<newTable, newCapacity, index>>
cacheVars  == <<table, capacity, count>>
vars == <<cwd, cacheVars, err, pc, callVars, rehashVars, answer>>

Entry == [path : Path \cup {NoPath}, admitted : BOOLEAN]
Free  == [path |-> NoPath, admitted |-> FALSE]

NoTable        == [s \in {} |-> Free]
\* Faults.  An operator named after a definition and a mistake (EmptyTableOneTooLong)
\* is that definition with the mistake in it; no other definition uses it.
EmptyTableOneTooLong(cap) == [s \in 0 .. cap |-> Free]

EmptyTable(cap) == [s \in 0 .. cap - 1 |-> Free]
Home(p, cap)   == Hash[p] % cap
After(s, cap)  == IF s + 1 = cap THEN 0 ELSE s + 1

\* path_admission_cache_reserve keeps a table below three quarters full.
HasRoomToTheLastSlot(needed, cap) == cap > 0 /\ needed <= cap

HasRoom(needed, cap) == cap > 0 /\ needed * 4 < cap * 3

Grown(cap) == IF cap = 0 THEN InitialCapacity ELSE cap * 2

Return(value) ==
  /\ pc' = "idle"
  /\ answer' = value

Init ==
  /\ cwd \in Dir
  /\ table = NoTable
  /\ capacity = 0
  /\ count = 0
  /\ err = FALSE
  /\ pc = "idle"
  /\ request = NoPath
  /\ slot = 0
  /\ admitted = FALSE
  /\ newTable = NoTable
  /\ newCapacity = 0
  /\ index = 0
  /\ answer = FALSE

-----------------------------------------------------------------------------
(* The call: early return, lookup and resolution.                          *)

CallWithNothing ==
  /\ pc = "idle"
  /\ request' = NoPath
  /\ Return(FALSE)
  /\ UNCHANGED <<cwd, cacheVars, err, slot, admitted, rehashVars>>

Call(p) ==
  /\ pc = "idle"
  /\ request' = p
  /\ answer' = FALSE
  /\ admitted' = FALSE
  /\ IF capacity > 0
     THEN pc' = "lookup" /\ slot' = Home(p, capacity)
     ELSE pc' = "resolve" /\ slot' = 0
  /\ UNCHANGED <<cwd, cacheVars, err, rehashVars>>

LookupHitForgetsVerdict ==
  /\ pc = "lookup"
  /\ table[slot].path = request
  /\ Return(admitted)
  /\ UNCHANGED <<cwd, cacheVars, err, callVars, rehashVars>>

LookupHit ==
  /\ pc = "lookup"
  /\ table[slot].path = request
  /\ Return(table[slot].admitted)
  /\ UNCHANGED <<cwd, cacheVars, err, callVars, rehashVars>>

LookupNext ==
  /\ pc = "lookup"
  /\ table[slot].path \notin {request, NoPath}
  /\ slot' = After(slot, capacity)
  /\ UNCHANGED <<cwd, cacheVars, err, pc, request, admitted, rehashVars, answer>>

LookupMiss ==
  /\ pc = "lookup"
  /\ table[slot].path = NoPath
  /\ pc' = "resolve"
  /\ UNCHANGED <<cwd, cacheVars, err, callVars, rehashVars, answer>>

ResolveFails ==
  /\ pc = "resolve"
  /\ ~ Resolves(request, cwd)
  /\ err' = TRUE
  /\ Return(FALSE)
  /\ UNCHANGED <<cwd, cacheVars, callVars, rehashVars>>

Resolve ==
  /\ pc = "resolve"
  /\ Resolves(request, cwd)
  /\ admitted' = Verdict(request, cwd)
  /\ pc' = "reserve"
  /\ UNCHANGED <<cwd, cacheVars, err, request, slot, rehashVars, answer>>

-----------------------------------------------------------------------------
(* path_admission_cache_reserve.                                           *)

ReserveEnough ==
  /\ pc = "reserve"
  /\ HasRoom(count + 1, capacity)
  /\ pc' = "copy"
  /\ UNCHANGED <<cwd, cacheVars, err, callVars, rehashVars, answer>>

ReserveFails ==
  /\ pc = "reserve"
  /\ ~ HasRoom(count + 1, capacity)
  /\ err' = TRUE
  /\ Return(FALSE)
  /\ UNCHANGED <<cwd, cacheVars, callVars, rehashVars>>

ReserveGrow ==
  /\ pc = "reserve"
  /\ ~ HasRoom(count + 1, capacity)
  /\ newCapacity' = Grown(capacity)
  /\ newTable' = EmptyTable(newCapacity')
  /\ index' = 0
  /\ pc' = "rehash"
  /\ UNCHANGED <<cwd, cacheVars, err, callVars, answer>>

RehashSkip ==
  /\ pc = "rehash"
  /\ index < capacity
  /\ table[index].path = NoPath
  /\ index' = index + 1
  /\ UNCHANGED <<cwd, cacheVars, err, pc, callVars, newTable, newCapacity, answer>>

RehashEntry ==
  /\ pc = "rehash"
  /\ index < capacity
  /\ table[index].path # NoPath
  /\ slot' = Home(table[index].path, newCapacity)
  /\ pc' = "place"
  /\ UNCHANGED <<cwd, cacheVars, err, request, admitted, rehashVars, answer>>

PlaceNext ==
  /\ pc = "place"
  /\ newTable[slot].path # NoPath
  /\ slot' = After(slot, newCapacity)
  /\ UNCHANGED <<cwd, cacheVars, err, pc, request, admitted, rehashVars, answer>>

PlaceTwice ==
  /\ pc = "place"
  /\ newTable[slot].path = NoPath
  /\ newTable' = [newTable EXCEPT ![slot] = table[index]]
  /\ pc' = "rehash"
  /\ UNCHANGED <<cwd, cacheVars, err, callVars, newCapacity, index, answer>>

Place ==
  /\ pc = "place"
  /\ newTable[slot].path = NoPath
  /\ newTable' = [newTable EXCEPT ![slot] = table[index]]
  /\ index' = index + 1
  /\ pc' = "rehash"
  /\ UNCHANGED <<cwd, cacheVars, err, callVars, newCapacity, answer>>

RehashDoneOneEarly ==
  /\ pc = "rehash"
  /\ capacity \in {index, index + 1}
  /\ table' = newTable
  /\ capacity' = newCapacity
  /\ newTable' = NoTable
  /\ newCapacity' = 0
  /\ index' = 0
  /\ pc' = "copy"
  /\ UNCHANGED <<cwd, count, err, callVars, answer>>

\* The old array is freed, not the paths its entries carried over.
RehashDone ==
  /\ pc = "rehash"
  /\ index = capacity
  /\ table' = newTable
  /\ capacity' = newCapacity
  /\ newTable' = NoTable
  /\ newCapacity' = 0
  /\ index' = 0
  /\ pc' = "copy"
  /\ UNCHANGED <<cwd, count, err, callVars, answer>>

-----------------------------------------------------------------------------
(* The insertion, and what the session does around the calls.              *)

CopyFails ==
  /\ pc = "copy"
  /\ err' = TRUE
  /\ Return(FALSE)
  /\ UNCHANGED <<cwd, cacheVars, callVars, rehashVars>>

Copy ==
  /\ pc = "copy"
  /\ slot' = Home(request, capacity)
  /\ pc' = "insert"
  /\ UNCHANGED <<cwd, cacheVars, err, request, admitted, rehashVars, answer>>

InsertNext ==
  /\ pc = "insert"
  /\ table[slot].path # NoPath
  /\ slot' = After(slot, capacity)
  /\ UNCHANGED <<cwd, cacheVars, err, pc, request, admitted, rehashVars, answer>>

Insert ==
  /\ pc = "insert"
  /\ table[slot].path = NoPath
  /\ table' = [table EXCEPT ![slot] = [path |-> request, admitted |-> admitted]]
  /\ count' = count + 1
  /\ Return(admitted)
  /\ UNCHANGED <<cwd, capacity, err, callVars, rehashVars>>

\* scan_source enters a compile command's directory and leaves it again.
ChangeDirectory(d) ==
  /\ pc = "idle"
  /\ cwd' = d
  /\ UNCHANGED <<cacheVars, err, pc, callVars, rehashVars, answer>>

Destroy ==
  /\ pc = "idle"
  /\ table' = NoTable
  /\ capacity' = 0
  /\ count' = 0
  /\ pc' = "destroyed"
  /\ UNCHANGED <<cwd, err, callVars, rehashVars, answer>>

Lookup    == LookupHit \/ LookupNext \/ LookupMiss
Reserve   == ReserveEnough \/ ReserveFails \/ ReserveGrow
Rehash    == RehashSkip \/ RehashEntry \/ PlaceNext \/ Place \/ RehashDone
Insertion == CopyFails \/ Copy \/ InsertNext \/ Insert

Work == Lookup \/ ResolveFails \/ Resolve \/ Reserve \/ Rehash \/ Insertion

Next ==
  \/ CallWithNothing
  \/ \E p \in Path : Call(p)
  \/ Work
  \/ \E d \in Dir : ChangeDirectory(d)
  \/ Destroy

\* A call runs on the scan's own thread and is not suspended half way.
Fairness == WF_vars(Work)

Spec == Init /\ [][Next]_vars
FairSpec == Spec /\ Fairness

-----------------------------------------------------------------------------
(* Properties.                                                             *)

Occupied(t) == {s \in DOMAIN t : t[s].path # NoPath}
Stored(t)   == {t[s].path : s \in Occupied(t)}
Verdicts(t) == {<<t[s].path, t[s].admitted>> : s \in Occupied(t)}

\* The slots a probe for home passes on its way to s.
Passed(home, s, cap) ==
  {k \in 0 .. cap - 1 : IF home <= s THEN home <= k /\ k < s
                                     ELSE home <= k \/ k < s}

\* Every entry can be reached from its home slot without meeting a free one.
ProbesReach(t, cap) ==
  \A s \in Occupied(t) :
    \A k \in Passed(Home(t[s].path, cap), s, cap) : t[k].path # NoPath

\* Two slots never hold the same path.
NoDuplicates(t) ==
  \A s, u \in Occupied(t) : t[s].path = t[u].path => s = u

TypeOK ==
  /\ cwd \in Dir
  /\ capacity \in Nat
  /\ table \in [0 .. capacity - 1 -> Entry]
  /\ count \in Nat
  /\ err \in BOOLEAN
  /\ pc \in {"idle", "lookup", "resolve", "reserve", "rehash", "place", "copy",
             "insert", "destroyed"}
  /\ request \in Path \cup {NoPath}
  /\ slot \in Nat
  /\ admitted \in BOOLEAN
  /\ newCapacity \in Nat
  /\ newTable \in [0 .. newCapacity - 1 -> Entry]
  /\ index \in Nat
  /\ answer \in BOOLEAN

(* Every slot the code reads or writes lies inside the table it indexes,   *)
(* and no slot is computed from a table that does not exist yet.           *)
InBounds ==
  /\ pc \in {"lookup", "insert"} => slot < capacity
  /\ pc = "place" => slot < newCapacity /\ index < capacity
  /\ pc = "rehash" => index <= capacity /\ newCapacity > 0
  /\ pc = "copy" => capacity > 0

(* The table a lookup reads is always complete: linear probing reaches     *)
(* every entry and no path is stored twice, before, during and after the   *)
(* rehash of path_admission_cache_reserve.                                 *)
TableSound == ProbesReach(table, capacity) /\ NoDuplicates(table)

(* path_is_admitted calls realpath only for a path it has no verdict on:   *)
(* the lookup never misses an entry that is in the table.                  *)
ResolvesOnlyNewPaths ==
  pc \in {"resolve", "reserve", "rehash", "place", "copy", "insert"}
    => request \notin Stored(table)

(* Every probe loop has a free slot to stop at: neither the table nor the  *)
(* one a rehash fills is ever full.                                        *)
FreeSlotRemains ==
  /\ capacity > 0 => \E s \in DOMAIN table : table[s].path = NoPath
  /\ newCapacity > 0 => \E s \in DOMAIN newTable : newTable[s].path = NoPath

(* What a loop has established by the slot it stands at: the slots it      *)
(* passed are occupied and, during a lookup, none holds the request.       *)
ProbesSoFar ==
  /\ pc = "lookup" =>
       \A k \in Passed(Home(request, capacity), slot, capacity) :
          table[k].path \notin {request, NoPath}
  /\ pc = "insert" =>
       \A k \in Passed(Home(request, capacity), slot, capacity) :
          table[k].path # NoPath
  /\ pc = "place" =>
       \A k \in Passed(Home(table[index].path, newCapacity), slot, newCapacity) :
          newTable[k].path # NoPath

(* A rehash in progress has moved exactly the entries below index.         *)
Moved == {s \in Occupied(table) : s < index}
RehashSoFar ==
  pc \in {"rehash", "place"} =>
    /\ Verdicts(newTable) = {<<table[s].path, table[s].admitted>> : s \in Moved}
    /\ ProbesReach(newTable, newCapacity)
    /\ NoDuplicates(newTable)

(* The count is exact and the load stays under three quarters, with room   *)
(* for one entry more once the reserve has succeeded; a rehash carries     *)
(* over one entry for each it has moved.                                   *)
LoadFactor ==
  /\ count = Cardinality(Occupied(table))
  /\ capacity = 0 \/ (capacity >= 2 /\ HasRoom(count, capacity))
  /\ pc \in {"copy", "insert"} => HasRoom(count + 1, capacity)
  /\ pc \in {"rehash", "place"} =>
       /\ newCapacity >= 2
       /\ HasRoom(count + 1, newCapacity)
       /\ Cardinality(Occupied(newTable)) = Cardinality(Moved)
  /\ pc \notin {"rehash", "place"} => newCapacity = 0

\* What Resolve decided is still true of the request when it is stored.
VerdictInHand ==
  pc \in {"reserve", "rehash", "place", "copy", "insert"} =>
    Resolves(request, cwd) /\ admitted = Verdict(request, cwd)

InCall == pc \notin {"idle", "destroyed"} => request \in Path
AtEntry == pc = "place" => table[index].path # NoPath

IInv ==
  /\ TypeOK /\ InBounds /\ InCall /\ AtEntry
  /\ TableSound /\ ResolvesOnlyNewPaths
  /\ ProbesSoFar /\ RehashSoFar

(* A verdict, once recorded, is neither lost nor changed while the session *)
(* lasts, whatever the table does to its slots.                            *)
VerdictsKept == [][pc' # "destroyed" => Verdicts(table) \subseteq Verdicts(table')]_vars

(* The cache implements the memo: the table's entries are the memo, and a  *)
(* call is one question to it.                                             *)
Memo == INSTANCE AdmissionMemo WITH
  memo  <- Verdicts(table),
  asked <- IF pc \in {"idle", "destroyed"} THEN NoPath ELSE request
ImplementsMemo == Memo!Spec

(* Every call of path_is_admitted returns.                                 *)
CallsReturn == (pc \notin {"idle", "destroyed"}) ~> (pc = "idle")

(* "An include is local when it resolves under an admitted root"           *)
(* (include/p101_c_facts/analysis.h): what a call that raises no error     *)
(* returns for a path is the verdict on the file the path names now.       *)
Returns == pc \notin {"idle", "destroyed"} /\ pc' = "idle"
AnswerIsCurrent == [][Returns /\ ~ err' => answer' = Verdict(request, cwd)]_vars

=============================================================================
