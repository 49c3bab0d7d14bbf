----------------------------- MODULE ScanOfUnits -----------------------------
(***************************************************************************)
(* A scan and the units it visits: ScanDriver, whose visits are those of   *)
(* UnitContract.  The two share stopped, which is a field of the scan      *)
(* context, and the error object; a record, an error and the end of a      *)
(* visit are steps of both.  RecordStream shows that the visitor keeps the *)
(* contract of a unit, and here is what the caller of the scan has of it.  *)
(***************************************************************************)
EXTENDS ScanDriver

CONSTANT MaxPlaces  \* bound: places of one translation unit

ASSUME PlacesAssumption == MaxPlaces \in Nat

VARIABLES
  owed,    \* the places of the current unit that owe the observer a record
  heard,   \* those whose record it has been given
  place,   \* the place at hand
  result,  \* what the visit returned, "none" before it does
  told     \* the files of which nothing is owed to the observer any more

Unit == INSTANCE UnitContract

unitState == <<owed, heard, place, result>>
scanVars == <<vars, unitState, told>>

ScanInit ==
  /\ Init
  /\ owed = {} /\ heard = {} /\ place = 0 /\ result = "none"
  /\ told = {}

\* What the unit owes is decided by the source and the caller's options.
StartUnit ==
  /\ Parse
  /\ owed' \in SUBSET (1 .. MaxPlaces)
  /\ heard' = {} /\ place' = 0 /\ result' = "none"
  /\ UNCHANGED told

\* A unit that clang cannot parse owes nothing if the caller said to go on.
UnparsedUnit(outcome) ==
  /\ ParseFails(outcome)
  /\ told' = IF options.keepGoing THEN told \cup {unit.file} ELSE told
  /\ UNCHANGED unitState

TakePlace ==
  /\ pc = "visit"
  /\ place' \in 1 .. MaxPlaces
  /\ Unit!TakeUp
  /\ UNCHANGED <<vars, told>>

ReportRecord(outcome) == Record(outcome) /\ Unit!Report(outcome) /\ UNCHANGED told

FailInUnit == VisitFails /\ Unit!Fail /\ UNCHANGED told

EndUnit ==
  /\ VisitDone
  /\ Unit!Succeed \/ Unit!GiveUp
  /\ told' = IF owed \subseteq heard THEN told \cup {unit.file} ELSE told \ {unit.file}

\* The scan context of the unit is gone.
LeaveUnit ==
  /\ Leave
  /\ owed' = {} /\ heard' = {} /\ place' = 0 /\ result' = "none"
  /\ UNCHANGED told

UnitStep ==
  \/ StartUnit \/ TakePlace \/ FailInUnit \/ EndUnit \/ LeaveUnit
  \/ \E outcome \in Outcome : UnparsedUnit(outcome) \/ ReportRecord(outcome)

\* The rest of the scan, between the visits.
DriverStep ==
  /\ \/ BeginFails \/ Begin \/ Return
     \/ DatabaseFails \/ LoadDatabase
     \/ WalkPaths \/ WalkCommands \/ WalkDirectory
     \/ SourceFails \/ Enter \/ LeaveFailedParse
  /\ UNCHANGED <<unitState, told>>

ScanStep == UnitStep \/ DriverStep
ScanNext == ScanStep \/ (Done /\ UNCHANGED <<unitState, told>>)

\* That visits come to an end is taken from the visitor, which goes once
\* through a finite tree.
ScanSpec == ScanInit /\ [][ScanNext]_scanVars /\ WF_scanVars(ScanStep)

-----------------------------------------------------------------------------
(* Properties.                                                             *)

(* The scan keeps the contract of ScanContract: nothing is parsed once it  *)
(* has failed; true means that every wanted file was parsed, and that each *)
(* place in it that owes a record has handed it over, whatever happened in *)
(* the units before; false has a cause.                                    *)
Contract == INSTANCE ScanContract WITH
  wanted <- Wanted, failed <- Failed, done <- pc = "done"
KeepsContract == Contract!Spec

(* The scan comes to an end.                                               *)
Terminates == <>(pc = "done")

=============================================================================
