---------------------------- MODULE UnitContract ----------------------------
(***************************************************************************)
(* What the observer of a scan, and the scan itself, may rely on within    *)
(* one translation unit.  A unit has places, numbered in the order in      *)
(* which they come up: its diagnostics, its files, its cursors.  An error  *)
(* raised at one place may go unnoticed until the next record is handed    *)
(* over, but that record stops the unit, and so does one that is refused:  *)
(* no place is taken up once the unit is stopped, and only the place at    *)
(* hand may go on reporting.  Nothing else stops it but an error.  True    *)
(* means that every place that owes a record has reported it, and false    *)
(* that something has gone wrong.                                          *)
(***************************************************************************)
EXTENDS Naturals

VARIABLES
  owed,    \* the places that owe a record; fixed
  heard,   \* the places whose own record the observer has been given
  place,   \* the place at hand
  stopped, \* whether the unit is stopped
  err,     \* whether the error object holds an error
  result   \* "none" while the unit lasts, then "true" or "false"

vars == <<owed, heard, place, stopped, err, result>>

Init ==
  /\ heard = {}
  /\ place = 0
  /\ stopped = FALSE
  /\ err = FALSE
  /\ result = "none"

TakeUp ==
  /\ result = "none"
  /\ ~ stopped
  /\ place' > place
  /\ UNCHANGED <<owed, heard, stopped, err, result>>

\* A record, the place's own one or another.  The observer is given it even
\* while an error is pending, and may accept it, refuse it or raise an error.
Report(outcome) ==
  /\ result = "none"
  /\ heard' \in {heard, heard \cup {place}}
  /\ err' = (err \/ outcome = "raise")
  /\ stopped' = (stopped \/ outcome = "refuse" \/ err')
  /\ UNCHANGED <<owed, place, result>>

Fail ==
  /\ result = "none"
  /\ err' = TRUE
  /\ stopped' \in {stopped, TRUE}
  /\ UNCHANGED <<owed, heard, place, result>>

Succeed ==
  /\ result = "none"
  /\ ~ stopped /\ ~ err
  /\ owed \subseteq heard
  /\ result' = "true"
  /\ UNCHANGED <<owed, heard, place, stopped, err>>

GiveUp ==
  /\ result = "none"
  /\ stopped \/ err
  /\ result' = "false"
  /\ UNCHANGED <<owed, heard, place, stopped, err>>

Outcome == {"continue", "refuse", "raise"}

Next ==
  \/ TakeUp \/ Fail \/ Succeed \/ GiveUp
  \/ \E outcome \in Outcome : Report(outcome)

Spec == Init /\ [][Next]_vars

=============================================================================
