---------------------------- MODULE ScanContract ----------------------------
(***************************************************************************)
(* What a caller of p101_c_analysis_scan may rely on, whatever it asked    *)
(* for and whatever goes wrong: no file is parsed after the scan has       *)
(* failed, true means that the observer was told all of every wanted file  *)
(* and nothing failed, and false means that something did.                 *)
(***************************************************************************)
VARIABLES
  wanted,     \* the files the scan has to parse; fixed
  attempted,  \* the files parsed so far
  told,       \* those of which nothing is owed to the observer any more
  failed,     \* whether something has gone wrong
  done,       \* whether the scan has returned
  returned    \* and what

vars == <<wanted, attempted, told, failed, done, returned>>

Init ==
  /\ attempted = {}
  /\ told = {}
  /\ failed = FALSE
  /\ done = FALSE
  /\ returned = FALSE

\* A file is handed to the parser.  One that cannot be parsed has nothing to
\* tell if the caller wants the scan to go on.
Attempt ==
  /\ ~ done /\ ~ failed
  /\ \E file \in wanted :
       /\ attempted' = attempted \cup {file}
       /\ told' \in {told, told \cup {file}}
  /\ failed' \in BOOLEAN
  /\ UNCHANGED <<wanted, done, returned>>

\* A file that was parsed has been told of, or not of all of it.
Tell ==
  /\ ~ done
  /\ \E file \in attempted :
       \/ told' = told \cup {file}
       \/ failed /\ told' = told \ {file}
  /\ UNCHANGED <<wanted, attempted, failed, done, returned>>

Fail ==
  /\ ~ done
  /\ failed' = TRUE
  /\ UNCHANGED <<wanted, attempted, told, done, returned>>

Succeed ==
  /\ ~ done /\ ~ failed
  /\ wanted \subseteq told
  /\ done' = TRUE
  /\ returned' = TRUE
  /\ UNCHANGED <<wanted, attempted, told, failed>>

GiveUp ==
  /\ ~ done /\ failed
  /\ done' = TRUE
  /\ returned' = FALSE
  /\ UNCHANGED <<wanted, attempted, told, failed>>

Next == Attempt \/ Tell \/ Fail \/ Succeed \/ GiveUp

Spec == Init /\ [][Next]_vars

=============================================================================
