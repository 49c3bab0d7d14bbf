---------------------------- MODULE AdmissionMemo ----------------------------
(***************************************************************************)
(* What the admission cache promises, with no table in sight: a question   *)
(* already answered is answered the same way again, a new one is resolved  *)
(* where the process stands, and a question that could not be resolved or  *)
(* stored is refused and leaves nothing behind.                            *)
(***************************************************************************)
EXTENDS AdmissionRules

VARIABLES
  cwd,      \* the process's working directory
  memo,     \* the set of <<path, verdict>> pairs recorded so far
  asked,    \* the path being decided, or NoPath
  answer    \* what the last question returned

vars == <<cwd, memo, asked, answer>>

Recorded == {pair[1] : pair \in memo}

Init ==
  /\ cwd \in Dir
  /\ memo = {}
  /\ asked = NoPath
  /\ answer = FALSE

Ask(p) ==
  /\ asked = NoPath
  /\ asked' = p
  /\ answer' = FALSE
  /\ UNCHANGED <<cwd, memo>>

AskNothing ==
  /\ asked = NoPath
  /\ answer' = FALSE
  /\ UNCHANGED <<cwd, memo, asked>>

Recall ==
  /\ asked \in Recorded
  /\ <<asked, answer'>> \in memo
  /\ asked' = NoPath
  /\ UNCHANGED <<cwd, memo>>

Decide ==
  /\ asked # NoPath
  /\ asked \notin Recorded
  /\ Resolves(asked, cwd)
  /\ memo' = memo \cup {<<asked, Verdict(asked, cwd)>>}
  /\ answer' = Verdict(asked, cwd)
  /\ asked' = NoPath
  /\ UNCHANGED cwd

Refuse ==
  /\ asked # NoPath
  /\ asked \notin Recorded
  /\ asked' = NoPath
  /\ answer' = FALSE
  /\ UNCHANGED <<cwd, memo>>

Forget ==
  /\ asked = NoPath
  /\ memo' = {}
  /\ UNCHANGED <<cwd, asked, answer>>

ChangeDirectory(d) ==
  /\ asked = NoPath
  /\ cwd' = d
  /\ UNCHANGED <<memo, asked, answer>>

Next ==
  \/ \E p \in Path : Ask(p)
  \/ AskNothing
  \/ Recall
  \/ Decide
  \/ Refuse
  \/ Forget
  \/ \E d \in Dir : ChangeDirectory(d)

Spec == Init /\ [][Next]_vars

=============================================================================
