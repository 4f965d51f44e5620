----------------------------- MODULE MCAccounts -----------------------------
(* Model-checking instance of the accounts service's people: their teams,     *)
(* their machines and the analysis they consent to, side by side, one of them *)
(* per behaviour.  They share model values (three people are also three       *)
(* logins and three codes, two requests are also two browsers), so that one   *)
(* symmetry group serves them all.                                            *)
EXTENDS Organizations, Devices, Assessments, TLC

CONSTANTS a, b, c, t1, t2, r1, r2, i1, i2

Symmetric == Permutations(Person) \cup Permutations(Team) \cup Permutations(Request)

VARIABLE part

ASSUME TeamsAssumption /\ DevicesAssumption /\ AnalysisAssumption

Init ==
  /\ part \in {"teams", "moves", "machines", "analysis"}
  /\ TeamsInit /\ DevicesInit /\ AnalysisInit

\* Every route with one invitation in all; and two invitations with the routes that move people.
OneInvitation == invite'[i2] = NoInvite /\ \A r \in Request : req'[r].inv # i2
OnlyMoves == \A r \in Request : req'[r].op \in {"none", "create", "join"}

Next ==
  \/ part = "teams" /\ TeamsNext /\ OneInvitation /\ UNCHANGED <<part, deviceVars, analysisVars>>
  \/ part = "moves" /\ TeamsNext /\ OnlyMoves /\ UNCHANGED <<part, deviceVars, analysisVars>>
  \/ part = "machines" /\ DevicesNext /\ UNCHANGED <<part, teamsVars, analysisVars>>
  \/ part = "analysis" /\ AnalysisNext /\ UNCHANGED <<part, teamsVars, deviceVars>>

Spec == Init /\ [][Next]_<<part, teamsVars, deviceVars, analysisVars>>
=============================================================================
