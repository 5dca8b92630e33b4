--------------------------- MODULE MCStaffRoster ---------------------------
(* Two people and an identity for a third.  The import left the name of    *)
(* each and a second spelling of the first; two more spellings are free,   *)
(* and the free ones normalise like one another.                           *)
EXTENDS StaffRoster, TLC

CONSTANTS ana, ben, cem, anaName, anaOther, benName, free, freeAlike, plain

P(name) == [name |-> name, active |-> TRUE, trainee |-> FALSE, text |-> plain, version |-> 1]
A(p, primary) == [person |-> p, primary |-> primary, retired |-> FALSE]

MCPeople == (ana :> P(anaName)) @@ (ben :> P(benName)) @@ (cem :> None)
MCAliases == (anaName :> A(ana, TRUE)) @@ (anaOther :> A(ana, FALSE)) @@ (benName :> A(ben, TRUE))
             @@ (free :> None) @@ (freeAlike :> None)
MCNorm == (anaName :> 1) @@ (anaOther :> 2) @@ (benName :> 3) @@ (free :> 4) @@ (freeAlike :> 4)
MCReviewers == [t \in Team |-> ana]

MCForms == Permutations(Form)
=============================================================================
