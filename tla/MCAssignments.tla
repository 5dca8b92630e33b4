---------------------------- MODULE MCAssignments ----------------------------
(* Three members of staff.  The matter has a lead and a supporting lawyer, *)
(* the hearing names one attendee twice, the work has one assignee.        *)
EXTENDS Assignments, TLC

CONSTANTS ana, ben, cem, matter, hearing, work

R(id, p, lead, place) ==
    [id |-> <<0, id>>, person |-> p, retired |-> FALSE, lead |-> lead, place |-> place]

MCImported ==
    (matter  :> {R(1, ana, TRUE, 0), R(2, ben, FALSE, 0)}) @@
    (hearing :> {R(1, ana, FALSE, 1), R(2, ana, FALSE, 2), R(3, ben, FALSE, 3)}) @@
    (work    :> {R(1, ana, FALSE, 1)})

MCForms == Permutations(Form)
=============================================================================
