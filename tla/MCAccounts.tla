----------------------------- MODULE MCAccounts -----------------------------
(* Two people.  From Init the first person has the only seeded account, an *)
(* Administrator's, without a password: everything else has to be reached  *)
(* by initialising it, signing in and managing the second person.          *)
EXTENDS Accounts, FiniteSets, TLC

CONSTANTS p1, p2, w1, w2, MaxSessions

MCPerson == {p1, p2}
MCRoles == {"Administrator", "Lawyer"}
MCInitialRole == [p \in {p1} |-> "Administrator"]

(* Cookies do not influence each other: a few at once are enough.          *)
SessionBound == Cardinality(sessions) <= MaxSessions

(* The state after p1 replaced the initial password, created the account   *)
(* of p2 as a second Administrator and p2 replaced the temporary password; *)
(* everybody signed out again.                                             *)
TwoAdministrators ==
    /\ account = (p1 :> [exists |-> TRUE, role |-> "Administrator", enabled |-> TRUE,
                         password |-> 3, mustChange |-> FALSE, failures |-> 0,
                         lock |-> "open", version |-> 2]
                  @@ p2 :> [exists |-> TRUE, role |-> "Administrator", enabled |-> TRUE,
                            password |-> 2, mustChange |-> FALSE, failures |-> 0,
                            lock |-> "open", version |-> 1])
    /\ person = (p1 :> [active |-> TRUE, canLogin |-> TRUE, rowVersion |-> 1]
                 @@ p2 :> [active |-> TRUE, canLogin |-> TRUE, rowVersion |-> 2])
    /\ sessions = {}
    /\ work = [w \in Worker |-> Idle]

RacesSpec == TwoAdministrators /\ [][Next]_vars

(* In the races nobody mistypes a password, and each row is written once   *)
(* more by whatever wins, a later write finding the loser's form stale;    *)
(* p1 may be deactivated and reactivated.                                  *)
RacesBound ==
    /\ SessionBound
    /\ \A p \in Person : account[p].lock = "open"
    /\ account[p1].version <= 3 /\ person[p1].rowVersion <= 3
    /\ account[p2].version <= 2 /\ person[p2].rowVersion <= 3

WorkerSymmetry == Permutations(Worker)
=============================================================================
