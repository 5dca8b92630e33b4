---------------------------- MODULE StaffRoster ----------------------------
(***************************************************************************)
(* The roster: the people of the firm, the spellings they are known by and *)
(* the reviewers of the teams.  A spelling is recorded once, for one       *)
(* person, and never deleted; it may be retired and restored.  Spellings   *)
(* that normalise alike are one name to every search, so no two people may *)
(* have them at the same time, and the names move: they are given, taken   *)
(* by a renaming, retired, restored, each from a page of its own.          *)
(*                                                                         *)
(* The gateways run one after the other (lock_staff_roster is a row that   *)
(* each of them writes), so each is one step.  The statements of a         *)
(* renaming are kept apart, because the guard on aliases sees the tables   *)
(* between them.  Accounts, the acting Administrator's session and its     *)
(* last-Administrator rule are the module Accounts.                        *)
(***************************************************************************)
EXTENDS Integers, FiniteSets

CONSTANTS Person, Team, Spelling, Form, None,
          Norm,       \* ar_normalise: what searches compare
          Text,       \* Latin name, address and team, as a whole
          Imported,   \* the spellings of the import
          FirstPeople, FirstAliases, FirstReviewers  \* the tables at the start

ASSUME NoneAssumption == None \notin Person

PersonRow == [name : Spelling, active : BOOLEAN, trainee : BOOLEAN, text : Text, version : Nat \ {0}]
AliasRow  == [person : Person, primary : BOOLEAN, retired : BOOLEAN]

ASSUME RowsAssumption == None \notin PersonRow \cup AliasRow

(* The roster at the start: everybody has the name as the primary alias,   *)
(* no name has two people, and reviewers are active and no trainees.       *)
ASSUME FirstAssumption ==
    /\ FirstPeople \in [Person -> PersonRow \cup {None}]
    /\ FirstAliases \in [Spelling -> AliasRow \cup {None}]
    /\ FirstReviewers \in [Team -> Person]
    /\ \A s \in Spelling : FirstAliases[s] # None =>
          /\ FirstPeople[FirstAliases[s].person] # None
          /\ FirstAliases[s].primary =>
               ~FirstAliases[s].retired /\ FirstPeople[FirstAliases[s].person].name = s
    /\ \A p \in Person : FirstPeople[p] # None =>
          LET a == FirstAliases[FirstPeople[p].name]
          IN  a # None /\ a.person = p /\ a.primary
    /\ \A s, a \in Spelling :
          /\ FirstAliases[s] # None /\ FirstAliases[a] # None
          /\ ~FirstAliases[s].retired /\ ~FirstAliases[a].retired /\ Norm[s] = Norm[a]
          => FirstAliases[s].person = FirstAliases[a].person
    /\ \A t \in Team : LET r == FirstPeople[FirstReviewers[t]]
                       IN  r # None /\ r.active /\ ~r.trainee

VARIABLES
    people,     \* people, None for an identity not handed out yet
    alias,      \* person_name_alias by its unique spelling, None for no row
    team,       \* lookup_team: the reviewer and the version
    form        \* the management pages open in browsers

vars == <<people, alias, team, form>>

Known(p) == people[p] # None
Recorded(s) == alias[s] # None
InUse(s) == Recorded(s) /\ ~alias[s].retired

(* What a page displayed: the person with the aliases, and the teams.      *)
Page == [person : Person, row : PersonRow, aliases : SUBSET Spelling,
         team : [Team -> [reviewer : Person, version : Nat]]]
Unused == [status |-> "unused"]
Closed == [status |-> "closed"]
Open(f) == form[f] \notin {Unused, Closed}

TypeOK ==
    /\ people \in [Person -> PersonRow \cup {None}]
    /\ alias \in [Spelling -> AliasRow \cup {None}]
    /\ team \in [Team -> [reviewer : Person, version : Nat]]
    /\ form = [f \in Form |-> form[f]]
    /\ \A f \in Form : form[f] \in Page \cup {Unused, Closed}

(* The active spellings of a person.                                       *)
NamesOf(p) == {s \in Spelling : InUse(s) /\ alias[s].person = p}

Init ==
    /\ people = FirstPeople
    /\ alias = FirstAliases
    /\ team = [t \in Team |-> [reviewer |-> FirstReviewers[t], version |-> 1]]
    /\ form = [f \in Form |-> Unused]

-----------------------------------------------------------------------------
OpenForm(f) ==
    \E p \in Person :
       /\ form[f] = Unused /\ Known(p)
       /\ form' = [form EXCEPT ![f] = [person |-> p, row |-> people[p],
                                       aliases |-> NamesOf(p), team |-> team]]
       /\ UNCHANGED <<people, alias, team>>

(* A mutant: the page is not compared with the row.                        *)
AnyVersion(q) == TRUE

Fresh(q) == people[q.person].version = q.row.version

(* A mutant: names are compared as they are spelt.                         *)
TakenAsSpelt(s, p, rows, names) ==
    \E r \in Person \ {p} : names[r] # None /\ names[r].name = s

(* Another person has a name or an active alias that normalises alike.     *)
Taken(s, p, rows, names) ==
    \/ \E r \in Person \ {p} : names[r] # None /\ Norm[names[r].name] = Norm[s]
    \/ \E a \in Spelling : /\ rows[a] # None /\ ~rows[a].retired
                           /\ rows[a].person # p /\ Norm[a] = Norm[s]

(* A mutant: a reviewer may leave or become a trainee.                     *)
AnyPerson(p, new) == TRUE

(* Replace every assigned reviewer before changing reviewer eligibility.   *)
KeepsReviewing(p, new) ==
    (\E t \in Team : team[t].reviewer = p) => new.active /\ ~new.trainee

(* A person's row with the versions its own and its aliases' statements add.*)
Save(f, new, statements) ==
    /\ KeepsReviewing(form[f].person, new)
    /\ people' = [people EXCEPT ![form[f].person] = [new EXCEPT !.version = @ + statements]]

Close(f) == form' = [form EXCEPT ![f] = Closed]

(* Inserting the primary alias advances the version to 2.                  *)
NewPerson(s, trainee, text) ==
    [name |-> s, active |-> TRUE, trainee |-> trainee, text |-> text, version |-> 2]

Create(f) ==
    \E p \in Person, s \in Spelling, trainee \in BOOLEAN, text \in Text :
       /\ form[f] = Unused /\ ~Known(p)
       /\ ~Recorded(s) /\ ~Taken(s, p, alias, people)
       /\ people' = [people EXCEPT ![p] = NewPerson(s, trainee, text)]
       /\ alias' = [alias EXCEPT ![s] = [person |-> p, primary |-> TRUE, retired |-> FALSE]]
       /\ Close(f) /\ UNCHANGED team

(* The fields of the page; the lifecycle has a page of its own.            *)
Update(f) ==
    \E trainee \in BOOLEAN, text \in Text :
       LET old == people[form[f].person]
           new == [old EXCEPT !.trainee = trainee, !.text = text]
       IN  /\ Open(f) /\ Fresh(form[f])
           /\ Save(f, new, IF new = old THEN 0 ELSE 1)
           /\ Close(f) /\ UNCHANGED <<alias, team>>

SetActive(f) ==
    LET p == form[f].person
    IN  /\ Open(f) /\ Fresh(form[f])
        /\ Save(f, [people[p] EXCEPT !.active = ~@], 1)
        /\ Close(f) /\ UNCHANGED <<alias, team>>

(* A mutant: a renaming leaves the former name the primary alias.          *)
NotDemoted(p) == alias

(* The second statement of a renaming; the first one is people.name_ar.    *)
Demoted(p) ==
    [a \in Spelling |-> IF Recorded(a) /\ alias[a].person = p /\ alias[a].primary
                        THEN [alias[a] EXCEPT !.primary = FALSE] ELSE alias[a]]

(* The spelling is free, or an active alias of this very person.           *)
Renamable(p, s) == Recorded(s) => alias[s].person = p /\ ~alias[s].retired

Rename(f) ==
    \E s \in Spelling :
       LET p == form[f].person
           named == [people EXCEPT ![p].name = s]
       IN  /\ Open(f) /\ Fresh(form[f]) /\ people[p].name # s
           /\ Renamable(p, s)
           /\ ~Taken(s, p, alias, people)
           /\ ~Taken(people[p].name, p, alias, named)
           /\ ~Taken(s, p, Demoted(p), named)
           /\ Save(f, named[p], 3)
           /\ alias' = [Demoted(p) EXCEPT ![s] = [person |-> p, primary |-> TRUE, retired |-> FALSE]]
           /\ Close(f) /\ UNCHANGED team

AddAlias(f) ==
    \E s \in Spelling :
       LET p == form[f].person
       IN  /\ Open(f) /\ Fresh(form[f])
           /\ ~Recorded(s) /\ ~Taken(s, p, alias, people)
           /\ Save(f, people[p], 1)
           /\ alias' = [alias EXCEPT ![s] = [person |-> p, primary |-> FALSE, retired |-> FALSE]]
           /\ Close(f) /\ UNCHANGED team

(* An application-created non-primary alias of this person.                *)
MayRetire(p, s) ==
    Recorded(s) /\ alias[s].person = p /\ ~alias[s].primary /\ s \notin Imported

RetireAlias(f) ==
    \E s \in Spelling :
       LET p == form[f].person
       IN  /\ Open(f) /\ Fresh(form[f])
           /\ MayRetire(p, s) /\ ~alias[s].retired
           /\ Save(f, people[p], 1)
           /\ alias' = [alias EXCEPT ![s].retired = TRUE]
           /\ Close(f) /\ UNCHANGED team

(* A mutant: an alias comes back without a look at who has its name now.   *)
AlwaysRestorable(p, s) == TRUE

(* While it was retired another person may have taken the name.            *)
Restorable(p, s) == ~Taken(s, p, alias, people)

RestoreAlias(f) ==
    \E s \in Spelling :
       LET p == form[f].person
       IN  /\ Open(f) /\ Fresh(form[f])
           /\ MayRetire(p, s) /\ alias[s].retired /\ Restorable(p, s)
           /\ Save(f, people[p], 1)
           /\ alias' = [alias EXCEPT ![s].retired = FALSE]
           /\ Close(f) /\ UNCHANGED team

EligibleReviewer(r) == Known(r) /\ people[r].active /\ ~people[r].trainee

(* The page shows a person; it sends that version and the team's.          *)
SetReviewer(f) ==
    \E t \in Team, r \in Person :
       LET q == form[f]
       IN  /\ Open(f) /\ Fresh(q) /\ team[t].version = q.team[t].version
           /\ EligibleReviewer(r) /\ team[t].reviewer # r
           /\ team' = [team EXCEPT ![t] = [reviewer |-> r, version |-> @.version + 1]]
           /\ Close(f) /\ UNCHANGED <<people, alias>>

(* A refusal, or nothing to change.                                        *)
Leave(f) == Open(f) /\ Close(f) /\ UNCHANGED <<people, alias, team>>

Next ==
    \E f \in Form :
       \/ OpenForm(f) \/ Create(f) \/ Update(f) \/ SetActive(f) \/ Rename(f) \/ AddAlias(f)
       \/ RetireAlias(f) \/ RestoreAlias(f) \/ SetReviewer(f) \/ Leave(f)

Spec == Init /\ [][Next]_vars
-----------------------------------------------------------------------------
(* Whoever is searched for by a name is one person: no two people have     *)
(* active spellings that normalise alike, after any sequence of renaming,  *)
(* retiring, giving the name away and trying to take it back (D43).        *)
NamesBelongToOnePerson ==
    \A s, a \in Spelling :
       InUse(s) /\ InUse(a) /\ Norm[s] = Norm[a] => alias[s].person = alias[a].person

(* Everybody has exactly one primary alias, which is active and spelt as   *)
(* the name (staff_primary_constraint, checked at the end of transactions).*)
OnePrimaryEach ==
    \A p \in Person :
       {s \in NamesOf(p) : alias[s].primary} = IF Known(p) THEN {people[p].name} ELSE {}

(* Names lead to people and people have names, after any sequence of pages.*)
NamesSound == NamesBelongToOnePerson /\ OnePrimaryEach

(* A spelling once recorded stays with its person, and an imported one or  *)
(* the primary one is never retired: what explains old records is kept.    *)
SpellingsAreKept ==
    [][\A s \in Spelling : Recorded(s) =>
          /\ Recorded(s)' /\ alias'[s].person = alias[s].person
          /\ alias'[s].retired /\ ~alias[s].retired => s \notin Imported /\ ~alias[s].primary]_vars

(* The reviewer of a team is active and no trainee, whatever happens to    *)
(* the person after the choice and to the choice after the page.           *)
ReviewersAreEligible == \A t \in Team : EligibleReviewer(team[t].reviewer)

(* What is changed is what the page displayed: a person, with the aliases, *)
(* is not changed on top of a change that the page did not show, although  *)
(* aliases have no version of their own.                                   *)
NoLostUpdate ==
    [][\A f \in Form : Open(f) /\ <<people, alias>>' # <<people, alias>> /\ form'[f] # form[f] =>
          LET q == form[f] IN people[q.person] = q.row /\ NamesOf(q.person) = q.aliases]_vars
=============================================================================
