------------------------- MODULE StaffRosterProofs -------------------------
(* Names stay unique, everybody keeps one primary alias, reviewers stay    *)
(* eligible and no page overwrites what it did not show, for any people,   *)
(* spellings, teams and pages and any normalisation of names.              *)
EXTENDS StaffRoster, TLAPS

USE NoneAssumption, RowsAssumption

(* The name of a person is the primary alias and the other way around.     *)
NamesTied ==
    /\ \A s \in Spelling : Recorded(s) =>
          /\ Known(alias[s].person)
          /\ alias[s].primary => ~alias[s].retired /\ people[alias[s].person].name = s
    /\ \A p \in Person : Known(p) =>
          /\ Recorded(people[p].name)
          /\ alias[people[p].name].person = p /\ alias[people[p].name].primary

(* A page that was not overtaken displays the person and the aliases as    *)
(* they are.                                                               *)
FormSound(q) ==
    /\ Known(q.person)
    /\ people[q.person].version >= q.row.version
    /\ people[q.person].version = q.row.version =>
         people[q.person] = q.row /\ NamesOf(q.person) = q.aliases

FormsSound == \A f \in Form : Open(f) => FormSound(form[f])

IInv == TypeOK /\ NamesTied /\ NamesBelongToOnePerson /\ ReviewersAreEligible /\ FormsSound

(* Only p and the aliases of p are written, and a write shows in p's       *)
(* version.                                                                *)
Writes(p) ==
    /\ people'[p] # None
    /\ \A r \in Person : r # p => people'[r] = people[r]
    /\ \A s \in Spelling : alias'[s] # alias[s] =>
         (Recorded(s) => alias[s].person = p) /\ alias'[s] # None /\ alias'[s].person = p
    /\ Known(p) =>
         \/ people'[p].version > people[p].version
         \/ people'[p] = people[p] /\ alias' = alias

Roster == <<people, alias>>

-----------------------------------------------------------------------------
(* The tables, field by field.                                             *)
LEMMA TableFields ==
    ASSUME TypeOK
    PROVE  /\ \A p \in Person : Known(p) =>
                 /\ people[p] \in PersonRow /\ people[p].name \in Spelling
                 /\ people[p].active \in BOOLEAN /\ people[p].trainee \in BOOLEAN
                 /\ people[p].text \in Text /\ people[p].version \in Nat
           /\ \A s \in Spelling : Recorded(s) =>
                 /\ alias[s] \in AliasRow /\ alias[s].person \in Person
                 /\ alias[s].primary \in BOOLEAN /\ alias[s].retired \in BOOLEAN
  <1>1. \A p \in Person : Known(p) => people[p] \in PersonRow
    BY DEF TypeOK, Known
  <1>2. \A s \in Spelling : Recorded(s) => alias[s] \in AliasRow
    BY DEF TypeOK, Recorded
  <1>3. QED
    BY <1>1, <1>2 DEF PersonRow, AliasRow

(* An open form is the page of somebody on the roster.                     *)
LEMMA PageFields ==
    ASSUME IInv, NEW f \in Form, Open(f)
    PROVE  /\ form[f] \in Page /\ form[f].person \in Person /\ Known(form[f].person)
           /\ form[f].row.version \in Nat
           /\ FormSound(form[f])
  <1>1. form[f] \in Page /\ FormSound(form[f])
    BY DEF IInv, TypeOK, FormsSound, Open
  <1>2. QED
    BY <1>1 DEF Page, PersonRow, FormSound

(* What a gateway saves of a person.                                       *)
LEMMA SaveFacts ==
    ASSUME TypeOK, NEW f \in Form, form[f].person \in Person,
           NEW new \in PersonRow, NEW n \in Nat, Save(f, new, n)
    PROVE  LET p == form[f].person
           IN  /\ people' \in [Person -> PersonRow \cup {None}]
               /\ people'[p] \in PersonRow /\ people'[p] # None
               /\ people'[p].name = new.name /\ people'[p].active = new.active
               /\ people'[p].trainee = new.trainee /\ people'[p].version = new.version + n
               /\ people'[p] = [new EXCEPT !.version = @ + n]
               /\ \A r \in Person : r # p => people'[r] = people[r]
               /\ KeepsReviewing(p, new)
  <1> DEFINE p == form[f].person
             row == [new EXCEPT !.version = @ + n]
  <1>1. /\ row \in PersonRow /\ row.name = new.name /\ row.active = new.active
        /\ row.trainee = new.trainee /\ row.version = new.version + n
    BY DEF PersonRow
  <1>2. people' = [people EXCEPT ![p] = row] /\ KeepsReviewing(p, new)
    BY DEF Save
  <1> HIDE DEF row
  <1>3. people \in [Person -> PersonRow \cup {None}]
    BY DEF TypeOK
  <1>4. people'[p] = row /\ (\A r \in Person : r # p => people'[r] = people[r])
    BY <1>2, <1>3
  <1>5. people' \in [Person -> PersonRow \cup {None}]
    BY <1>1, <1>2, <1>3
  <1>6. QED
    BY <1>1, <1>2, <1>4, <1>5 DEF row

(* A gateway that writes an alias advances the version of its person.      *)
LEMMA SaveSame ==
    ASSUME TypeOK, NEW f \in Form, form[f].person \in Person, Known(form[f].person),
           Save(f, people[form[f].person], 1)
    PROVE  LET p == form[f].person
           IN  /\ people'[p] # None /\ people'[p].name = people[p].name
               /\ people'[p].version = people[p].version + 1
               /\ \A r \in Person : r # p => people'[r] = people[r]
  <1>0. PICK new, n : new = people[form[f].person] /\ n = 1
    OBVIOUS
  <1>1. new \in PersonRow /\ n \in Nat /\ Save(f, new, n)
    BY <1>0, TableFields
  <1>2. LET p == form[f].person
        IN  /\ people'[p] # None /\ people'[p].name = new.name
            /\ people'[p].version = new.version + n
            /\ people'[p] = [new EXCEPT !.version = @ + n]
            /\ \A r \in Person : r # p => people'[r] = people[r]
    BY <1>1, SaveFacts
  <1>3. QED
    BY <1>0, <1>2

(* Closing a page.                                                         *)
LEMMA CloseFacts ==
    ASSUME TypeOK, NEW f \in Form, Close(f)
    PROVE  /\ form' = [g \in Form |-> form'[g]]
           /\ \A g \in Form : form'[g] \in {form[g], Closed}
           /\ \A g \in Form : form'[g] \in Page \cup {Unused, Closed}
           /\ \A g \in Form : Open(g)' => Open(g) /\ form'[g] = form[g]
           /\ \A g \in Form : g # f => form'[g] = form[g]
  BY DEF TypeOK, Close, Open

(* Pages stay sound when one person is written and a page is closed.       *)
LEMMA WritesKeepForms ==
    ASSUME IInv, people' \in [Person -> PersonRow \cup {None}], NEW p \in Person, Writes(p),
           NEW f \in Form, Close(f)
    PROVE  FormsSound'
  <1>1. SUFFICES ASSUME NEW g \in Form, Open(g)' PROVE FormSound(form[g])'
    BY DEF FormsSound
  <1>2. Open(g) /\ form'[g] = form[g] /\ TypeOK
    BY <1>1, CloseFacts DEF IInv
  <1> DEFINE q == form[g]
             r == q.person
  <1>3. r \in Person /\ Known(r) /\ FormSound(q) /\ q.row.version \in Nat
    BY <1>2, PageFields
  <1>4. people[r].version \in Nat /\ people'[r] # None
    BY <1>2, <1>3, TableFields DEF Writes, Known
  <1>5. people'[r] \in PersonRow
    BY <1>3, <1>4
  <1>6. people'[r].version \in Nat
    BY <1>5 DEF PersonRow
  <1>7. CASE r = p /\ people'[p].version > people[p].version
    <2>1. people'[r].version > q.row.version
      BY <1>3, <1>4, <1>6, <1>7 DEF FormSound
    <2>2. QED
      BY <1>2, <1>3, <1>4, <1>6, <2>1 DEF FormSound, Known
  <1>8. CASE r = p /\ people'[p] = people[p] /\ alias' = alias
    BY <1>2, <1>3, <1>8 DEF FormSound, Known, NamesOf, InUse, Recorded
  <1>9. CASE r # p
    <2>1. people'[r] = people[r]
      BY <1>3, <1>9 DEF Writes
    <2>2. ASSUME NEW s \in Spelling
          PROVE  (InUse(s) /\ alias[s].person = r)' <=> (InUse(s) /\ alias[s].person = r)
      <3>1. CASE alias'[s] = alias[s]
        BY <1>2, <3>1 DEF InUse, Recorded
      <3>2. CASE alias'[s] # alias[s]
        BY <1>2, <1>9, <3>2 DEF InUse, Recorded, Writes
      <3>3. QED
        BY <3>1, <3>2
    <2>3. NamesOf(r)' = NamesOf(r)
      BY <2>2, <1>2 DEF NamesOf
    <2>4. QED
      BY <1>2, <1>3, <2>1, <2>3 DEF FormSound, Known
  <1>10. QED
    BY <1>3, <1>7, <1>8, <1>9 DEF Writes

-----------------------------------------------------------------------------
(* Names stay sound when neither names nor aliases are written.            *)
LEMMA SameNames ==
    ASSUME IInv, NEW p \in Person, Known(p), people'[p] # None,
           people'[p].name = people[p].name,
           \A r \in Person : r # p => people'[r] = people[r], alias' = alias
    PROVE  NamesTied' /\ NamesBelongToOnePerson'
  <1>1. /\ TypeOK /\ NamesTied /\ NamesBelongToOnePerson
        /\ \A r \in Person : Known(r)' <=> Known(r)
        /\ \A r \in Person : Known(r) => people'[r].name = people[r].name
    BY DEF IInv, Known
  <1>2. \A s \in Spelling : Recorded(s) => alias[s].person \in Person
    BY <1>1, TableFields
  <1>3. NamesTied'
    BY <1>1, <1>2 DEF NamesTied, Recorded
  <1>4. NamesBelongToOnePerson'
    BY <1>1 DEF NamesBelongToOnePerson, InUse, Recorded
  <1>5. QED
    BY <1>3, <1>4

(* An alias that is no name comes, goes or comes back.                     *)
LEMMA PutAlias ==
    ASSUME IInv, NEW p \in Person, Known(p), people'[p] # None,
           people'[p].name = people[p].name,
           \A r \in Person : r # p => people'[r] = people[r],
           NEW s \in Spelling, NEW row \in AliasRow, ~row.primary, row.person = p,
           alias' = [alias EXCEPT ![s] = row],
           Recorded(s) => alias[s].person = p /\ ~alias[s].primary,
           ~row.retired => ~Taken(s, p, alias, people)
    PROVE  NamesTied' /\ NamesBelongToOnePerson'
  <1>1. /\ TypeOK /\ NamesTied /\ NamesBelongToOnePerson
        /\ \A r \in Person : Known(r)' <=> Known(r)
        /\ \A r \in Person : Known(r) => people'[r].name = people[r].name
    BY DEF IInv, Known
  <1>2. /\ alias'[s] = row /\ row # None
        /\ \A a \in Spelling : a # s => alias'[a] = alias[a]
    BY <1>1 DEF TypeOK
  <1>3. /\ \A a \in Spelling : Recorded(a) => alias[a].person \in Person
        /\ \A r \in Person : Known(r) => people[r].name \in Spelling
    BY <1>1, TableFields
  <1>4. ASSUME NEW a \in Spelling, Recorded(a)'
        PROVE  /\ Known(alias[a].person)'
               /\ alias'[a].primary => ~alias'[a].retired /\ people'[alias'[a].person].name = a
    <2>1. CASE a = s
      BY <1>1, <1>2, <2>1
    <2>2. CASE a # s
      BY <1>1, <1>2, <1>3, <1>4, <2>2 DEF NamesTied, Recorded
    <2>3. QED
      BY <2>1, <2>2
  <1>5. ASSUME NEW r \in Person, Known(r)'
        PROVE  /\ Recorded(people[r].name)'
               /\ alias'[people'[r].name].person = r /\ alias'[people'[r].name].primary
    <2>1. /\ Recorded(people[r].name) /\ people'[r].name = people[r].name
          /\ alias[people[r].name].person = r /\ alias[people[r].name].primary
          /\ people[r].name \in Spelling
      BY <1>1, <1>3, <1>5 DEF NamesTied
    <2>2. people[r].name # s
      BY <2>1
    <2>3. QED
      BY <1>2, <2>1, <2>2 DEF Recorded
  <1>6. NamesTied'
    BY <1>4, <1>5 DEF NamesTied
  <1>7. ASSUME NEW a \in Spelling, InUse(a), a # s, Norm[a] = Norm[s], ~row.retired
        PROVE  alias[a].person = p
    BY <1>7 DEF Taken, InUse, Recorded
  <1>8. NamesBelongToOnePerson'
    <2>1. SUFFICES ASSUME NEW a \in Spelling, NEW b \in Spelling,
                          InUse(a)', InUse(b)', Norm[a] = Norm[b]
                   PROVE  alias'[a].person = alias'[b].person
      BY DEF NamesBelongToOnePerson
    <2>2. CASE a # s /\ b # s
      BY <1>1, <1>2, <2>1, <2>2 DEF NamesBelongToOnePerson, InUse, Recorded
    <2>3. CASE a = s /\ b # s
      BY <1>2, <1>7, <2>1, <2>3 DEF InUse, Recorded
    <2>4. CASE a # s /\ b = s
      BY <1>2, <1>7, <2>1, <2>4 DEF InUse, Recorded
    <2>5. QED
      BY <2>2, <2>3, <2>4
  <1>9. QED
    BY <1>6, <1>8

(* A spelling becomes the name of p, and the former name a mere alias.     *)
TakesName(p, s) ==
    /\ people'[p] # None /\ people'[p].name = s
    /\ \A r \in Person : r # p => people'[r] = people[r]
    /\ alias' = [Demoted(p) EXCEPT ![s] = [person |-> p, primary |-> TRUE, retired |-> FALSE]]
    /\ Recorded(s) => alias[s].person = p
    /\ ~Taken(s, p, alias, people)

LEMMA PutName ==
    ASSUME IInv, NEW p \in Person, NEW s \in Spelling, TakesName(p, s)
    PROVE  /\ NamesTied' /\ NamesBelongToOnePerson'
           /\ alias' \in [Spelling -> AliasRow \cup {None}]
           /\ alias'[s] # None /\ alias'[s].person = p
           /\ \A a \in Spelling : a # s => alias'[a] = Demoted(p)[a]
           /\ \A a \in Spelling : a # s /\ Recorded(a) =>
                 /\ alias'[a] # None /\ alias'[a].person = alias[a].person
                 /\ alias'[a].retired = alias[a].retired
                 /\ alias'[a] # alias[a] => alias[a].person = p
           /\ \A a \in Spelling : a # s /\ ~Recorded(a) => alias'[a] = None
  <1> DEFINE row == [person |-> p, primary |-> TRUE, retired |-> FALSE]
  <1>0. /\ people'[p] # None /\ people'[p].name = s
        /\ \A r \in Person : r # p => people'[r] = people[r]
        /\ alias' = [Demoted(p) EXCEPT ![s] = row]
        /\ Recorded(s) => alias[s].person = p
        /\ ~Taken(s, p, alias, people)
    BY DEF TakesName
  <1> USE <1>0
  <1>1. row \in AliasRow /\ row # None /\ row.person = p /\ row.primary /\ ~row.retired
    <2>1. row \in AliasRow
      BY DEF AliasRow
    <2>2. row.person = p /\ row.primary /\ ~row.retired
      OBVIOUS
    <2> HIDE DEF row
    <2>3. QED
      BY <2>1, <2>2
  <1>2. TypeOK /\ NamesTied /\ NamesBelongToOnePerson
    BY DEF IInv
  <1>3. /\ \A a \in Spelling : Recorded(a) => alias[a] \in AliasRow /\ alias[a].person \in Person
        /\ \A r \in Person : Known(r) => people[r].name \in Spelling
    BY <1>2, TableFields
  <1>4. alias'[s] = row /\ \A a \in Spelling : a # s => alias'[a] = Demoted(p)[a]
    BY DEF Demoted
  <1> HIDE DEF row
  <1>5. ASSUME NEW a \in Spelling, a # s, Recorded(a)
        PROVE  /\ alias'[a] \in AliasRow /\ alias'[a] # None
               /\ alias'[a].person = alias[a].person /\ alias'[a].retired = alias[a].retired
               /\ alias'[a].primary <=> alias[a].primary /\ alias[a].person # p
               /\ alias'[a] # alias[a] => alias[a].person = p
    <2>1. alias[a] \in AliasRow
      BY <1>3, <1>5
    <2>2. alias'[a] = IF alias[a].person = p /\ alias[a].primary
                      THEN [alias[a] EXCEPT !.primary = FALSE] ELSE alias[a]
      BY <1>4, <1>5 DEF Demoted
    <2>3. CASE alias[a].person = p /\ alias[a].primary
      <3>1. \A r \in AliasRow :
              LET q == [r EXCEPT !.primary = FALSE]
              IN  q \in AliasRow /\ q.person = r.person /\ q.retired = r.retired /\ ~q.primary
        BY DEF AliasRow
      <3>2. alias'[a] = [alias[a] EXCEPT !.primary = FALSE]
        BY <2>2, <2>3
      <3>3. /\ alias'[a] \in AliasRow /\ alias'[a].person = alias[a].person
            /\ alias'[a].retired = alias[a].retired /\ ~alias'[a].primary
        BY <2>1, <3>1, <3>2
      <3>4. QED
        BY <2>3, <3>3
    <2>4. CASE ~(alias[a].person = p /\ alias[a].primary)
      BY <2>1, <2>2, <2>4 DEF AliasRow
    <2>5. QED
      BY <2>3, <2>4
  <1>6. \A a \in Spelling : a # s /\ ~Recorded(a) => alias'[a] = None
    BY <1>4 DEF Demoted, Recorded
  <1>7. alias' \in [Spelling -> AliasRow \cup {None}]
    <2>1. ASSUME NEW a \in Spelling
          PROVE  (IF Recorded(a) /\ alias[a].person = p /\ alias[a].primary
                  THEN [alias[a] EXCEPT !.primary = FALSE] ELSE alias[a]) \in AliasRow \cup {None}
      <3>1. Recorded(a) => [alias[a] EXCEPT !.primary = FALSE] \in AliasRow
        BY <1>3 DEF AliasRow
      <3>2. QED
        BY <1>2, <3>1 DEF TypeOK
    <2>2. Demoted(p) \in [Spelling -> AliasRow \cup {None}]
      BY <2>1 DEF Demoted
    <2>3. QED
      BY <1>1, <2>2 DEF row
  <1>8. ASSUME NEW a \in Spelling, Recorded(a)'
        PROVE  /\ Known(alias[a].person)'
               /\ alias'[a].primary => ~alias'[a].retired /\ people'[alias'[a].person].name = a
    <2>1. CASE a = s
      BY <1>1, <1>4, <2>1 DEF Known
    <2>2. CASE a # s
      <3>1. Recorded(a)
        BY <1>6, <1>8, <2>2 DEF Recorded
      <3>2. Known(alias[a].person) /\ alias[a].person \in Person
        BY <1>2, <1>3, <3>1 DEF NamesTied
      <3>3. Known(alias[a].person)'
        BY <1>5, <2>2, <3>1, <3>2 DEF Known
      <3>4. alias'[a].primary => ~alias'[a].retired /\ people'[alias'[a].person].name = a
        BY <1>2, <1>5, <2>2, <3>1, <3>2 DEF NamesTied
      <3>5. QED
        BY <3>3, <3>4
    <2>3. QED
      BY <2>1, <2>2
  <1>9. ASSUME NEW r \in Person, Known(r)'
        PROVE  /\ Recorded(people[r].name)'
               /\ alias'[people'[r].name].person = r /\ alias'[people'[r].name].primary
    <2>1. CASE r = p
      BY <1>1, <1>4, <2>1 DEF Recorded
    <2>2. CASE r # p
      <3>1. /\ Recorded(people[r].name) /\ people'[r] = people[r]
            /\ alias[people[r].name].person = r /\ alias[people[r].name].primary
            /\ people[r].name \in Spelling
        BY <1>2, <1>3, <1>9, <2>2 DEF NamesTied, Known
      <3>2. people[r].name # s
        BY <2>2, <3>1
      <3>3. QED
        BY <1>5, <2>2, <3>1, <3>2 DEF Recorded
    <2>3. QED
      BY <2>1, <2>2
  <1>10. NamesTied'
    BY <1>8, <1>9 DEF NamesTied
  <1>11. ASSUME NEW a \in Spelling, InUse(a), Norm[a] = Norm[s]
         PROVE  alias[a].person = p
    BY <1>11 DEF Taken, InUse, Recorded
  <1>12. \A a \in Spelling : a # s /\ InUse(a)' => InUse(a) /\ alias'[a].person = alias[a].person
    BY <1>5, <1>6 DEF InUse, Recorded
  <1>13. NamesBelongToOnePerson'
    <2>1. SUFFICES ASSUME NEW a \in Spelling, NEW b \in Spelling,
                          InUse(a)', InUse(b)', Norm[a] = Norm[b]
                   PROVE  alias'[a].person = alias'[b].person
      BY DEF NamesBelongToOnePerson
    <2>2. CASE a # s /\ b # s
      BY <1>2, <1>12, <2>1, <2>2 DEF NamesBelongToOnePerson
    <2>3. CASE a = s /\ b # s
      BY <1>1, <1>4, <1>11, <1>12, <2>1, <2>3
    <2>4. CASE a # s /\ b = s
      BY <1>1, <1>4, <1>11, <1>12, <2>1, <2>4
    <2>5. QED
      BY <2>2, <2>3, <2>4
  <1>14. QED
    BY <1>1, <1>4, <1>5, <1>6, <1>7, <1>10, <1>13

-----------------------------------------------------------------------------
(* Saving a person from a page keeps the invariant if it keeps the names.  *)
LEMMA SaveKeeps ==
    ASSUME IInv, NEW f \in Form, Open(f), NEW new \in PersonRow, NEW n \in Nat,
           Save(f, new, n), Close(f), team' = team,
           alias' \in [Spelling -> AliasRow \cup {None}],
           Writes(form[f].person), NamesTied', NamesBelongToOnePerson'
    PROVE  IInv'
  <1> DEFINE p == form[f].person
  <1>1. TypeOK /\ p \in Person /\ Known(p)
    BY PageFields DEF IInv
  <1>2. /\ people' \in [Person -> PersonRow \cup {None}]
        /\ people'[p] # None /\ people'[p].active = new.active /\ people'[p].trainee = new.trainee
        /\ \A r \in Person : r # p => people'[r] = people[r]
        /\ KeepsReviewing(p, new)
    BY <1>1, SaveFacts
  <1>3. TypeOK'
    <2>1. /\ form' = [g \in Form |-> form'[g]]
          /\ \A g \in Form : form'[g] \in Page \cup {Unused, Closed}
      BY <1>1, CloseFacts
    <2>2. QED
      BY <1>1, <1>2, <2>1 DEF TypeOK
  <1>4. ReviewersAreEligible'
    <2>1. SUFFICES ASSUME NEW t \in Team
                   PROVE  LET r == team[t].reviewer
                          IN  people'[r] # None /\ people'[r].active /\ ~people'[r].trainee
      BY DEF ReviewersAreEligible, EligibleReviewer, Known
    <2>2. team[t].reviewer \in Person
      BY <1>1 DEF TypeOK
    <2>3. EligibleReviewer(team[t].reviewer)
      BY DEF IInv, ReviewersAreEligible
    <2>4. QED
      BY <1>2, <2>2, <2>3 DEF EligibleReviewer, Known, KeepsReviewing
  <1>5. FormsSound'
    BY <1>1, <1>2, WritesKeepForms
  <1>6. QED
    BY <1>3, <1>4, <1>5 DEF IInv

LEMMA UpdateKeeps == ASSUME IInv, NEW f \in Form, Update(f) PROVE IInv'
  <1> DEFINE p == form[f].person
  <1>1. PICK trainee \in BOOLEAN, text \in Text :
          LET new == [people[p] EXCEPT !.trainee = trainee, !.text = text]
          IN  /\ Open(f) /\ Save(f, new, IF new = people[p] THEN 0 ELSE 1)
              /\ Close(f) /\ UNCHANGED <<alias, team>>
    BY DEF Update
  <1> DEFINE new == [people[p] EXCEPT !.trainee = trainee, !.text = text]
             n == IF new = people[p] THEN 0 ELSE 1
  <1>2. TypeOK /\ p \in Person /\ Known(p) /\ people[p] \in PersonRow
    BY <1>1, PageFields, TableFields DEF IInv
  <1>3. new \in PersonRow /\ new.name = people[p].name /\ new.version = people[p].version
    BY <1>2 DEF PersonRow
  <1>4. n \in Nat /\ people[p].version \in Nat
    BY <1>2 DEF PersonRow
  <1>5. [new EXCEPT !.version = @ + 0] = new
    <2> HIDE DEF new
    <2>1. new.version + 0 = new.version
      BY <1>3, <1>4
    <2>2. [new EXCEPT !.version = new.version] = new
      BY <1>3 DEF PersonRow
    <2>3. QED
      BY <2>1, <2>2
  <1>6. Save(f, new, n)
    BY <1>1
  <1>7. /\ people'[p] # None /\ people'[p].name = people[p].name
        /\ people'[p].version = people[p].version + n
        /\ people'[p] = [new EXCEPT !.version = @ + n]
        /\ \A r \in Person : r # p => people'[r] = people[r]
    <2> HIDE DEF n, new
    <2>1. QED
      BY <1>2, <1>3, <1>4, <1>6, SaveFacts
  <1>8. Writes(p)
    <2>1. CASE n = 0
      <3>1. new = people[p]
        BY <2>1
      <3> HIDE DEF n, new
      <3>2. people'[p] = people[p]
        BY <1>5, <1>7, <2>1, <3>1
      <3>3. QED
        BY <1>1, <1>7, <3>2 DEF Writes
    <2>2. CASE n = 1
      <3> HIDE DEF n, new
      <3>1. people'[p].version > people[p].version
        BY <1>4, <1>7, <2>2
      <3>2. QED
        BY <1>1, <1>7, <3>1 DEF Writes
    <2>3. QED
      BY <2>1, <2>2
  <1> HIDE DEF n, new
  <1>9. NamesTied' /\ NamesBelongToOnePerson'
    BY <1>1, <1>2, <1>7, SameNames
  <1>10. QED
    BY <1>1, <1>2, <1>3, <1>4, <1>6, <1>8, <1>9, SaveKeeps DEF TypeOK

LEMMA SetActiveKeeps == ASSUME IInv, NEW f \in Form, SetActive(f) PROVE IInv'
  <1> DEFINE p == form[f].person
             new == [people[p] EXCEPT !.active = ~@]
  <1>1. Open(f) /\ Save(f, new, 1) /\ Close(f) /\ alias' = alias /\ team' = team
    BY DEF SetActive
  <1>2. TypeOK /\ p \in Person /\ Known(p) /\ people[p] \in PersonRow
    BY <1>1, PageFields, TableFields DEF IInv
  <1>3. /\ new \in PersonRow /\ new.name = people[p].name /\ new.version = people[p].version
        /\ people[p].version \in Nat
    BY <1>2 DEF PersonRow
  <1> HIDE DEF new
  <1>4. /\ people'[p] # None /\ people'[p].name = people[p].name
        /\ people'[p].version > people[p].version
        /\ \A r \in Person : r # p => people'[r] = people[r]
    <2>0. PICK n : n = 1
      OBVIOUS
    <2>1. n \in Nat /\ Save(f, new, n)
      BY <1>1, <2>0
    <2>2. /\ people'[p] # None /\ people'[p].name = new.name
          /\ people'[p].version = new.version + n
          /\ people'[p] = [new EXCEPT !.version = @ + n]
          /\ \A r \in Person : r # p => people'[r] = people[r]
      BY <1>2, <1>3, <2>1, SaveFacts
    <2>3. QED
      BY <1>3, <2>0, <2>2
  <1>5. NamesTied' /\ NamesBelongToOnePerson'
    BY <1>1, <1>2, <1>4, SameNames
  <1>6. Writes(p)
    BY <1>1, <1>4 DEF Writes
  <1>7. QED
    BY <1>1, <1>2, <1>3, <1>5, <1>6, SaveKeeps DEF TypeOK

(* Adding, retiring and restoring are one write of an alias each.          *)
LEMMA AliasKeeps ==
    ASSUME IInv, NEW f \in Form, Open(f), Save(f, people[form[f].person], 1), Close(f), team' = team,
           NEW s \in Spelling, NEW row \in AliasRow, ~row.primary, row.person = form[f].person,
           alias' = [alias EXCEPT ![s] = row],
           Recorded(s) => alias[s].person = form[f].person /\ ~alias[s].primary,
           ~row.retired => ~Taken(s, form[f].person, alias, people)
    PROVE  IInv'
  <1> DEFINE p == form[f].person
  <1>1. TypeOK /\ p \in Person /\ Known(p) /\ people[p] \in PersonRow /\ people[p].version \in Nat
    BY PageFields, TableFields DEF IInv
  <1>2. /\ people'[p] # None /\ people'[p].name = people[p].name
        /\ people'[p].version = people[p].version + 1
        /\ \A r \in Person : r # p => people'[r] = people[r]
    BY <1>1, SaveSame
  <1>3. /\ alias' \in [Spelling -> AliasRow \cup {None}] /\ alias'[s] = row /\ row # None
        /\ \A a \in Spelling : a # s => alias'[a] = alias[a]
    BY <1>1 DEF TypeOK
  <1>4. NamesTied' /\ NamesBelongToOnePerson'
    BY <1>1, <1>2, PutAlias
  <1>5. people'[p].version > people[p].version
    BY <1>1, <1>2
  <1>6. Writes(p)
    BY <1>2, <1>3, <1>5 DEF Writes
  <1>7. QED
    BY <1>1, <1>3, <1>4, <1>6, SaveKeeps

LEMMA AddAliasKeeps == ASSUME IInv, NEW f \in Form, AddAlias(f) PROVE IInv'
  <1> DEFINE p == form[f].person
  <1>1. PICK s \in Spelling :
          /\ Open(f) /\ ~Recorded(s) /\ ~Taken(s, p, alias, people)
          /\ Save(f, people[p], 1)
          /\ alias' = [alias EXCEPT ![s] = [person |-> p, primary |-> FALSE, retired |-> FALSE]]
          /\ Close(f) /\ team' = team
    BY DEF AddAlias
  <1> DEFINE row == [person |-> p, primary |-> FALSE, retired |-> FALSE]
  <1>2. p \in Person
    BY <1>1, PageFields
  <1>3. row \in AliasRow /\ ~row.primary /\ row.person = p
    BY <1>2 DEF AliasRow
  <1> HIDE DEF row
  <1>4. alias' = [alias EXCEPT ![s] = row]
    BY <1>1 DEF row
  <1>5. QED
    BY <1>1, <1>3, <1>4, AliasKeeps

LEMMA RetireAliasKeeps == ASSUME IInv, NEW f \in Form, RetireAlias(f) PROVE IInv'
  <1> DEFINE p == form[f].person
  <1>1. PICK s \in Spelling :
          /\ Open(f) /\ MayRetire(p, s)
          /\ Save(f, people[p], 1)
          /\ alias' = [alias EXCEPT ![s].retired = TRUE]
          /\ Close(f) /\ team' = team
    BY DEF RetireAlias
  <1> DEFINE row == [alias[s] EXCEPT !.retired = TRUE]
  <1>2. alias[s] \in AliasRow /\ alias[s].person = p /\ ~alias[s].primary
    BY <1>1, TableFields DEF MayRetire, IInv
  <1>3. row \in AliasRow /\ row.person = p /\ ~row.primary /\ row.retired
    BY <1>2 DEF AliasRow
  <1>4. alias' = [alias EXCEPT ![s] = row]
    BY <1>1
  <1> HIDE DEF row
  <1>5. QED
    BY <1>1, <1>2, <1>3, <1>4, AliasKeeps

LEMMA RestoreAliasKeeps == ASSUME IInv, NEW f \in Form, RestoreAlias(f) PROVE IInv'
  <1> DEFINE p == form[f].person
  <1>1. PICK s \in Spelling :
          /\ Open(f) /\ MayRetire(p, s) /\ Restorable(p, s)
          /\ Save(f, people[p], 1)
          /\ alias' = [alias EXCEPT ![s].retired = FALSE]
          /\ Close(f) /\ team' = team
    BY DEF RestoreAlias
  <1> DEFINE row == [alias[s] EXCEPT !.retired = FALSE]
  <1>2. alias[s] \in AliasRow /\ alias[s].person = p /\ ~alias[s].primary
    BY <1>1, TableFields DEF MayRetire, IInv
  <1>3. row \in AliasRow /\ row.person = p /\ ~row.primary
    BY <1>2 DEF AliasRow
  <1>4. alias' = [alias EXCEPT ![s] = row]
    BY <1>1
  <1> HIDE DEF row
  <1>5. QED
    BY <1>1, <1>2, <1>3, <1>4, AliasKeeps DEF Restorable

LEMMA RenameKeeps == ASSUME IInv, NEW f \in Form, Rename(f) PROVE IInv'
  <1> DEFINE p == form[f].person
  <1>1. PICK s \in Spelling :
          LET named == [people EXCEPT ![p].name = s]
          IN  /\ Open(f) /\ Renamable(p, s) /\ ~Taken(s, p, alias, people)
              /\ Save(f, named[p], 3)
              /\ alias' = [Demoted(p) EXCEPT ![s] = [person |-> p, primary |-> TRUE, retired |-> FALSE]]
              /\ Close(f) /\ team' = team
    BY DEF Rename
  <1>2. TypeOK /\ p \in Person /\ Known(p) /\ people[p] \in PersonRow
    BY <1>1, PageFields, TableFields DEF IInv
  <1> DEFINE new == [people[p] EXCEPT !.name = s]
  <1>3. [people EXCEPT ![p].name = s][p] = new
    BY <1>2 DEF TypeOK
  <1>4. /\ new \in PersonRow /\ new.name = s /\ new.version = people[p].version
        /\ people[p].version \in Nat
    BY <1>2 DEF PersonRow
  <1>5. Save(f, new, 3)
    BY <1>1, <1>3
  <1> HIDE DEF new
  <1>6. /\ people'[p] # None /\ people'[p].name = s
        /\ people'[p].version > people[p].version
        /\ \A r \in Person : r # p => people'[r] = people[r]
    <2>0. PICK n : n = 3
      OBVIOUS
    <2>1. n \in Nat /\ Save(f, new, n)
      BY <1>5, <2>0
    <2>2. /\ people'[p] # None /\ people'[p].name = new.name
          /\ people'[p].version = new.version + n
          /\ people'[p] = [new EXCEPT !.version = @ + n]
          /\ \A r \in Person : r # p => people'[r] = people[r]
      BY <1>2, <1>4, <2>1, SaveFacts
    <2>3. QED
      BY <1>4, <2>0, <2>2
  <1>7. Recorded(s) => alias[s].person = p
    BY <1>1 DEF Renamable
  <1>8. /\ NamesTied' /\ NamesBelongToOnePerson'
        /\ alias' \in [Spelling -> AliasRow \cup {None}]
        /\ alias'[s] # None /\ alias'[s].person = p
        /\ \A a \in Spelling : a # s /\ Recorded(a) =>
              /\ alias'[a] # None /\ alias'[a].person = alias[a].person
              /\ alias'[a] # alias[a] => alias[a].person = p
        /\ \A a \in Spelling : a # s /\ ~Recorded(a) => alias'[a] = None
    <2>1. TakesName(p, s)
      BY <1>1, <1>6, <1>7 DEF TakesName
    <2>2. QED
      BY <1>2, <2>1, PutName
  <1>9. Writes(p)
    <2>1. ASSUME NEW a \in Spelling, alias'[a] # alias[a]
          PROVE  (Recorded(a) => alias[a].person = p) /\ alias'[a] # None /\ alias'[a].person = p
      BY <1>7, <1>8, <2>1 DEF Recorded
    <2>2. QED
      BY <1>6, <2>1 DEF Writes
  <1>10. QED
    BY <1>1, <1>4, <1>5, <1>8, <1>9, SaveKeeps

LEMMA CreateKeeps == ASSUME IInv, NEW f \in Form, Create(f) PROVE IInv'
  <1>1. PICK p \in Person, s \in Spelling, trainee \in BOOLEAN, text \in Text :
          /\ ~Known(p) /\ ~Recorded(s) /\ ~Taken(s, p, alias, people)
          /\ people' = [people EXCEPT ![p] = NewPerson(s, trainee, text)]
          /\ alias' = [alias EXCEPT ![s] = [person |-> p, primary |-> TRUE, retired |-> FALSE]]
          /\ Close(f) /\ team' = team
    BY DEF Create
  <1>2. TypeOK /\ NamesTied /\ ReviewersAreEligible
    BY DEF IInv
  <1> DEFINE new == NewPerson(s, trainee, text)
  <1>3. new \in PersonRow /\ new # None /\ new.name = s
    <2>1. new \in PersonRow /\ new.name = s
      BY DEF NewPerson, PersonRow
    <2>2. QED
      BY <2>1
  <1>4. people' = [people EXCEPT ![p] = new]
    BY <1>1
  <1> HIDE DEF new
  <1>5. /\ people'[p] = new /\ \A r \in Person : r # p => people'[r] = people[r]
        /\ people' \in [Person -> PersonRow \cup {None}]
    BY <1>2, <1>3, <1>4 DEF TypeOK
  <1>6. Demoted(p) = alias
    <2>1. \A a \in Spelling : Recorded(a) => alias[a].person # p
      BY <1>1, <1>2 DEF NamesTied
    <2>2. \A a \in Spelling : ~(Recorded(a) /\ alias[a].person = p /\ alias[a].primary)
      BY <2>1
    <2>3. Demoted(p) = [a \in Spelling |-> alias[a]]
      BY <2>2 DEF Demoted
    <2>4. QED
      BY <1>2, <2>3 DEF TypeOK
  <1>7. /\ NamesTied' /\ NamesBelongToOnePerson'
        /\ alias' \in [Spelling -> AliasRow \cup {None}]
        /\ alias'[s] # None /\ alias'[s].person = p
        /\ \A a \in Spelling : a # s => alias'[a] = Demoted(p)[a]
    <2>1. alias' = [Demoted(p) EXCEPT ![s] = [person |-> p, primary |-> TRUE, retired |-> FALSE]]
      BY <1>1, <1>6
    <2>2. people'[p] # None /\ people'[p].name = s
      BY <1>3, <1>5
    <2>3. TakesName(p, s)
      BY <1>1, <1>5, <2>1, <2>2 DEF TakesName
    <2>4. QED
      BY <2>3, PutName
  <1>8. Writes(p)
    <2>1. \A a \in Spelling : a # s => alias'[a] = alias[a]
      BY <1>6, <1>7
    <2>2. QED
      BY <1>1, <1>3, <1>5, <1>7, <2>1 DEF Writes
  <1>9. FormsSound'
    BY <1>1, <1>5, <1>8, WritesKeepForms
  <1>10. TypeOK'
    <2>1. /\ form' = [g \in Form |-> form'[g]]
          /\ \A g \in Form : form'[g] \in Page \cup {Unused, Closed}
      BY <1>1, <1>2, CloseFacts
    <2>2. QED
      BY <1>1, <1>2, <1>5, <1>7, <2>1 DEF TypeOK
  <1>11. ReviewersAreEligible'
    <2>1. \A t \in Team : team[t].reviewer \in Person /\ EligibleReviewer(team[t].reviewer)
      BY <1>2 DEF TypeOK, ReviewersAreEligible
    <2>2. \A t \in Team : people'[team[t].reviewer] = people[team[t].reviewer]
      BY <1>1, <1>5, <2>1 DEF EligibleReviewer
    <2>3. QED
      BY <1>1, <2>1, <2>2 DEF ReviewersAreEligible, EligibleReviewer, Known
  <1>12. QED
    BY <1>7, <1>9, <1>10, <1>11 DEF IInv

(* A page that is left, or chooses a reviewer, writes nobody.              *)
LEMMA RosterKept ==
    ASSUME IInv, NEW f \in Form, Open(f), Close(f), UNCHANGED Roster,
           team' \in [Team -> [reviewer : Person, version : Nat]], ReviewersAreEligible'
    PROVE  IInv'
  <1> DEFINE p == form[f].person
  <1>1. p \in Person /\ Known(p) /\ TypeOK
    BY PageFields DEF IInv
  <1>2. people' = people /\ alias' = alias
    BY DEF Roster
  <1>3. Writes(p)
    BY <1>1, <1>2 DEF Writes, Known
  <1>4. people' \in [Person -> PersonRow \cup {None}]
    BY <1>1, <1>2 DEF TypeOK
  <1>5. FormsSound'
    BY <1>1, <1>3, <1>4, WritesKeepForms
  <1>6. NamesTied' /\ NamesBelongToOnePerson'
    BY <1>1, <1>2, SameNames, <1>3 DEF Writes
  <1>7. TypeOK'
    <2>1. /\ form' = [g \in Form |-> form'[g]]
          /\ \A g \in Form : form'[g] \in Page \cup {Unused, Closed}
      BY <1>1, CloseFacts
    <2>2. QED
      BY <1>1, <1>2, <2>1 DEF TypeOK
  <1>8. QED
    BY <1>5, <1>6, <1>7 DEF IInv

LEMMA SetReviewerKeeps == ASSUME IInv, NEW f \in Form, SetReviewer(f) PROVE IInv'
  <1>1. PICK t \in Team, r \in Person :
          /\ Open(f) /\ EligibleReviewer(r)
          /\ team' = [team EXCEPT ![t] = [reviewer |-> r, version |-> team[t].version + 1]]
          /\ Close(f) /\ people' = people /\ alias' = alias
    BY DEF SetReviewer
  <1>2. team \in [Team -> [reviewer : Person, version : Nat]]
    BY DEF IInv, TypeOK
  <1>3. team' \in [Team -> [reviewer : Person, version : Nat]]
    BY <1>1, <1>2
  <1>4. \A u \in Team : team'[u].reviewer \in {r, team[u].reviewer}
    BY <1>1, <1>2
  <1>5. ReviewersAreEligible'
    BY <1>1, <1>4 DEF IInv, ReviewersAreEligible, EligibleReviewer, Known
  <1>6. QED
    BY <1>1, <1>3, <1>5, RosterKept DEF Roster

LEMMA LeaveKeeps == ASSUME IInv, NEW f \in Form, Leave(f) PROVE IInv'
  <1>1. Open(f) /\ Close(f) /\ people' = people /\ alias' = alias /\ team' = team
    BY DEF Leave
  <1>2. ReviewersAreEligible' /\ team' \in [Team -> [reviewer : Person, version : Nat]]
    BY <1>1 DEF IInv, TypeOK, ReviewersAreEligible, EligibleReviewer, Known
  <1>3. QED
    BY <1>1, <1>2, RosterKept DEF Roster

LEMMA OpenFormKeeps == ASSUME IInv, NEW f \in Form, OpenForm(f) PROVE IInv'
  <1>1. PICK p \in Person :
          /\ Known(p)
          /\ form' = [form EXCEPT ![f] = [person |-> p, row |-> people[p],
                                          aliases |-> NamesOf(p), team |-> team]]
          /\ people' = people /\ alias' = alias /\ team' = team
    BY DEF OpenForm
  <1> DEFINE q == [person |-> p, row |-> people[p], aliases |-> NamesOf(p), team |-> team]
  <1>2. TypeOK /\ people[p] \in PersonRow /\ people[p].version \in Nat
    BY <1>1, TableFields DEF IInv
  <1>3. q \in Page
    BY <1>2 DEF Page, TypeOK, NamesOf
  <1>4. q.person = p /\ q.row = people[p] /\ q.aliases = NamesOf(p)
    OBVIOUS
  <1>5. form' = [form EXCEPT ![f] = q]
    BY <1>1
  <1> HIDE DEF q
  <1>6. form'[f] = q /\ \A g \in Form : g # f => form'[g] = form[g]
    BY <1>2, <1>5 DEF TypeOK
  <1>7. TypeOK'
    BY <1>1, <1>2, <1>3, <1>5, <1>6 DEF TypeOK
  <1>8. \A r \in Person : NamesOf(r)' = NamesOf(r)
    BY <1>1 DEF NamesOf, InUse, Recorded
  <1>9. FormsSound'
    <2>1. SUFFICES ASSUME NEW g \in Form, Open(g)' PROVE FormSound(form[g])'
      BY DEF FormsSound
    <2>2. CASE g = f
      <3>1. people[p].version >= people[p].version
        BY <1>2
      <3>2. QED
        BY <1>1, <1>4, <1>6, <1>8, <2>2, <3>1 DEF FormSound, Known, NamesOf, InUse, Recorded
    <2>3. CASE g # f
      <3>1. form'[g] = form[g] /\ Open(g) /\ FormSound(form[g])
        BY <1>6, <2>1, <2>3 DEF Open, IInv, FormsSound
      <3>2. QED
        BY <1>1, <3>1 DEF FormSound, Known, NamesOf, InUse, Recorded
    <2>4. QED
      BY <2>2, <2>3
  <1>10. NamesTied' /\ NamesBelongToOnePerson' /\ ReviewersAreEligible'
    BY <1>1 DEF IInv, NamesTied, NamesBelongToOnePerson, ReviewersAreEligible, EligibleReviewer,
       Known, InUse, Recorded
  <1>11. QED
    BY <1>7, <1>9, <1>10 DEF IInv

-----------------------------------------------------------------------------
LEMMA InitIInv == Init => IInv
  <1> SUFFICES ASSUME Init PROVE IInv
    OBVIOUS
  <1>1. /\ people = FirstPeople /\ alias = FirstAliases
        /\ team = [t \in Team |-> [reviewer |-> FirstReviewers[t], version |-> 1]]
        /\ form = [f \in Form |-> Unused]
    BY DEF Init
  <1>2. TypeOK
    BY <1>1, FirstAssumption DEF TypeOK
  <1>3. NamesTied
    <2>1. ASSUME NEW p \in Person, Known(p)
          PROVE  Recorded(people[p].name) /\ alias[people[p].name].person = p
                 /\ alias[people[p].name].primary
      BY <1>1, <2>1, FirstAssumption DEF Known, Recorded
    <2>2. ASSUME NEW s \in Spelling, Recorded(s)
          PROVE  /\ Known(alias[s].person)
                 /\ alias[s].primary => ~alias[s].retired /\ people[alias[s].person].name = s
      BY <1>1, <2>2, FirstAssumption DEF Known, Recorded
    <2>3. QED
      BY <2>1, <2>2 DEF NamesTied
  <1>4. NamesBelongToOnePerson
    BY <1>1, FirstAssumption DEF NamesBelongToOnePerson, InUse, Recorded
  <1>5. ReviewersAreEligible
    BY <1>1, FirstAssumption DEF ReviewersAreEligible, EligibleReviewer, Known
  <1>6. FormsSound
    BY <1>1 DEF FormsSound, Open
  <1>7. QED
    BY <1>2, <1>3, <1>4, <1>5, <1>6 DEF IInv

LEMMA NextIInv == IInv /\ [Next]_vars => IInv'
  <1> SUFFICES ASSUME IInv, [Next]_vars PROVE IInv'
    OBVIOUS
  <1>1. ASSUME NEW f \in Form, \/ OpenForm(f) \/ Create(f) \/ Update(f) \/ SetActive(f)
                               \/ Rename(f) \/ AddAlias(f) \/ RetireAlias(f) \/ RestoreAlias(f)
                               \/ SetReviewer(f) \/ Leave(f)
        PROVE  IInv'
    BY <1>1, OpenFormKeeps, CreateKeeps, UpdateKeeps, SetActiveKeeps, RenameKeeps, AddAliasKeeps,
       RetireAliasKeeps, RestoreAliasKeeps, SetReviewerKeeps, LeaveKeeps
  <1>2. CASE UNCHANGED vars
    BY <1>2 DEF vars, IInv, TypeOK, NamesTied, NamesBelongToOnePerson, ReviewersAreEligible,
       FormsSound, FormSound, EligibleReviewer, Known, Recorded, InUse, NamesOf, Open
  <1>3. QED
    BY <1>1, <1>2 DEF Next

LEMMA Invariance == Spec => []IInv
  BY InitIInv, NextIInv, PTL DEF Spec

(* Rows, aliases, teams and pages have their shapes.                       *)
THEOREM RosterTypeCorrect == Spec => []TypeOK
  <1>1. IInv => TypeOK
    BY DEF IInv
  <1>2. QED
    BY <1>1, Invariance, PTL

(* Names lead to one person and people have one name: a spelling that is   *)
(* given, retired, taken by a renaming or restored never leads to two      *)
(* people, and the primary alias is the name (StaffRoster!NamesSound).     *)
THEOREM NamesAreSound == Spec => []NamesSound
  <1>1. ASSUME IInv PROVE NamesSound
    <2>1. TypeOK /\ NamesTied /\ NamesBelongToOnePerson
      BY <1>1 DEF IInv
    <2>2. ASSUME NEW p \in Person, Known(p)
          PROVE  {s \in NamesOf(p) : alias[s].primary} = {people[p].name}
      <3>1. people[p].name \in Spelling
        BY <2>1, <2>2, TableFields
      <3>2. people[p].name \in NamesOf(p) /\ alias[people[p].name].primary
        BY <2>1, <2>2, <3>1 DEF NamesTied, NamesOf, InUse
      <3>3. ASSUME NEW s \in NamesOf(p), alias[s].primary PROVE s = people[p].name
        BY <2>1, <3>3 DEF NamesTied, NamesOf, InUse
      <3>4. QED
        BY <3>2, <3>3
    <2>3. ASSUME NEW p \in Person, ~Known(p)
          PROVE  {s \in NamesOf(p) : alias[s].primary} = {}
      BY <2>1, <2>3 DEF NamesTied, NamesOf, InUse
    <2>4. QED
      BY <2>1, <2>2, <2>3 DEF NamesSound, OnePrimaryEach
  <1>2. QED
    BY <1>1, Invariance, PTL

(* The reviewer of a team is active and no trainee, in whatever order the  *)
(* person is chosen, deactivated and made a trainee.                       *)
THEOREM ReviewersStayEligible == Spec => []ReviewersAreEligible
  <1>1. IInv => ReviewersAreEligible
    BY DEF IInv
  <1>2. QED
    BY <1>1, Invariance, PTL

(* Nothing changes on top of what its page did not show: aliases have no   *)
(* version, but every statement on them advances that of their person.     *)
THEOREM RosterLosesNoUpdate == Spec => NoLostUpdate
  <1> DEFINE Kept(f) ==
        Open(f) /\ <<people, alias>>' # <<people, alias>> /\ form'[f] # form[f] =>
          LET q == form[f] IN people[q.person] = q.row /\ NamesOf(q.person) = q.aliases
  <1>1. ASSUME IInv, [Next]_vars, NEW f \in Form PROVE Kept(f)
    <2>1. SUFFICES ASSUME Open(f), <<people, alias>>' # <<people, alias>>, form'[f] # form[f]
                   PROVE  people[form[f].person] = form[f].row
                          /\ NamesOf(form[f].person) = form[f].aliases
      OBVIOUS
    <2>2. PICK g \in Form :
            \/ OpenForm(g) \/ Create(g) \/ Update(g) \/ SetActive(g) \/ Rename(g) \/ AddAlias(g)
            \/ RetireAlias(g) \/ RestoreAlias(g) \/ SetReviewer(g) \/ Leave(g)
      BY <1>1, <2>1 DEF Next, vars
    <2>3. ~OpenForm(g) /\ ~SetReviewer(g) /\ ~Leave(g)
      BY <2>1 DEF OpenForm, SetReviewer, Leave
    <2>4. Close(g) /\ (form[g] = Unused \/ Fresh(form[g]))
      BY <2>2, <2>3 DEF Create, Update, SetActive, Rename, AddAlias, RetireAlias, RestoreAlias
    <2>5. g = f
      BY <1>1, <2>1, <2>4, CloseFacts DEF IInv
    <2>6. Fresh(form[f]) /\ FormSound(form[f])
      BY <1>1, <2>1, <2>4, <2>5 DEF Open, IInv, FormsSound
    <2>7. QED
      BY <2>6 DEF Fresh, FormSound
  <1>2. ASSUME IInv, [Next]_vars PROVE [\A f \in Form : Kept(f)]_vars
    BY <1>1, <1>2
  <1>3. QED
    BY <1>2, Invariance, PTL DEF Spec, NoLostUpdate

(* A recorded spelling stays with its person, and neither an imported one  *)
(* nor the primary one is retired: old records can be explained.           *)
THEOREM SpellingsStay == Spec => SpellingsAreKept
  <1> DEFINE Stays(s) ==
        Recorded(s) =>
          /\ Recorded(s)' /\ alias'[s].person = alias[s].person
          /\ alias'[s].retired /\ ~alias[s].retired => s \notin Imported /\ ~alias[s].primary
  <1>1. ASSUME IInv, [Next]_vars, NEW s \in Spelling PROVE Stays(s)
    <2>1. SUFFICES ASSUME Recorded(s), alias'[s] # alias[s] PROVE Stays(s)
      BY DEF Recorded
    <2>2. /\ alias \in [Spelling -> AliasRow \cup {None}] /\ alias[s] \in AliasRow
          /\ alias[s].person \in Person /\ alias[s].retired \in BOOLEAN
      BY <1>1, <2>1, TableFields DEF IInv, TypeOK
    <2>3. PICK f \in Form : Create(f) \/ Rename(f) \/ AddAlias(f) \/ RetireAlias(f) \/ RestoreAlias(f)
      BY <1>1, <2>1 DEF Next, vars, OpenForm, Update, SetActive, SetReviewer, Leave
    <2>4. CASE Create(f)
      BY <2>1, <2>2, <2>4 DEF Create
    <2>5. CASE AddAlias(f)
      BY <2>1, <2>2, <2>5 DEF AddAlias
    <2>6. CASE RetireAlias(f)
      <3>1. PICK t \in Spelling :
              MayRetire(form[f].person, t) /\ alias' = [alias EXCEPT ![t].retired = TRUE]
        BY <2>6 DEF RetireAlias
      <3>2. t = s /\ alias'[s] = [alias[s] EXCEPT !.retired = TRUE]
        BY <2>1, <2>2, <3>1
      <3>3. alias'[s] \in AliasRow /\ alias'[s].person = alias[s].person
        BY <2>2, <3>2 DEF AliasRow
      <3>4. QED
        BY <3>1, <3>2, <3>3 DEF MayRetire, Recorded
    <2>7. CASE RestoreAlias(f)
      <3>1. PICK t \in Spelling : alias' = [alias EXCEPT ![t].retired = FALSE]
        BY <2>7 DEF RestoreAlias
      <3>2. t = s /\ alias'[s] = [alias[s] EXCEPT !.retired = FALSE]
        BY <2>1, <2>2, <3>1
      <3>3. alias'[s] \in AliasRow /\ alias'[s].person = alias[s].person /\ ~alias'[s].retired
        BY <2>2, <3>2 DEF AliasRow
      <3>4. QED
        BY <3>3 DEF Recorded
    <2>8. CASE Rename(f)
      <3>1. PICK t \in Spelling :
              /\ Renamable(form[f].person, t)
              /\ alias' = [Demoted(form[f].person) EXCEPT
                             ![t] = [person |-> form[f].person, primary |-> TRUE, retired |-> FALSE]]
        BY <2>8 DEF Rename
      <3>2. CASE t = s
        <4>1. alias'[s] = [person |-> form[f].person, primary |-> TRUE, retired |-> FALSE]
          BY <3>1, <3>2 DEF Demoted
        <4>2. alias[s].person = form[f].person
          BY <2>1, <3>1, <3>2 DEF Renamable
        <4>3. alias'[s].person = alias[s].person /\ ~alias'[s].retired
          BY <4>1, <4>2
        <4>4. alias'[s] \in AliasRow
          BY <2>2, <4>1, <4>2 DEF AliasRow
        <4>5. QED
          BY <4>3, <4>4 DEF Recorded
      <3>3. CASE t # s
        <4>1. alias'[s] = [alias[s] EXCEPT !.primary = FALSE]
          BY <2>1, <3>1, <3>3 DEF Demoted
        <4>2. /\ alias'[s] \in AliasRow /\ alias'[s].person = alias[s].person
              /\ alias'[s].retired = alias[s].retired
          BY <2>2, <4>1 DEF AliasRow
        <4>3. QED
          BY <4>2 DEF Recorded
      <3>4. QED
        BY <3>2, <3>3
    <2>9. QED
      BY <2>3, <2>4, <2>5, <2>6, <2>7, <2>8
  <1>2. ASSUME IInv, [Next]_vars PROVE [\A s \in Spelling : Stays(s)]_vars
    BY <1>1, <1>2
  <1>3. QED
    BY <1>2, Invariance, PTL DEF Spec, SpellingsAreKept
=============================================================================
