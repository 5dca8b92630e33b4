------------------------- MODULE AssignmentsProofs -------------------------
(***************************************************************************)
(* Theorems about Assignments, for any staff, records, forms and imported  *)
(* rows.  The invariant says of every list that its rows are numbered by   *)
(* saves of the past and repeat a person only where the import did, and of *)
(* every open form that it shows the list it found as long as the version  *)
(* is the one it found.  A save rebuilds a list from the rows it has and   *)
(* from rows for the people who have none (Rebuilt); what follows from     *)
(* that alone is proved once, for the three kinds of lists.                *)
(***************************************************************************)
EXTENDS Assignments, FiniteSetTheorems, TLAPS

UniqueIds(R) == \A r, s \in R : r.id = s.id => r = s
NumberedBefore(R, v) == \A r \in R : r.id[1] < v
RepeatsOnly(R, B) == \A r, s \in R : r.person = s.person /\ r # s => r.id \in B /\ s.id \in B
DistinctPlaces(R) == \A r, s \in Current(R) : r.place = s.place => r = s
PlacedIffCurrent(R) == \A r \in R : r.retired <=> r.place = 0

(* The rows that may repeat a person.                                      *)
Repeated(o) == IF o \in Hearing THEN {i.id : i \in Imported[o]} ELSE {}

RowsOK(R, v, B) ==
    /\ R \subseteq Row /\ IsFiniteSet(R)
    /\ UniqueIds(R) /\ NumberedBefore(R, v) /\ RepeatsOnly(R, B)

ListOK(o, R, v) ==
    /\ RowsOK(R, v, Repeated(o))
    /\ o \in Hearing => DistinctPlaces(R)
    /\ o \in Work => PlacedIffCurrent(R)

(* A form that would not be refused as stale shows the current list.       *)
FormOK(q, R, v) ==
    /\ q \in Page /\ q.version <= v /\ Distinct(q.list)
    /\ q.version = v =>
          /\ q.shown = Current(R)
          /\ q.owner \in Hearing => Elements(q.list) \cap People(Current(R)) = {}

TablesOK ==
    /\ active \in [Person -> BOOLEAN]
    /\ rows = [o \in Owner |-> rows[o]]
    /\ version \in [Owner -> Nat]
    /\ assigned \in [Work -> Person \cup {None}]
    /\ form = [f \in Form |-> form[f]]

ListsOK == \A o \in Owner : ListOK(o, rows[o], version[o])

FormsOK ==
    \A f \in Form :
       Open(f) => FormOK(form[f], rows[form[f].owner], version[form[f].owner])

Inv == TablesOK /\ ListsOK /\ ScalarAgrees /\ FormsOK

-----------------------------------------------------------------------------
(* What a save makes of the rows R of a list: every row is put where it    *)
(* belongs now, and the members of list at the positions J, who have no    *)
(* row, get one that is numbered by the version v.                         *)
Rebuilt(after, R, v, list, put, J, new) ==
    /\ put \in [R -> Row] /\ J \subseteq 1..Len(list) /\ new \in [J -> Row]
    /\ after = {put[r] : r \in R} \cup {new[j] : j \in J}
    /\ \A r \in R : put[r].id = r.id /\ put[r].person = r.person
    /\ \A j \in J : /\ new[j].id = <<v, j>>
                    /\ new[j].person = list[j] /\ list[j] \notin People(R)

LEMMA RebuiltRows ==
    ASSUME NEW after, NEW R, NEW v, NEW list, NEW put, NEW J, NEW new,
           Rebuilt(after, R, v, list, put, J, new)
    PROVE  \A a \in after : (\E r \in R : a = put[r]) \/ (\E j \in J : a = new[j])
  BY DEF Rebuilt

LEMMA RebuiltFinite ==
    ASSUME NEW after, NEW R, NEW v, NEW list \in Seq(Person), NEW put, NEW J, NEW new,
           Rebuilt(after, R, v, list, put, J, new), IsFiniteSet(R)
    PROVE  IsFiniteSet(after)
  <1> DEFINE old == {put[r] : r \in R}
             added == {new[j] : j \in J}
  <1>1. IsFiniteSet(old)
    <2>1. put \in Surjection(R, old)  BY DEF Rebuilt, Surjection
    <2> QED  BY <2>1, FS_Surjection
  <1>2. IsFiniteSet(J)
    <2>1. Len(list) \in Nat  OBVIOUS
    <2>2. IsFiniteSet(1..Len(list))  BY <2>1, FS_Interval
    <2> QED  BY <2>2, FS_Subset DEF Rebuilt
  <1>3. IsFiniteSet(added)
    <2>1. new \in Surjection(J, added)  BY DEF Rebuilt, Surjection
    <2> QED  BY <2>1, <1>2, FS_Surjection
  <1>4. after = old \cup added  BY DEF Rebuilt
  <1> QED  BY <1>1, <1>3, <1>4, FS_Union

(* A save keeps what makes the rows of a list sound, one version later.    *)
LEMMA RebuiltOK ==
    ASSUME NEW after, NEW R, NEW v \in Nat, NEW B, NEW list \in Seq(Person),
           NEW put, NEW J, NEW new,
           Rebuilt(after, R, v, list, put, J, new), Distinct(list), RowsOK(R, v, B)
    PROVE  RowsOK(after, v + 1, B)
  <1> USE RebuiltRows
  <1>1. after \subseteq Row  BY DEF Rebuilt
  <1>2. IsFiniteSet(after)  BY RebuiltFinite DEF RowsOK
  <1>3. \A r \in R : r \in Row /\ put[r] \in Row /\ put[r].id = r.id /\ put[r].person = r.person
                     /\ r.id \in Nat \X Nat /\ r.id[1] \in Nat /\ r.id[1] < v
    BY DEF Rebuilt, RowsOK, Row, Id, NumberedBefore
  <1>4. \A j \in J : /\ new[j].id = <<v, j>> /\ new[j].id[1] = v
                     /\ new[j].person = list[j] /\ list[j] \notin People(R)
    BY DEF Rebuilt
  <1>5. UniqueIds(after)
    <2> SUFFICES ASSUME NEW a \in after, NEW b \in after, a.id = b.id
                 PROVE  a = b
      BY DEF UniqueIds
    <2>1. CASE \E r \in R : a = put[r]
      <3>1. PICK r \in R : a = put[r]  BY <2>1
      <3>2. ~\E j \in J : b = new[j]  BY <3>1, <1>3, <1>4
      <3>3. PICK s \in R : b = put[s]  BY <3>2
      <3>4. r = s  BY <3>1, <3>3, <1>3 DEF RowsOK, UniqueIds
      <3> QED  BY <3>1, <3>3, <3>4
    <2>2. CASE \E j \in J : a = new[j]
      <3>1. PICK j \in J : a = new[j]  BY <2>2
      <3>2. ~\E r \in R : b = put[r]  BY <3>1, <1>3, <1>4
      <3>3. PICK k \in J : b = new[k]  BY <3>2
      <3>4. <<v, j>> = <<v, k>>  BY <3>1, <3>3, <1>4
      <3>5. j = k  BY <3>4
      <3> QED  BY <3>1, <3>3, <3>5
    <2> QED  BY <2>1, <2>2
  <1>6. NumberedBefore(after, v + 1)
    <2> SUFFICES ASSUME NEW a \in after PROVE a.id[1] < v + 1
      BY DEF NumberedBefore
    <2>1. CASE \E r \in R : a = put[r]  BY <2>1, <1>3
    <2>2. CASE \E j \in J : a = new[j]  BY <2>2, <1>4
    <2> QED  BY <2>1, <2>2
  <1>7. RepeatsOnly(after, B)
    <2> SUFFICES ASSUME NEW a \in after, NEW b \in after, a.person = b.person, a # b
                 PROVE  a.id \in B /\ b.id \in B
      BY DEF RepeatsOnly
    <2>1. \A r \in R : r.person \in People(R)  BY DEF People
    <2>2. CASE \E r \in R : a = put[r]
      <3>1. PICK r \in R : a = put[r]  BY <2>2
      <3>2. ~\E j \in J : b = new[j]  BY <3>1, <1>3, <1>4, <2>1
      <3>3. PICK s \in R : b = put[s]  BY <3>2
      <3>4. r.person = s.person /\ r # s  BY <3>1, <3>3, <1>3
      <3>5. r.id \in B /\ s.id \in B  BY <3>4 DEF RowsOK, RepeatsOnly
      <3> QED  BY <3>1, <3>3, <3>5, <1>3
    <2>3. CASE \E j \in J : a = new[j]
      <3>1. PICK j \in J : a = new[j]  BY <2>3
      <3>2. ~\E r \in R : b = put[r]  BY <3>1, <1>3, <1>4, <2>1
      <3>3. PICK k \in J : b = new[k]  BY <3>2
      <3>4. j \in 1..Len(list) /\ k \in 1..Len(list) /\ list[j] = list[k]
        BY <3>1, <3>3, <1>4 DEF Rebuilt
      <3>5. j = k  BY <3>4 DEF Distinct
      <3> QED  BY <3>1, <3>3, <3>5
    <2> QED  BY <2>2, <2>3
  <1> QED  BY <1>1, <1>2, <1>5, <1>6, <1>7 DEF RowsOK

-----------------------------------------------------------------------------
(* The three ways of saving a list rebuild it.  What else holds of the     *)
(* rows afterwards is said of the rows put and new.                        *)

LEMMA AssignedRebuilds ==
    ASSUME NEW q \in Page, rows[q.owner] \subseteq Row, version[q.owner] \in Nat,
           NEW i \in 0..Len(q.list)
    PROVE  \E put, J, new :
              /\ Rebuilt(Assigned(q, i), rows[q.owner], version[q.owner], q.list, put, J, new)
              /\ \A r \in rows[q.owner] : ~put[r].retired =>
                    r.person \in Elements(q.list) /\ (put[r].lead => r.person = q.lead)
              /\ \A j \in J : new[j].lead => q.list[j] = q.lead
  <1> DEFINE R == rows[q.owner]
             kept(r) == IF r.person \in Elements(q.list) THEN r ELSE [r EXCEPT !.retired = TRUE]
             done == {q.list[j] : j \in 1..i}
             move(r) == IF r.person \in done
                        THEN [r EXCEPT !.lead = (r.person = q.lead), !.retired = FALSE]
                        ELSE Released(q, kept(r))
             put == [r \in R |-> move(r)]
             J == {k \in 1..i : q.list[k] \notin People(R)}
             new == [j \in J |-> [id |-> NewId(q.owner, j), person |-> q.list[j], retired |-> FALSE,
                                  lead |-> (q.list[j] = q.lead), place |-> 0]]
  <1>1. q.list \in Seq(Person) /\ Len(q.list) \in Nat  BY DEF Page
  <1>2. 1..i \subseteq 1..Len(q.list)  BY <1>1
  <1>3. \A k \in 1..Len(q.list) : q.list[k] \in Person  BY <1>1
  <1>4. done \subseteq Elements(q.list)  BY <1>2 DEF Elements
  <1>5. ASSUME NEW r \in R
        PROVE  /\ move(r) \in Row /\ move(r).id = r.id /\ move(r).person = r.person
               /\ ~move(r).retired =>
                    r.person \in Elements(q.list) /\ (move(r).lead => r.person = q.lead)
    <2>0. r \in Row  OBVIOUS
    <2>1. CASE r.person \in done
      BY <2>0, <2>1, <1>4 DEF Row
    <2>2. CASE r.person \notin done
      <3>1. move(r) = Released(q, kept(r))  BY <2>2
      <3>2. kept(r) \in Row /\ kept(r).id = r.id /\ kept(r).person = r.person
            /\ (~kept(r).retired => r.person \in Elements(q.list))
        BY <2>0 DEF Row
      <3> HIDE DEF kept
      <3>3. CASE kept(r).lead /\ kept(r).person \in Elements(q.list) /\ kept(r).person # q.lead
        <4>1. move(r) = [kept(r) EXCEPT !.lead = FALSE]  BY <3>1, <3>3 DEF Released
        <4> QED  BY <4>1, <3>2 DEF Row
      <3>4. CASE ~(kept(r).lead /\ kept(r).person \in Elements(q.list) /\ kept(r).person # q.lead)
        <4>1. move(r) = kept(r)  BY <3>1, <3>4 DEF Released
        <4> QED  BY <4>1, <3>2, <3>4
      <3> QED  BY <3>3, <3>4
    <2> QED  BY <2>1, <2>2
  <1>6. ASSUME NEW j \in J
        PROVE  /\ new[j] \in Row /\ new[j].id = <<version[q.owner], j>>
               /\ new[j].person = q.list[j] /\ q.list[j] \notin People(R)
               /\ new[j].lead => q.list[j] = q.lead
    <2>1. j \in 1..i /\ j \in Nat /\ q.list[j] \notin People(R)  OBVIOUS
    <2>2. q.list[j] \in Person  BY <2>1, <1>2, <1>3
    <2>3. new[j] = [id |-> <<version[q.owner], j>>, person |-> q.list[j], retired |-> FALSE,
                    lead |-> (q.list[j] = q.lead), place |-> 0]
      BY DEF NewId
    <2> HIDE DEF new, J
    <2>4. version[q.owner] \in Nat  OBVIOUS
    <2>5. <<version[q.owner], j>> \in Id  BY <2>1, <2>4 DEF Id
    <2>6. new[j] \in Row  BY <2>2, <2>3, <2>5 DEF Row
    <2>7. new[j].lead = (q.list[j] = q.lead)  BY <2>3
    <2>8. new[j].lead => q.list[j] = q.lead  BY <2>7, Zenon
    <2> QED  BY <2>1, <2>3, <2>6, <2>8
  <1>7. Assigned(q, i) = {put[r] : r \in R} \cup {new[j] : j \in J}
    <2>1. Assigned(q, i) = {move(r) : r \in R} \cup
             {[id |-> NewId(q.owner, j), person |-> q.list[j], retired |-> FALSE,
               lead |-> (q.list[j] = q.lead), place |-> 0] : j \in J}
      BY DEF Assigned
    <2>2. \A r \in R : put[r] = move(r)  OBVIOUS
    <2> HIDE DEF move
    <2>3. {move(r) : r \in R} = {put[r] : r \in R}  BY <2>2
    <2>4. {new[j] : j \in J} =
             {[id |-> NewId(q.owner, j), person |-> q.list[j], retired |-> FALSE,
               lead |-> (q.list[j] = q.lead), place |-> 0] : j \in J}
      OBVIOUS
    <2> QED  BY <2>1, <2>3, <2>4
  <1>8. put \in [R -> Row] /\ \A r \in R : put[r] = move(r)  BY <1>5
  <1>9. new \in [J -> Row]  BY <1>6
  <1>10. J \subseteq 1..Len(q.list)  BY <1>2
  <1> HIDE DEF put, J, new, move
  <1>11. Rebuilt(Assigned(q, i), R, version[q.owner], q.list, put, J, new)
    BY <1>5, <1>6, <1>7, <1>8, <1>9, <1>10 DEF Rebuilt
  <1>12. \A r \in R : ~put[r].retired =>
            r.person \in Elements(q.list) /\ (put[r].lead => r.person = q.lead)
    BY <1>5, <1>8
  <1>13. \A j \in J : new[j].lead => q.list[j] = q.lead  BY <1>6
  <1> QED  BY <1>11, <1>12, <1>13

LEMMA IndexFound ==
    ASSUME NEW s, NEW p \in Elements(s)
    PROVE  IndexIn(s, p) \in 1..Len(s) /\ s[IndexIn(s, p)] = p
  BY DEF Elements, IndexIn

LEMMA WorkingRebuilds ==
    ASSUME NEW q \in Page, rows[q.owner] \subseteq Row, version[q.owner] \in Nat
    PROVE  \E put, J, new :
              /\ Rebuilt(Working(q), rows[q.owner], version[q.owner], q.list, put, J, new)
              /\ \A r \in rows[q.owner] : /\ ~put[r].retired <=> r.person \in Elements(q.list)
                                          /\ put[r].retired <=> put[r].place = 0
              /\ J = {k \in 1..Len(q.list) : q.list[k] \notin People(rows[q.owner])}
              /\ \A j \in J : ~new[j].retired /\ new[j].place # 0
  <1> DEFINE R == rows[q.owner]
             move(r) == IF r.person \in Elements(q.list)
                        THEN [r EXCEPT !.retired = FALSE, !.place = IndexIn(q.list, r.person)]
                        ELSE WithoutPlace(r)
             put == [r \in R |-> move(r)]
             J == {k \in 1..Len(q.list) : q.list[k] \notin People(R)}
             new == [j \in J |-> [id |-> NewId(q.owner, j), person |-> q.list[j], retired |-> FALSE,
                                  lead |-> FALSE, place |-> j]]
  <1>1. q.list \in Seq(Person) /\ Len(q.list) \in Nat  BY DEF Page
  <1>3. \A k \in 1..Len(q.list) : q.list[k] \in Person  BY <1>1
  <1>5. ASSUME NEW r \in R
        PROVE  /\ move(r) \in Row /\ move(r).id = r.id /\ move(r).person = r.person
               /\ ~move(r).retired <=> r.person \in Elements(q.list)
               /\ move(r).retired <=> move(r).place = 0
    <2>0. r \in Row  OBVIOUS
    <2>1. CASE r.person \in Elements(q.list)
      <3>1. PICK n \in 1..Len(q.list) : n = IndexIn(q.list, r.person)  BY <2>1, IndexFound
      <3>2. move(r) = [r EXCEPT !.retired = FALSE, !.place = n]  BY <2>1, <3>1
      <3>3. n \in Nat /\ n # 0  BY <1>1
      <3> QED  BY <2>0, <2>1, <3>2, <3>3 DEF Row
    <2>2. CASE r.person \notin Elements(q.list)
      <3>1. PICK n \in {0} : move(r) = [r EXCEPT !.retired = TRUE, !.place = n]
        BY <2>2 DEF WithoutPlace
      <3> HIDE DEF move
      <3>2. n \in Nat /\ n = 0  OBVIOUS
      <3>3. /\ move(r) \in Row /\ move(r).id = r.id /\ move(r).person = r.person
            /\ move(r).retired = TRUE /\ move(r).place = n
        BY <2>0, <3>1, <3>2 DEF Row
      <3> QED  BY <2>2, <3>2, <3>3
    <2> QED  BY <2>1, <2>2
  <1>6. ASSUME NEW j \in J
        PROVE  /\ new[j] \in Row /\ new[j].id = <<version[q.owner], j>>
               /\ new[j].person = q.list[j] /\ q.list[j] \notin People(R)
               /\ ~new[j].retired /\ new[j].place # 0
    <2>1. j \in 1..Len(q.list) /\ j \in Nat /\ j # 0 /\ q.list[j] \notin People(R)  BY <1>1
    <2>2. q.list[j] \in Person  BY <2>1, <1>3
    <2>3. new[j] = [id |-> <<version[q.owner], j>>, person |-> q.list[j], retired |-> FALSE,
                    lead |-> FALSE, place |-> j]
      BY DEF NewId
    <2> HIDE DEF new, J
    <2>4. <<version[q.owner], j>> \in Id  BY <2>1 DEF Id
    <2> QED  BY <2>1, <2>2, <2>3, <2>4 DEF Row
  <1>7. Working(q) = {put[r] : r \in R} \cup {new[j] : j \in J}
    <2>1. Working(q) = {move(r) : r \in R} \cup
             {[id |-> NewId(q.owner, j), person |-> q.list[j], retired |-> FALSE,
               lead |-> FALSE, place |-> j] : j \in J}
      BY DEF Working
    <2>2. \A r \in R : put[r] = move(r)  OBVIOUS
    <2> HIDE DEF move
    <2>3. {move(r) : r \in R} = {put[r] : r \in R}  BY <2>2
    <2>4. {new[j] : j \in J} =
             {[id |-> NewId(q.owner, j), person |-> q.list[j], retired |-> FALSE,
               lead |-> FALSE, place |-> j] : j \in J}
      OBVIOUS
    <2> QED  BY <2>1, <2>3, <2>4
  <1>8. put \in [R -> Row] /\ \A r \in R : put[r] = move(r)  BY <1>5
  <1>9. new \in [J -> Row]  BY <1>6
  <1>10. J \subseteq 1..Len(q.list)  OBVIOUS
  <1>14. J = {k \in 1..Len(q.list) : q.list[k] \notin People(rows[q.owner])}  OBVIOUS
  <1> HIDE DEF put, J, new, move
  <1>11. Rebuilt(Working(q), R, version[q.owner], q.list, put, J, new)
    BY <1>5, <1>6, <1>7, <1>8, <1>9, <1>10 DEF Rebuilt
  <1>12. \A r \in R : /\ ~put[r].retired <=> r.person \in Elements(q.list)
                      /\ put[r].retired <=> put[r].place = 0
    BY <1>5, <1>8
  <1>13. \A j \in J : ~new[j].retired /\ new[j].place # 0  BY <1>6
  <1> QED  BY <1>11, <1>12, <1>13, <1>14

(* Of a hearing a row is current because it was kept or because its person *)
(* comes back to it, as the first of his or her former rows.               *)
LEMMA AttendingRebuilds ==
    ASSUME NEW q \in Page, rows[q.owner] \subseteq Row, version[q.owner] \in Nat, NEW last \in Nat
    PROVE  \E put, J, new :
              /\ Rebuilt(Attending(q, last), rows[q.owner], version[q.owner], q.list, put, J, new)
              /\ \A r \in rows[q.owner] : ~put[r].retired =>
                    \/ put[r] = r
                    \/ /\ r \in Former(q.owner, r.person) /\ r.person \in Elements(q.list)
                       /\ put[r].place = last + IndexIn(q.list, r.person)
              /\ \A j \in J : new[j].place = last + j
  <1> DEFINE R == rows[q.owner]
             back(r) == \E i \in 1..Len(q.list) : r \in Former(q.owner, q.list[i])
             move(r) == IF back(r)
                        THEN [r EXCEPT !.retired = FALSE,
                                       !.place = last + IndexIn(q.list, r.person)]
                        ELSE IF r.id \in q.keep THEN r ELSE [r EXCEPT !.retired = TRUE]
             put == [r \in R |-> move(r)]
             J == {k \in 1..Len(q.list) : q.list[k] \notin People(R)}
             new == [j \in J |-> [id |-> NewId(q.owner, j), person |-> q.list[j], retired |-> FALSE,
                                  lead |-> FALSE, place |-> last + j]]
  <1>1. q.list \in Seq(Person) /\ Len(q.list) \in Nat  BY DEF Page
  <1>3. \A k \in 1..Len(q.list) : q.list[k] \in Person  BY <1>1
  <1>5. ASSUME NEW r \in R
        PROVE  /\ move(r) \in Row /\ move(r).id = r.id /\ move(r).person = r.person
               /\ ~move(r).retired =>
                     \/ move(r) = r
                     \/ /\ r \in Former(q.owner, r.person) /\ r.person \in Elements(q.list)
                        /\ move(r).place = last + IndexIn(q.list, r.person)
    <2>0. r \in Row  OBVIOUS
    <2>1. CASE back(r)
      <3>1. PICK i \in 1..Len(q.list) : r \in Former(q.owner, q.list[i])  BY <2>1
      <3>2. r.person = q.list[i]  BY <3>1 DEF Former
      <3>3. r.person \in Elements(q.list)  BY <3>2 DEF Elements
      <3>4. PICK n \in 1..Len(q.list) : n = IndexIn(q.list, r.person)  BY <3>3, IndexFound
      <3>5. move(r) = [r EXCEPT !.retired = FALSE, !.place = last + n]  BY <2>1, <3>4
      <3>6. last + n \in Nat  BY <1>1
      <3>7. r \in Former(q.owner, r.person)  BY <3>1, <3>2
      <3> HIDE DEF move, back
      <3> QED  BY <2>0, <3>3, <3>4, <3>5, <3>6, <3>7 DEF Row
    <2>2. CASE ~back(r) /\ r.id \in q.keep
      <3>1. move(r) = r  BY <2>2
      <3> HIDE DEF move, back
      <3> QED  BY <2>0, <3>1
    <2>3. CASE ~back(r) /\ r.id \notin q.keep
      <3>1. move(r) = [r EXCEPT !.retired = TRUE]  BY <2>3
      <3> HIDE DEF move, back
      <3> QED  BY <2>0, <3>1 DEF Row
    <2> QED  BY <2>1, <2>2, <2>3
  <1>6. ASSUME NEW j \in J
        PROVE  /\ new[j] \in Row /\ new[j].id = <<version[q.owner], j>>
               /\ new[j].person = q.list[j] /\ q.list[j] \notin People(R)
               /\ new[j].place = last + j
    <2>1. j \in 1..Len(q.list) /\ j \in Nat /\ q.list[j] \notin People(R)  BY <1>1
    <2>2. q.list[j] \in Person  BY <2>1, <1>3
    <2>3. new[j] = [id |-> <<version[q.owner], j>>, person |-> q.list[j], retired |-> FALSE,
                    lead |-> FALSE, place |-> last + j]
      BY DEF NewId
    <2> HIDE DEF new, J
    <2>4. <<version[q.owner], j>> \in Id  BY <2>1 DEF Id
    <2>5. last + j \in Nat  BY <2>1
    <2> QED  BY <2>1, <2>2, <2>3, <2>4, <2>5 DEF Row
  <1>7. Attending(q, last) = {put[r] : r \in R} \cup {new[j] : j \in J}
    <2>1. Attending(q, last) = {move(r) : r \in R} \cup
             {[id |-> NewId(q.owner, j), person |-> q.list[j], retired |-> FALSE,
               lead |-> FALSE, place |-> last + j] : j \in J}
      BY DEF Attending
    <2>2. \A r \in R : put[r] = move(r)  OBVIOUS
    <2> HIDE DEF move
    <2>3. {move(r) : r \in R} = {put[r] : r \in R}  BY <2>2
    <2>4. {new[j] : j \in J} =
             {[id |-> NewId(q.owner, j), person |-> q.list[j], retired |-> FALSE,
               lead |-> FALSE, place |-> last + j] : j \in J}
      OBVIOUS
    <2> QED  BY <2>1, <2>3, <2>4
  <1>8. put \in [R -> Row] /\ \A r \in R : put[r] = move(r)  BY <1>5
  <1>9. new \in [J -> Row]  BY <1>6
  <1>10. J \subseteq 1..Len(q.list)  OBVIOUS
  <1> HIDE DEF put, J, new, move
  <1>11. Rebuilt(Attending(q, last), R, version[q.owner], q.list, put, J, new)
    BY <1>5, <1>6, <1>7, <1>8, <1>9, <1>10 DEF Rebuilt
  <1>12. \A r \in R : ~put[r].retired =>
            \/ put[r] = r
            \/ /\ r \in Former(q.owner, r.person) /\ r.person \in Elements(q.list)
               /\ put[r].place = last + IndexIn(q.list, r.person)
    BY <1>5, <1>8
  <1>13. \A j \in J : new[j].place = last + j  BY <1>6
  <1> QED  BY <1>11, <1>12, <1>13

-----------------------------------------------------------------------------
(* What the lists are after a save.                                        *)

LEMMA AssignedOK ==
    ASSUME NEW q \in Page, NEW B, version[q.owner] \in Nat, Distinct(q.list),
           RowsOK(rows[q.owner], version[q.owner], B), NEW i \in 0..Len(q.list)
    PROVE  /\ RowsOK(Assigned(q, i), version[q.owner] + 1, B)
           /\ People(Current(Assigned(q, i))) \subseteq Elements(q.list)
           /\ B = {} => OneLeadIn(Assigned(q, i))
  <1> DEFINE R == rows[q.owner]
             after == Assigned(q, i)
  <1>1. R \subseteq Row /\ q.list \in Seq(Person)  BY DEF RowsOK, Page
  <1>2. PICK put, J, new :
           /\ Rebuilt(after, R, version[q.owner], q.list, put, J, new)
           /\ \A r \in R : ~put[r].retired =>
                 r.person \in Elements(q.list) /\ (put[r].lead => r.person = q.lead)
           /\ \A j \in J : new[j].lead => q.list[j] = q.lead
    BY <1>1, AssignedRebuilds
  <1> HIDE DEF after
  <1>3. RowsOK(after, version[q.owner] + 1, B)
    BY <1>1, <1>2, RebuiltOK
  <1>4. \A a \in Current(after) : a.person \in Elements(q.list) /\ (a.lead => a.person = q.lead)
    <2> SUFFICES ASSUME NEW a \in Current(after)
                 PROVE  a.person \in Elements(q.list) /\ (a.lead => a.person = q.lead)
      OBVIOUS
    <2>1. a \in after /\ ~a.retired  BY DEF Current
    <2>2. CASE \E r \in R : a = put[r]
      <3>1. PICK r \in R : a = put[r]  BY <2>2
      <3>2. a.person = r.person  BY <3>1, <1>2 DEF Rebuilt
      <3>3. r.person \in Elements(q.list) /\ (a.lead => r.person = q.lead)  BY <2>1, <3>1, <1>2
      <3> QED  BY <3>2, <3>3
    <2>3. CASE \E j \in J : a = new[j]
      <3>1. PICK j \in J : a = new[j]  BY <2>3
      <3>2. a.person = q.list[j] /\ j \in 1..Len(q.list)  BY <3>1, <1>2 DEF Rebuilt
      <3>3. a.lead => q.list[j] = q.lead  BY <3>1, <1>2
      <3> QED  BY <3>2, <3>3 DEF Elements
    <2> QED  BY <2>1, <2>2, <2>3, <1>2, RebuiltRows
  <1>5. B = {} => OneLeadIn(after)
    <2> SUFFICES ASSUME B = {}, NEW a \in Current(after), NEW b \in Current(after),
                        a.lead, b.lead
                 PROVE  a = b
      BY DEF OneLeadIn
    <2>1. a.person = b.person  BY <1>4
    <2>2. a \in after /\ b \in after  BY DEF Current
    <2>3. a = b \/ a.id \in B  BY <1>3, <2>1, <2>2 DEF RowsOK, RepeatsOnly
    <2> QED  BY <2>3
  <1> QED  BY <1>3, <1>4, <1>5 DEF People, after

LEMMA WorkingOK ==
    ASSUME NEW q \in Page, NEW B, version[q.owner] \in Nat, Distinct(q.list),
           RowsOK(rows[q.owner], version[q.owner], B)
    PROVE  /\ RowsOK(Working(q), version[q.owner] + 1, B)
           /\ PlacedIffCurrent(Working(q))
           /\ People(Current(Working(q))) = Elements(q.list)
  <1> DEFINE R == rows[q.owner]
             after == Working(q)
  <1>1. R \subseteq Row /\ q.list \in Seq(Person)  BY DEF RowsOK, Page
  <1>2. PICK put, J, new :
           /\ Rebuilt(after, R, version[q.owner], q.list, put, J, new)
           /\ \A r \in R : /\ ~put[r].retired <=> r.person \in Elements(q.list)
                           /\ put[r].retired <=> put[r].place = 0
           /\ J = {k \in 1..Len(q.list) : q.list[k] \notin People(R)}
           /\ \A j \in J : ~new[j].retired /\ new[j].place # 0
    BY <1>1, WorkingRebuilds
  <1> HIDE DEF after
  <1>3. RowsOK(after, version[q.owner] + 1, B)
    BY <1>1, <1>2, RebuiltOK
  <1>4. \A a \in after : /\ a.retired <=> a.place = 0
                         /\ ~a.retired => a.person \in Elements(q.list)
    <2> SUFFICES ASSUME NEW a \in after
                 PROVE  /\ a.retired <=> a.place = 0
                        /\ ~a.retired => a.person \in Elements(q.list)
      OBVIOUS
    <2>1. CASE \E r \in R : a = put[r]
      <3>1. PICK r \in R : a = put[r]  BY <2>1
      <3>2. a.person = r.person  BY <3>1, <1>2 DEF Rebuilt
      <3> QED  BY <3>1, <3>2, <1>2
    <2>2. CASE \E j \in J : a = new[j]
      <3>1. PICK j \in J : a = new[j]  BY <2>2
      <3>2. a.person = q.list[j] /\ j \in 1..Len(q.list)  BY <3>1, <1>2 DEF Rebuilt
      <3>3. ~a.retired /\ a.place # 0  BY <3>1, <1>2
      <3> QED  BY <3>2, <3>3 DEF Elements
    <2> QED  BY <2>1, <2>2, <1>2, RebuiltRows
  <1>5. ASSUME NEW p \in Elements(q.list)
        PROVE  \E a \in after : ~a.retired /\ a.person = p
    <2>1. PICK k \in 1..Len(q.list) : q.list[k] = p  BY DEF Elements
    <2>2. CASE p \in People(R)
      <3>1. PICK r \in R : r.person = p  BY <2>2 DEF People
      <3>2. put[r] \in after /\ put[r].person = p  BY <3>1, <1>2 DEF Rebuilt
      <3>3. ~put[r].retired  BY <3>1, <1>2
      <3> QED  BY <3>2, <3>3
    <2>3. CASE p \notin People(R)
      <3>1. k \in J  BY <2>1, <2>3, <1>2
      <3>2. new[k] \in after /\ new[k].person = p  BY <2>1, <3>1, <1>2 DEF Rebuilt
      <3>3. ~new[k].retired  BY <3>1, <1>2
      <3> QED  BY <3>2, <3>3
    <2> QED  BY <2>2, <2>3
  <1>6. People(Current(after)) = Elements(q.list)
    BY <1>4, <1>5 DEF People, Current
  <1> QED  BY <1>3, <1>4, <1>6 DEF PlacedIffCurrent, after

(* The first of the former rows of a person is one row.                    *)
LEMMA OneFormerRow ==
    ASSUME NEW o, NEW p, rows[o] \subseteq Row, UniqueIds(rows[o]),
           NEW r \in Former(o, p), NEW s \in Former(o, p)
    PROVE  r = s
  <1>1. /\ r \in rows[o] /\ s \in rows[o]
        /\ Before(r.id, s.id) /\ Before(s.id, r.id)
    BY DEF Former
  <1>2. r.id \in Nat \X Nat /\ s.id \in Nat \X Nat  BY <1>1 DEF Row, Id
  <1>3. r.id[1] = s.id[1] /\ r.id[2] = s.id[2]  BY <1>1, <1>2 DEF Before
  <1>4. r.id = s.id  BY <1>2, <1>3
  <1> QED  BY <1>1, <1>4 DEF UniqueIds

LEMMA AttendingOK ==
    ASSUME NEW q \in Page, NEW B, version[q.owner] \in Nat, Distinct(q.list),
           RowsOK(rows[q.owner], version[q.owner], B), DistinctPlaces(rows[q.owner]),
           NEW last \in LastPlace(q.owner, q.keep)
    PROVE  /\ RowsOK(Attending(q, last), version[q.owner] + 1, B)
           /\ DistinctPlaces(Attending(q, last))
           /\ People(Current(Attending(q, last))) \subseteq
                 Elements(q.list) \cup People(Current(rows[q.owner]))
           /\ \A a \in Current(Attending(q, last)) \ Current(rows[q.owner]) :
                 /\ \A s \in Current(rows[q.owner]) : s.id # a.id
                 /\ \A s \in rows[q.owner] : s.place < a.place
  <1> DEFINE R == rows[q.owner]
             after == Attending(q, last)
  <1>1. R \subseteq Row /\ q.list \in Seq(Person) /\ Len(q.list) \in Nat  BY DEF RowsOK, Page
  <1>2. last \in Nat /\ \A r \in R : r.place \in Nat /\ r.place <= last
    BY <1>1 DEF LastPlace, Row
  <1>3. PICK put, J, new :
           /\ Rebuilt(after, R, version[q.owner], q.list, put, J, new)
           /\ \A r \in R : ~put[r].retired =>
                 \/ put[r] = r
                 \/ /\ r \in Former(q.owner, r.person) /\ r.person \in Elements(q.list)
                    /\ put[r].place = last + IndexIn(q.list, r.person)
           /\ \A j \in J : new[j].place = last + j
    BY <1>1, <1>2, AttendingRebuilds
  <1> HIDE DEF after
  <1>4. RowsOK(after, version[q.owner] + 1, B)
    BY <1>1, <1>3, RebuiltOK
  <1> DEFINE Kept(a) == a \in Current(R)
             Back(a, n) == \E r \in R : a = put[r] /\ r \in Former(q.owner, q.list[n])
             Joined(a, n) == n \in J /\ a = new[n]
             At(a, n) == a.place = last + n /\ a.person = q.list[n] /\ (Back(a, n) \/ Joined(a, n))
  <1>5. ASSUME NEW a \in Current(after)
        PROVE  Kept(a) \/ \E n \in 1..Len(q.list) : At(a, n)
    <2>1. a \in after /\ ~a.retired  BY DEF Current
    <2>2. CASE \E r \in R : a = put[r]
      <3>1. PICK r \in R : a = put[r]  BY <2>2
      <3>2. a.person = r.person  BY <3>1, <1>3 DEF Rebuilt
      <3>3. CASE a = r  BY <3>3, <2>1 DEF Current
      <3>4. CASE /\ r \in Former(q.owner, r.person) /\ r.person \in Elements(q.list)
                 /\ a.place = last + IndexIn(q.list, r.person)
        <4>1. PICK n \in 1..Len(q.list) : n = IndexIn(q.list, r.person) /\ q.list[n] = r.person
          BY <3>4, IndexFound
        <4>2. Back(a, n)  BY <3>1, <3>4, <4>1
        <4> QED  BY <3>2, <3>4, <4>1, <4>2
      <3> QED  BY <3>1, <3>3, <3>4, <2>1, <1>3
    <2>3. CASE \E j \in J : a = new[j]
      <3>1. PICK j \in J : a = new[j]  BY <2>3
      <3>2. a.person = q.list[j] /\ j \in 1..Len(q.list)  BY <3>1, <1>3 DEF Rebuilt
      <3>3. a.place = last + j  BY <3>1, <1>3
      <3>4. At(a, j)  BY <3>1, <3>2, <3>3
      <3> QED  BY <3>2, <3>4
    <2> QED  BY <2>1, <2>2, <2>3, <1>3, RebuiltRows
  <1>6. ASSUME NEW n \in 1..Len(q.list), NEW a, NEW b, At(a, n), At(b, n)
        PROVE  a = b
    <2>1. \A r \in R, j \in J : r \in Former(q.owner, q.list[n]) => j # n
      BY <1>3 DEF Former, People, Rebuilt
    <2>2. CASE Joined(a, n)  BY <2>1, <2>2, <1>6
    <2>3. CASE Back(a, n)
      <3>1. PICK r \in R : a = put[r] /\ r \in Former(q.owner, q.list[n])  BY <2>3
      <3>2. PICK s \in R : b = put[s] /\ s \in Former(q.owner, q.list[n])  BY <3>1, <2>1, <1>6
      <3>3. r = s  BY <3>1, <3>2, <1>1, OneFormerRow DEF RowsOK
      <3> QED  BY <3>1, <3>2, <3>3
    <2> QED  BY <2>2, <2>3, <1>6
  <1>7. \A n \in 1..Len(q.list) : \A a : At(a, n) => a.place = last + n /\ last < last + n
    BY <1>1, <1>2
  <1> HIDE DEF At
  <1>8. \A a : Kept(a) => a \in R /\ a.place \in Nat /\ a.place <= last  BY <1>2 DEF Current
  <1>9. DistinctPlaces(after)
    <2> SUFFICES ASSUME NEW a \in Current(after), NEW b \in Current(after), a.place = b.place
                 PROVE  a = b
      BY DEF DistinctPlaces
    <2>1. CASE Kept(a) /\ Kept(b)  BY <2>1 DEF DistinctPlaces
    <2>2. CASE Kept(a) /\ \E n \in 1..Len(q.list) : At(b, n)  BY <2>2, <1>2, <1>7, <1>8
    <2>3. CASE Kept(b) /\ \E n \in 1..Len(q.list) : At(a, n)  BY <2>3, <1>2, <1>7, <1>8
    <2>4. ASSUME NEW n \in 1..Len(q.list), NEW m \in 1..Len(q.list), At(a, n), At(b, m)
          PROVE  a = b
      <3>1. n = m  BY <2>4, <1>2, <1>7
      <3> QED  BY <2>4, <3>1, <1>6
    <2> QED  BY <2>1, <2>2, <2>3, <2>4, <1>5
  <1>10. People(Current(after)) \subseteq Elements(q.list) \cup People(Current(R))
    <2>1. \A n \in 1..Len(q.list) : \A a : At(a, n) => a.person \in Elements(q.list)
      BY DEF At, Elements
    <2> QED  BY <2>1, <1>5 DEF People
  <1>11. \A a \in Current(after) \ Current(R), s \in R : s.place < a.place
    <2> SUFFICES ASSUME NEW a \in Current(after) \ Current(R), NEW s \in R
                 PROVE  s.place < a.place
      OBVIOUS
    <2>1. PICK n \in 1..Len(q.list) : At(a, n)  BY <1>5
    <2> QED  BY <2>1, <1>1, <1>2, <1>7
  <1>12. \A a \in Current(after) \ Current(R), s \in Current(R) : s.id # a.id
    <2> SUFFICES ASSUME NEW a \in Current(after) \ Current(R), NEW s \in Current(R)
                 PROVE  s.id # a.id
      OBVIOUS
    <2>1. PICK n \in 1..Len(q.list) : At(a, n)  BY <1>5
    <2>2. s \in R /\ ~s.retired  BY DEF Current
    <2>3. CASE Back(a, n)
      <3>1. PICK r \in R : a = put[r] /\ r.retired  BY <2>3 DEF Former
      <3>2. a.id = r.id  BY <3>1, <1>3 DEF Rebuilt
      <3> QED  BY <2>2, <3>1, <3>2 DEF RowsOK, UniqueIds
    <2>4. CASE Joined(a, n)
      <3>1. a.id = <<version[q.owner], n>>  BY <2>4, <1>3 DEF Rebuilt
      <3>2. s.id[1] < version[q.owner] /\ s.id[1] \in Nat
        BY <2>2, <1>1 DEF RowsOK, NumberedBefore, Row, Id
      <3> QED  BY <3>1, <3>2
    <2> QED  BY <2>1, <2>3, <2>4 DEF At
  <1> QED  BY <1>4, <1>9, <1>10, <1>11, <1>12 DEF after

-----------------------------------------------------------------------------
LEMMA SoleAssigneeOfSet ==
    ASSUME NEW S, NEW p \in Person, People(Current(S)) = {p}
    PROVE  SoleAssignee(S) = p
  <1>1. \A x \in Person : People(Current(S)) = {x} => x = p  OBVIOUS
  <1> QED  BY <1>1 DEF SoleAssignee

LEMMA SoleAssigneeType ==
    ASSUME NEW S PROVE SoleAssignee(S) \in Person \cup {None}
  BY DEF SoleAssignee

(* The column agrees with the list that was sent.                          *)
LEMMA ScalarIsSole ==
    ASSUME NEW q \in Page, Distinct(q.list), NEW S, People(Current(S)) = Elements(q.list)
    PROVE  Scalar(q) = SoleAssignee(S)
  <1>1. q.list \in Seq(Person) /\ Len(q.list) \in Nat  BY DEF Page
  <1>2. \A k \in 1..Len(q.list) : q.list[k] \in Person  BY <1>1
  <1>3. CASE Len(q.list) = 1
    <2>1. q.list[1] \in Person /\ Elements(q.list) = {q.list[1]}  BY <1>2, <1>3 DEF Elements
    <2>2. SoleAssignee(S) = q.list[1]  BY <2>1, SoleAssigneeOfSet
    <2> QED  BY <2>2, <1>3 DEF Scalar
  <1>4. CASE Len(q.list) # 1
    <2>1. ASSUME NEW p \in Person, Elements(q.list) = {p} PROVE FALSE
      <3>1. p \in Elements(q.list)  BY <2>1
      <3>2. PICK k \in 1..Len(q.list) : q.list[k] = p  BY <3>1 DEF Elements
      <3> DEFINE m == Len(q.list)
      <3>3. m \in Nat /\ k \in 1..m /\ m # 1  BY <1>1, <1>4
      <3> HIDE DEF m
      <3>4. 1 \in 1..m /\ 2 \in 1..m  BY <3>3
      <3>5. 1 \in 1..Len(q.list) /\ 2 \in 1..Len(q.list)  BY <3>4 DEF m
      <3>6. q.list[1] \in Elements(q.list) /\ q.list[2] \in Elements(q.list)
        BY <3>5 DEF Elements
      <3>7. q.list[1] = q.list[2]  BY <3>6, <2>1
      <3>8. 1 = 2  BY <3>5, <3>7 DEF Distinct
      <3> QED  BY <3>8
    <2>2. SoleAssignee(S) = None  BY <2>1 DEF SoleAssignee
    <2> QED  BY <2>2, <1>4 DEF Scalar
  <1> QED  BY <1>3, <1>4

LEMMA FormTypes ==
    ASSUME Inv, NEW f \in Form, Open(f)
    PROVE  /\ form[f] \in Page /\ form[f].owner \in Owner /\ Distinct(form[f].list)
           /\ ListOK(form[f].owner, rows[form[f].owner], version[form[f].owner])
           /\ version[form[f].owner] \in Nat
  BY DEF Inv, TablesOK, ListsOK, FormsOK, FormOK, Page

(* Storing a sound list, with the column that agrees with it, keeps the    *)
(* invariant: forms that showed the list before are stale now, unless the  *)
(* list is the same.                                                       *)
LEMMA Stored ==
    ASSUME Inv, NEW f \in Form, Open(f), NEW after, Store(f, after), active' = active,
           ListOK(form[f].owner, after, version[form[f].owner] + 1),
           assigned' \in [Work -> Person \cup {None}],
           \A w \in Work : assigned'[w] = SoleAssignee(rows'[w])
    PROVE  Inv'
  <1>1. PICK o \in Owner : o = form[f].owner  BY FormTypes
  <1>2. /\ rows = [x \in Owner |-> rows[x]] /\ version \in [Owner -> Nat]
        /\ form = [g \in Form |-> form[g]] /\ active \in [Person -> BOOLEAN]
    BY DEF Inv, TablesOK
  <1>3. /\ rows' = [rows EXCEPT ![o] = after]
        /\ version' = IF after = rows[o] THEN version ELSE [version EXCEPT ![o] = @ + 1]
        /\ form' = [form EXCEPT ![f] = Spent]
    BY <1>1 DEF Store
  <1>4. rows'[o] = after /\ \A x \in Owner : x # o => rows'[x] = rows[x] /\ version'[x] = version[x]
    BY <1>2, <1>3
  <1>5. \/ after = rows[o] /\ version'[o] = version[o]
        \/ version'[o] = version[o] + 1
    BY <1>2, <1>3
  <1>6. form'[f] = Spent /\ \A g \in Form : g # f => form'[g] = form[g]  BY <1>2, <1>3
  <1>7. TablesOK'
    <2>1. version' \in [Owner -> Nat]  BY <1>2, <1>3
    <2>2. rows' = [x \in Owner |-> rows'[x]]  BY <1>2, <1>3
    <2>3. form' = [g \in Form |-> form'[g]]  BY <1>2, <1>3
    <2> QED  BY <1>2, <2>1, <2>2, <2>3 DEF TablesOK
  <1>8. ListsOK'
    <2> SUFFICES ASSUME NEW x \in Owner PROVE ListOK(x, rows'[x], version'[x])
      BY DEF ListsOK
    <2>1. ListOK(x, rows[x], version[x])  BY DEF Inv, ListsOK
    <2> QED  BY <2>1, <1>1, <1>4, <1>5
  <1>9. ScalarAgrees'  BY DEF ScalarAgrees
  <1>10. FormsOK'
    <2> SUFFICES ASSUME NEW g \in Form, Open(g)'
                 PROVE  FormOK(form'[g], rows'[form'[g].owner], version'[form'[g].owner])
      BY DEF FormsOK
    <2>1. g # f /\ form'[g] = form[g] /\ Open(g)  BY <1>6 DEF Open
    <2>2. PICK x \in Owner : x = form[g].owner  BY <2>1, FormTypes
    <2>3. FormOK(form[g], rows[x], version[x])  BY <2>1, <2>2 DEF Inv, FormsOK
    <2>4. CASE x # o \/ (after = rows[o] /\ version'[o] = version[o])
      BY <2>1, <2>2, <2>3, <2>4, <1>4
    <2>5. CASE x = o /\ version'[o] = version[o] + 1
      <3>1. form[g].version \in Nat /\ version[o] \in Nat  BY <2>3, <1>2 DEF FormOK, Page
      <3>2. form[g].version <= version[o]  BY <2>3, <2>5 DEF FormOK
      <3>3. FormOK(form[g], rows'[o], version[o] + 1)  BY <2>3, <3>1, <3>2 DEF FormOK
      <3> QED  BY <2>1, <2>2, <2>5, <3>3
    <2> QED  BY <2>4, <2>5, <1>5
  <1> QED  BY <1>7, <1>8, <1>9, <1>10 DEF Inv

LEMMA InitInv == Init => Inv
  <1> SUFFICES ASSUME Init PROVE Inv
    OBVIOUS
  <1>1. TablesOK
    BY SoleAssigneeType DEF Init, TablesOK
  <1>2. ListsOK
    <2> SUFFICES ASSUME NEW o \in Owner PROVE ListOK(o, Imported[o], 1)
      BY DEF Init, ListsOK
    <2>1. Imported[o] \subseteq Row /\ IsFiniteSet(Imported[o])  BY ImportedAssumption
    <2>2. UniqueIds(Imported[o]) /\ NumberedBefore(Imported[o], 1)
      BY ImportedAssumption DEF UniqueIds, NumberedBefore
    <2>3. RepeatsOnly(Imported[o], Repeated(o))
      BY ImportedAssumption DEF RepeatsOnly, Repeated
    <2>4. o \in Hearing => DistinctPlaces(Imported[o])
      BY ImportedAssumption DEF DistinctPlaces, Current
    <2>5. o \in Work => PlacedIffCurrent(Imported[o])
      BY ImportedAssumption DEF PlacedIffCurrent
    <2> QED  BY <2>1, <2>2, <2>3, <2>4, <2>5 DEF ListOK, RowsOK
  <1>3. ScalarAgrees  BY DEF Init, ScalarAgrees, Owner
  <1>4. FormsOK  BY DEF Init, FormsOK, Open
  <1> QED  BY <1>1, <1>2, <1>3, <1>4 DEF Inv

LEMMA OpenFormInv ==
    ASSUME Inv, NEW f \in Form, OpenForm(f)
    PROVE  Inv'
  <1>1. PICK o \in Owner :
        \E keep \in SUBSET {r.id : r \in Current(rows[o])}, n \in 0..Cardinality(Person) :
        \E list \in [1..n -> Person], lead \in Person \cup {None} :
           /\ form[f] = Unused
           /\ Distinct(list) /\ \A i \in 1..n : Offered(o, list[i])
           /\ IF o \in Hearing
              THEN \A i \in 1..n : list[i] \notin People(Current(rows[o]))
              ELSE keep = {}
           /\ lead # None => o \in Matter /\ lead \in Elements(list)
           /\ form' = [form EXCEPT ![f] =
                         [owner |-> o, version |-> version[o], keep |-> keep, list |-> list,
                          lead |-> lead, shown |-> Current(rows[o])]]
           /\ UNCHANGED <<active, rows, version, assigned>>
    BY Zenon DEF OpenForm
  <1>2. PICK keep \in SUBSET {r.id : r \in Current(rows[o])}, n \in 0..Cardinality(Person) :
        \E list \in [1..n -> Person], lead \in Person \cup {None} :
           /\ form[f] = Unused
           /\ Distinct(list)
           /\ IF o \in Hearing
              THEN \A i \in 1..n : list[i] \notin People(Current(rows[o]))
              ELSE keep = {}
           /\ form' = [form EXCEPT ![f] =
                         [owner |-> o, version |-> version[o], keep |-> keep, list |-> list,
                          lead |-> lead, shown |-> Current(rows[o])]]
           /\ UNCHANGED <<active, rows, version, assigned>>
    BY <1>1
  <1>3. PICK list \in [1..n -> Person], lead \in Person \cup {None} :
           /\ form[f] = Unused
           /\ Distinct(list)
           /\ IF o \in Hearing
              THEN \A i \in 1..n : list[i] \notin People(Current(rows[o]))
              ELSE keep = {}
           /\ form' = [form EXCEPT ![f] =
                         [owner |-> o, version |-> version[o], keep |-> keep, list |-> list,
                          lead |-> lead, shown |-> Current(rows[o])]]
           /\ UNCHANGED <<active, rows, version, assigned>>
    BY <1>2
  <1>4. form = [g \in Form |-> form[g]] /\ version \in [Owner -> Nat] /\ rows[o] \subseteq Row
    BY DEF Inv, TablesOK, ListsOK, ListOK, RowsOK
  <1>5. /\ form' = [g \in Form |-> form'[g]]
        /\ \A g \in Form : g # f => form'[g] = form[g]
        /\ form'[f] = [owner |-> o, version |-> version[o], keep |-> keep, list |-> list,
                       lead |-> lead, shown |-> Current(rows[o])]
    BY <1>3, <1>4
  <1>6. FormOK(form'[f], rows[o], version[o])
    <2>1. Cardinality(Person) \in Nat  BY OwnersAssumption, FS_CardinalityType
    <2>2. n \in Nat  BY <2>1
    <2>3. list \in Seq(Person) /\ Len(list) = n  BY <2>2
    <2>4. keep \subseteq Id /\ Current(rows[o]) \subseteq Row  BY <1>4 DEF Current, Row
    <2>5. form'[f] \in Page  BY <1>4, <1>5, <2>3, <2>4 DEF Page
    <2>6. o \in Hearing => Elements(list) \cap People(Current(rows[o])) = {}
      BY <1>3, <2>3 DEF Elements
    <2> QED  BY <1>3, <1>4, <1>5, <2>5, <2>6 DEF FormOK
  <1>7. FormsOK'
    <2> SUFFICES ASSUME NEW g \in Form, Open(g)'
                 PROVE  FormOK(form'[g], rows[form'[g].owner], version[form'[g].owner])
      BY <1>3 DEF FormsOK
    <2>1. CASE g = f  BY <2>1, <1>5, <1>6
    <2>2. CASE g # f  BY <2>2, <1>5 DEF Inv, FormsOK, Open
    <2> QED  BY <2>1, <2>2
  <1>8. TablesOK'  BY <1>3, <1>5 DEF Inv, TablesOK
  <1>9. ListsOK' /\ ScalarAgrees'  BY <1>3 DEF Inv, ListsOK, ScalarAgrees
  <1> QED  BY <1>7, <1>8, <1>9 DEF Inv

LEMMA SaveMatterInv ==
    ASSUME Inv, NEW f \in Form, SaveMatter(f)
    PROVE  /\ Inv'
           /\ Fresh(form[f]) /\ Eligible(form[f])
           /\ People(Current(rows'[form[f].owner])) \subseteq Elements(form[f].list)
  <1>1. Open(f) /\ Accepted(form[f]) /\ form[f].owner \in Matter  BY DEF SaveMatter
  <1>2. PICK q \in Page : q = form[f]  BY <1>1, FormTypes
  <1>3. /\ q.owner \in Owner /\ Distinct(q.list) /\ version[q.owner] \in Nat
        /\ RowsOK(rows[q.owner], version[q.owner], Repeated(q.owner))
    BY <1>1, <1>2, FormTypes DEF ListOK
  <1>4. PICK n \in 0..Len(q.list) : n = Len(q.list)  BY DEF Page
  <1>5. q.owner \notin Hearing /\ q.owner \notin Work  BY <1>1, <1>2, OwnersAssumption
  <1>6. /\ RowsOK(Assigned(q, n), version[q.owner] + 1, Repeated(q.owner))
        /\ People(Current(Assigned(q, n))) \subseteq Elements(q.list)
    BY <1>3, AssignedOK
  <1>7. ListOK(q.owner, Assigned(q, n), version[q.owner] + 1)
    BY <1>5, <1>6 DEF ListOK
  <1>8. Store(f, Assigned(q, n)) /\ active' = active /\ assigned' = assigned
    BY <1>2, <1>4 DEF SaveMatter
  <1>9. rows'[q.owner] = Assigned(q, n) /\ \A w \in Work : rows'[w] = rows[w]
    BY <1>2, <1>3, <1>5, <1>8 DEF Store, Inv, TablesOK, Owner
  <1>10. \A w \in Work : assigned'[w] = SoleAssignee(rows'[w])
    BY <1>8, <1>9 DEF Inv, ScalarAgrees
  <1>11. assigned' \in [Work -> Person \cup {None}]  BY <1>8 DEF Inv, TablesOK
  <1>12. Inv'
    BY <1>1, <1>2, <1>7, <1>8, <1>10, <1>11, Stored
  <1> QED  BY <1>1, <1>2, <1>6, <1>9, <1>12 DEF Accepted

LEMMA SaveWorkInv ==
    ASSUME Inv, NEW f \in Form, SaveWork(f)
    PROVE  /\ Inv'
           /\ Fresh(form[f]) /\ Eligible(form[f])
           /\ People(Current(rows'[form[f].owner])) \subseteq Elements(form[f].list)
  <1>1. Open(f) /\ Accepted(form[f]) /\ form[f].owner \in Work  BY DEF SaveWork
  <1>2. PICK q \in Page : q = form[f]  BY <1>1, FormTypes
  <1>3. /\ q.owner \in Owner /\ Distinct(q.list) /\ version[q.owner] \in Nat
        /\ RowsOK(rows[q.owner], version[q.owner], Repeated(q.owner))
    BY <1>1, <1>2, FormTypes DEF ListOK
  <1>5. q.owner \in Work /\ q.owner \notin Hearing  BY <1>1, <1>2, OwnersAssumption
  <1>6. /\ RowsOK(Working(q), version[q.owner] + 1, Repeated(q.owner))
        /\ PlacedIffCurrent(Working(q))
        /\ People(Current(Working(q))) = Elements(q.list)
    BY <1>3, WorkingOK
  <1>7. ListOK(q.owner, Working(q), version[q.owner] + 1)
    BY <1>5, <1>6 DEF ListOK
  <1>8. /\ Store(f, Working(q)) /\ active' = active
        /\ assigned' = [assigned EXCEPT ![q.owner] = Scalar(q)]
    BY <1>2 DEF SaveWork
  <1>9. rows'[q.owner] = Working(q) /\ \A w \in Work : w # q.owner => rows'[w] = rows[w]
    BY <1>2, <1>3, <1>8 DEF Store, Inv, TablesOK, Owner
  <1>10. Scalar(q) = SoleAssignee(Working(q))  BY <1>3, <1>6, ScalarIsSole
  <1>11. \A w \in Work : assigned[w] = SoleAssignee(rows[w])  BY DEF Inv, ScalarAgrees
  <1>12. assigned \in [Work -> Person \cup {None}]  BY DEF Inv, TablesOK
  <1>13. \A w \in Work : assigned'[w] = SoleAssignee(rows'[w])
    BY <1>5, <1>8, <1>9, <1>10, <1>11, <1>12
  <1>14. assigned' \in [Work -> Person \cup {None}]
    BY <1>5, <1>8, <1>10, <1>12, SoleAssigneeType
  <1>15. Inv'
    BY <1>1, <1>2, <1>7, <1>8, <1>13, <1>14, Stored
  <1> QED  BY <1>1, <1>2, <1>6, <1>9, <1>15 DEF Accepted

LEMMA SaveHearingInv ==
    ASSUME Inv, NEW f \in Form, SaveHearing(f)
    PROVE  /\ Inv'
           /\ Fresh(form[f]) /\ Eligible(form[f])
           /\ People(Current(rows'[form[f].owner])) \subseteq
                 Elements(form[f].list) \cup People(Current(rows[form[f].owner]))
           /\ \A a \in Current(rows'[form[f].owner]) \ Current(rows[form[f].owner]) :
                 /\ \A s \in Current(rows[form[f].owner]) : s.id # a.id
                 /\ \A s \in rows[form[f].owner] : s.place < a.place
  <1>1. Open(f) /\ Accepted(form[f]) /\ form[f].owner \in Hearing  BY DEF SaveHearing
  <1>2. PICK q \in Page : q = form[f]  BY <1>1, FormTypes
  <1>3. /\ q.owner \in Owner /\ Distinct(q.list) /\ version[q.owner] \in Nat
        /\ RowsOK(rows[q.owner], version[q.owner], Repeated(q.owner))
        /\ DistinctPlaces(rows[q.owner])
    BY <1>1, <1>2, FormTypes DEF ListOK
  <1>4. PICK n \in LastPlace(q.owner, q.keep) : Store(f, Attending(q, n))
    BY <1>2 DEF SaveHearing
  <1>5. q.owner \in Hearing /\ q.owner \notin Work  BY <1>1, <1>2, OwnersAssumption
  <1>6. /\ RowsOK(Attending(q, n), version[q.owner] + 1, Repeated(q.owner))
        /\ DistinctPlaces(Attending(q, n))
        /\ People(Current(Attending(q, n))) \subseteq
              Elements(q.list) \cup People(Current(rows[q.owner]))
        /\ \A a \in Current(Attending(q, n)) \ Current(rows[q.owner]) :
              /\ \A s \in Current(rows[q.owner]) : s.id # a.id
              /\ \A s \in rows[q.owner] : s.place < a.place
    BY <1>3, AttendingOK
  <1>7. ListOK(q.owner, Attending(q, n), version[q.owner] + 1)
    BY <1>5, <1>6 DEF ListOK
  <1>8. active' = active /\ assigned' = assigned  BY DEF SaveHearing
  <1>9. rows'[q.owner] = Attending(q, n) /\ \A w \in Work : rows'[w] = rows[w]
    BY <1>2, <1>3, <1>4, <1>5 DEF Store, Inv, TablesOK, Owner
  <1>10. \A w \in Work : assigned'[w] = SoleAssignee(rows'[w])
    BY <1>8, <1>9 DEF Inv, ScalarAgrees
  <1>11. assigned' \in [Work -> Person \cup {None}]  BY <1>8 DEF Inv, TablesOK
  <1>12. Inv'
    BY <1>1, <1>2, <1>4, <1>7, <1>8, <1>10, <1>11, Stored
  <1> QED  BY <1>1, <1>2, <1>6, <1>9, <1>12 DEF Accepted

LEMMA RefuseInv ==
    ASSUME Inv, NEW f \in Form, Refuse(f)
    PROVE  Inv'
  <1>1. /\ form' = [form EXCEPT ![f] = Spent]
        /\ UNCHANGED <<active, rows, version, assigned>>
    BY DEF Refuse
  <1>2. form = [g \in Form |-> form[g]]  BY DEF Inv, TablesOK
  <1>3. form' = [g \in Form |-> form'[g]]  BY <1>1, <1>2
  <1>4. form'[f] = Spent /\ \A g \in Form : g # f => form'[g] = form[g]  BY <1>1, <1>2
  <1>5. FormsOK'  BY <1>1, <1>4 DEF Inv, FormsOK, Open
  <1>6. TablesOK'  BY <1>1, <1>3 DEF Inv, TablesOK
  <1>7. ListsOK' /\ ScalarAgrees'  BY <1>1 DEF Inv, ListsOK, ScalarAgrees
  <1> QED  BY <1>5, <1>6, <1>7 DEF Inv

LEMMA SetActiveInv ==
    ASSUME Inv, NEW p \in Person, SetActive(p)
    PROVE  Inv'
  <1>1. active' \in [Person -> BOOLEAN] /\ UNCHANGED <<rows, version, assigned, form>>
    BY DEF SetActive, Inv, TablesOK
  <1>2. TablesOK'  BY <1>1 DEF Inv, TablesOK
  <1>3. ListsOK' /\ ScalarAgrees' /\ FormsOK'
    BY <1>1 DEF Inv, ListsOK, ScalarAgrees, FormsOK, Open
  <1> QED  BY <1>2, <1>3 DEF Inv

LEMMA StutterInv ==
    ASSUME Inv, UNCHANGED vars
    PROVE  Inv'
  BY DEF vars, Inv, TablesOK, ListsOK, ScalarAgrees, FormsOK, Open

LEMMA NextInv == Inv /\ [Next]_vars => Inv'
  <1> SUFFICES ASSUME Inv, [Next]_vars PROVE Inv'
    OBVIOUS
  <1>1. ASSUME NEW p \in Person, SetActive(p) PROVE Inv'  BY <1>1, SetActiveInv
  <1>2. ASSUME NEW f \in Form, OpenForm(f) PROVE Inv'  BY <1>2, OpenFormInv
  <1>3. ASSUME NEW f \in Form, SaveMatter(f) PROVE Inv'  BY <1>3, SaveMatterInv
  <1>4. ASSUME NEW f \in Form, SaveHearing(f) PROVE Inv'  BY <1>4, SaveHearingInv
  <1>5. ASSUME NEW f \in Form, SaveWork(f) PROVE Inv'  BY <1>5, SaveWorkInv
  <1>6. ASSUME NEW f \in Form, Refuse(f) PROVE Inv'  BY <1>6, RefuseInv
  <1>7. CASE UNCHANGED vars  BY <1>7, StutterInv
  <1> QED  BY <1>1, <1>2, <1>3, <1>4, <1>5, <1>6, <1>7 DEF Next

(* The invariant holds in every behaviour.                                 *)
THEOREM Invariance == Spec => []Inv
  BY InitInv, NextInv, PTL DEF Spec

-----------------------------------------------------------------------------
(* A person has one row per list, retired or not, except where the import  *)
(* brought several; no two attendees present share a place; and the column *)
(* with the single assignee agrees with the list, whatever forms were      *)
(* saved in whatever order (hearing_edit_save, task69_admin_assign,        *)
(* matter_edit_save).                                                      *)
THEOREM ListsStaySound == Spec => []ListsSound
  <1>1. Inv => ListsSound
    <2> SUFFICES ASSUME Inv PROVE ListsSound
      OBVIOUS
    <2>1. \A o \in Owner : ListOK(o, rows[o], version[o])  BY DEF Inv, ListsOK
    <2>2. OneRowPerPerson
      BY <2>1 DEF OneRowPerPerson, ListOK, RowsOK, RepeatsOnly, Repeated
    <2>3. PlacesAreDistinct
      BY <2>1 DEF PlacesAreDistinct, ListOK, DistinctPlaces, Owner
    <2>4. \A o \in Owner : rows[o] \subseteq Row /\ IsFiniteSet(rows[o])
      BY <2>1 DEF ListOK, RowsOK
    <2>5. \A w \in Work : \A r \in rows[w] : r.retired <=> r.place = 0
      BY <2>1 DEF ListOK, PlacedIffCurrent, Owner
    <2>6. \A f \in Form : form[f] \in Page \cup {Unused, Spent}
      BY DEF Inv, FormsOK, FormOK, Open
    <2>7. TypeOK  BY <2>4, <2>5, <2>6 DEF TypeOK, Inv, TablesOK
    <2> QED  BY <2>2, <2>3, <2>7 DEF ListsSound, Inv
  <1> QED  BY <1>1, Invariance, PTL

(* matter_edit_save releases the lead before it assigns another, so that   *)
(* the index on leads never refuses a list; and who was shown on the list  *)
(* is accepted, active or not, together with any active newcomers.         *)
THEOREM RefusalsAreJustified == Spec => []OnlyStaleOrIneligibleIsRefused
  <1>1. Inv => OnlyStaleOrIneligibleIsRefused
    <2> SUFFICES ASSUME Inv, NEW f \in Form, Open(f), NEW q \in Page, q = form[f], Fresh(q)
                 PROVE  /\ (\A p \in Elements(q.list) \ People(q.shown) : active[p])
                              => Accepted(q)
                        /\ q.owner \in Matter =>
                              \A i \in 0..Len(q.list) : OneLeadIn(Assigned(q, i))
      BY FormTypes DEF OnlyStaleOrIneligibleIsRefused
    <2>1. FormOK(q, rows[q.owner], version[q.owner])  BY DEF Inv, FormsOK
    <2>2. /\ q.shown = Current(rows[q.owner])
          /\ q.owner \in Hearing => Elements(q.list) \cap People(Current(rows[q.owner])) = {}
      BY <2>1 DEF FormOK, Fresh
    <2>4. (\A p \in Elements(q.list) \ People(q.shown) : active[p]) => Accepted(q)
      BY <2>2 DEF Accepted, Eligible, NoDuplicates
    <2>5. ASSUME q.owner \in Matter, NEW i \in 0..Len(q.list) PROVE OneLeadIn(Assigned(q, i))
      <3>1. Repeated(q.owner) = {}  BY <2>5, OwnersAssumption DEF Repeated
      <3>2. /\ Distinct(q.list) /\ version[q.owner] \in Nat
            /\ RowsOK(rows[q.owner], version[q.owner], {})
        BY <3>1, FormTypes DEF ListOK
      <3> QED  BY <3>2, AssignedOK
    <2> QED  BY <2>4, <2>5
  <1> QED  BY <1>1, Invariance, PTL

(* What every step keeps of the lists it does not save.                    *)
LEMMA OtherListsStay ==
    ASSUME Inv, NEW f \in Form, SaveMatter(f) \/ SaveHearing(f) \/ SaveWork(f),
           NEW o \in Owner, o # form[f].owner
    PROVE  rows'[o] = rows[o]
  <1>1. \E after : Store(f, after)  BY DEF SaveMatter, SaveHearing, SaveWork
  <1>2. PICK after : Store(f, after)  BY <1>1
  <1>3. rows = [x \in Owner |-> rows[x]]  BY DEF Inv, TablesOK
  <1> QED  BY <1>2, <1>3 DEF Store

LEMMA ListsChangeBySaving ==
    ASSUME Inv, [Next]_vars,
           ~\E f \in Form : SaveMatter(f) \/ SaveHearing(f) \/ SaveWork(f)
    PROVE  rows' = rows
  <1>1. ASSUME NEW p \in Person, SetActive(p) PROVE rows' = rows  BY <1>1 DEF SetActive
  <1>2. ASSUME NEW f \in Form, OpenForm(f) PROVE rows' = rows  BY <1>2 DEF OpenForm
  <1>3. ASSUME NEW f \in Form, Refuse(f) PROVE rows' = rows  BY <1>3 DEF Refuse
  <1>4. CASE UNCHANGED vars  BY <1>4 DEF vars
  <1> QED  BY <1>1, <1>2, <1>3, <1>4 DEF Next

(* Eligible is evaluated in the transaction that stores the list, so who   *)
(* was deactivated after the form was opened does not join (D60, D62,      *)
(* D46).                                                                   *)
THEOREM OnlyActiveStaffJoins == Spec => JoinersAreActive
  <1>1. Inv /\ [Next]_vars =>
           \A o \in Owner :
              \A p \in People(Current(rows'[o])) \ People(Current(rows[o])) : active[p]
    <2> SUFFICES ASSUME Inv, [Next]_vars, NEW o \in Owner,
                        NEW p \in People(Current(rows'[o])) \ People(Current(rows[o]))
                 PROVE  active[p]
      OBVIOUS
    <2>1. PICK f \in Form : SaveMatter(f) \/ SaveHearing(f) \/ SaveWork(f)
      BY ListsChangeBySaving
    <2>2. o = form[f].owner  BY <2>1, OtherListsStay
    <2>3. /\ Eligible(form[f])
          /\ People(Current(rows'[form[f].owner])) \subseteq
                Elements(form[f].list) \cup People(Current(rows[form[f].owner]))
      BY <2>1, SaveMatterInv, SaveHearingInv, SaveWorkInv
    <2> QED  BY <2>2, <2>3 DEF Eligible
  <1> QED  BY <1>1, Invariance, PTL DEF Spec, JoinersAreActive

(* The row of somebody a form keeps stays current when the list is stored. *)
LEMMA KeptByMatter ==
    ASSUME NEW q, NEW r \in Current(rows[q.owner]), r.person \in Elements(q.list),
           rows[q.owner] \subseteq Row
    PROVE  Stays(r, Assigned(q, Len(q.list)))
  <1>1. r \in Row /\ r \in rows[q.owner]  BY DEF Current
  <1> DEFINE s == [r EXCEPT !.lead = (r.person = q.lead), !.retired = FALSE]
  <1>2. r.person \in {q.list[j] : j \in 1..Len(q.list)}  BY DEF Elements
  <1>3. s \in Assigned(q, Len(q.list))  BY <1>1, <1>2 DEF Assigned
  <1>4. ~s.retired /\ s.id = r.id /\ s.person = r.person  BY <1>1 DEF Row
  <1> QED  BY <1>3, <1>4 DEF Current, Stays

LEMMA KeptByWork ==
    ASSUME NEW q, NEW r \in Current(rows[q.owner]), r.person \in Elements(q.list),
           rows[q.owner] \subseteq Row
    PROVE  Stays(r, Working(q))
  <1>1. r \in Row /\ r \in rows[q.owner]  BY DEF Current
  <1> DEFINE s == [r EXCEPT !.retired = FALSE, !.place = IndexIn(q.list, r.person)]
  <1>2. s \in Working(q)  BY <1>1 DEF Working
  <1>3. ~s.retired /\ s.id = r.id /\ s.person = r.person  BY <1>1 DEF Row
  <1> QED  BY <1>2, <1>3 DEF Current, Stays

LEMMA KeptByHearing ==
    ASSUME NEW q, NEW last, NEW r \in Current(rows[q.owner]), r.id \in q.keep
    PROVE  Stays(r, Attending(q, last))
  <1>1. r \in rows[q.owner] /\ ~r.retired  BY DEF Current
  <1>2. ~\E i \in 1..Len(q.list) : r \in Former(q.owner, q.list[i])  BY <1>1 DEF Former
  <1>3. r \in Attending(q, last)  BY <1>1, <1>2 DEF Attending
  <1> QED  BY <1>1, <1>3 DEF Current, Stays

(* The version check makes what a form displayed the list that it changes, *)
(* and each of the three saves leaves the rows that the form keeps.        *)
THEOREM NobodyIsRemovedUnseen == Spec => NobodyLeavesUnseen
  <1>1. Inv /\ [Next]_vars =>
           \A f \in Form : Open(f) /\ form'[f] = Spent =>
              \A r \in Current(rows[form[f].owner]) :
                 \/ Stays(r, rows'[form[f].owner])
                 \/ r \in form[f].shown /\ ~Keeps(form[f], r)
    <2> SUFFICES ASSUME Inv, [Next]_vars, NEW f \in Form, Open(f), form'[f] = Spent,
                        NEW r \in Current(rows[form[f].owner]),
                        ~Stays(r, rows'[form[f].owner])
                 PROVE  r \in form[f].shown /\ ~Keeps(form[f], r)
      OBVIOUS
    <2>1. rows' # rows  BY DEF Stays
    <2>2. PICK g \in Form : SaveMatter(g) \/ SaveHearing(g) \/ SaveWork(g)
      BY <2>1, ListsChangeBySaving
    <2>3. form = [x \in Form |-> form[x]]  BY DEF Inv, TablesOK
    <2>4. form' = [form EXCEPT ![g] = Spent]
      BY <2>2 DEF SaveMatter, SaveHearing, SaveWork, Store
    <2>5. g = f
      <3>1. form[f] # Spent  BY DEF Open
      <3> QED  BY <3>1, <2>3, <2>4
    <2>6. Fresh(form[f])  BY <2>2, <2>5, SaveMatterInv, SaveHearingInv, SaveWorkInv
    <2>7. FormOK(form[f], rows[form[f].owner], version[form[f].owner])  BY DEF Inv, FormsOK
    <2>8. r \in form[f].shown  BY <2>6, <2>7 DEF FormOK, Fresh
    <2>9. PICK q \in Page : q = form[f]  BY <2>7 DEF FormOK
    <2>10. q.owner \in Owner /\ rows[q.owner] \subseteq Row
      BY <2>9 DEF Page, Inv, ListsOK, ListOK, RowsOK
    <2>11. \A after : Store(f, after) => rows'[q.owner] = after
      BY <2>9, <2>10 DEF Store, Inv, TablesOK
    <2>12. ~Keeps(q, r)
      <3>1. CASE SaveMatter(f)
        <4>1. q.owner \notin Hearing  BY <2>9, <3>1, OwnersAssumption DEF SaveMatter
        <4>2. rows'[q.owner] = Assigned(q, Len(q.list))  BY <2>9, <2>11, <3>1 DEF SaveMatter
        <4> QED  BY <2>9, <2>10, <4>1, <4>2, KeptByMatter DEF Keeps
      <3>2. CASE SaveWork(f)
        <4>1. q.owner \notin Hearing  BY <2>9, <3>2, OwnersAssumption DEF SaveWork
        <4>2. rows'[q.owner] = Working(q)  BY <2>9, <2>11, <3>2 DEF SaveWork
        <4> QED  BY <2>9, <2>10, <4>1, <4>2, KeptByWork DEF Keeps
      <3>3. CASE SaveHearing(f)
        <4>1. q.owner \in Hearing  BY <2>9, <3>3 DEF SaveHearing
        <4>2. PICK n : rows'[q.owner] = Attending(q, n)  BY <2>9, <2>11, <3>3 DEF SaveHearing
        <4> QED  BY <2>9, <4>1, <4>2, KeptByHearing DEF Keeps
      <3> QED  BY <2>2, <2>5, <3>1, <3>2, <3>3
    <2> QED  BY <2>8, <2>9, <2>12
  <1> QED  BY <1>1, Invariance, PTL DEF Spec, NobodyLeavesUnseen

(* hearing_edit_save leaves the rows of those who stay, and gives places   *)
(* above the highest one ever given on the list, those of the former       *)
(* attendees included.                                                     *)
THEOREM ReturnsComeLast == Spec => AttendeesKeepTheirOrder
  <1>1. Inv /\ [Next]_vars =>
           \A h \in Hearing :
              \A r \in Current(rows'[h]) \ Current(rows[h]) :
                 /\ \A s \in Current(rows[h]) : s.id # r.id
                 /\ \A s \in rows[h] : s.place < r.place
    <2> SUFFICES ASSUME Inv, [Next]_vars, NEW h \in Hearing,
                        NEW r \in Current(rows'[h]) \ Current(rows[h])
                 PROVE  /\ \A s \in Current(rows[h]) : s.id # r.id
                        /\ \A s \in rows[h] : s.place < r.place
      OBVIOUS
    <2>1. h \in Owner  BY DEF Owner
    <2>2. PICK f \in Form : SaveMatter(f) \/ SaveHearing(f) \/ SaveWork(f)
      BY ListsChangeBySaving
    <2>3. h = form[f].owner  BY <2>1, <2>2, OtherListsStay
    <2>4. SaveHearing(f)  BY <2>2, <2>3, OwnersAssumption DEF SaveMatter, SaveWork
    <2> QED  BY <2>3, <2>4, SaveHearingInv
  <1> QED  BY <1>1, Invariance, PTL DEF Spec, AttendeesKeepTheirOrder
=============================================================================
