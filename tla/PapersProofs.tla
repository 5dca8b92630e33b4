---------------------------- MODULE PapersProofs ----------------------------
(***************************************************************************)
(* Theorems about Papers, for any papers, people, desks and forms and any  *)
(* bound of the versions.  The invariant has one part for the rows of each *)
(* kind of paper (RowsOK), which contains what the unique indexes and the  *)
(* compatibility check of the tables promise, and one for the forms        *)
(* (FormOK): a form that is not stale shows the paper as it is.            *)
(***************************************************************************)
EXTENDS Papers, FiniteSetTheorems, TLAPS

OneRowEach(rows) == \A x, y \in rows : x.of = y.of => x = y
OneCurrentEach(rows) == \A x, y \in rows : ~x.retired /\ ~y.retired /\ x.of = y.of => x = y
OnePlaceEach(rows) == \A x, y \in rows : x.place = y.place => x = y
OneCurrent(rows) == \A x, y \in rows : ~x.retired /\ ~y.retired => x = y

(* The current rows with members of S, those members, and whether their    *)
(* places are distinct.                                                    *)
Now(rows, S) == {x \in rows : x.of \in S /\ ~x.retired}
OfNow(rows, S) == {x.of : x \in Now(rows, S)}
Apart(rows, S) == \A x, y \in Now(rows, S) : x.place = y.place => x = y

SoleOf(rows, S, column) == \A m \in S : (column = m) <=> (OfNow(rows, S) = {m})

RowsOK(kind, rows) ==
    /\ rows \subseteq Row /\ \A x \in rows : x.of \in MembersOf(kind)
    /\ kind # "letter" => OneRowEach(rows)
    /\ kind = "letter" => OneCurrentEach(rows)
    /\ kind \in {"poa", "letter"} => OnePlaceEach(rows)
    /\ kind = "document" => Apart(rows, Matter) /\ Apart(rows, Person)
    /\ kind = "reference" => OneCurrent(rows)

ColumnsOK(kind, rows, matter, person) ==
    kind = "document" => SoleOf(rows, Matter, matter) /\ SoleOf(rows, Person, person)

PaperOK(kind, r) ==
    r \in PaperRow /\ RowsOK(kind, r.rows) /\ ColumnsOK(kind, r.rows, r.matter, r.person)

FormOK(q, papers) ==
    /\ q = [kind |-> q.kind, op |-> q.op, paper |-> q.paper, shown |-> q.shown,
            facts |-> q.facts, sent |-> q.sent]
    /\ q.kind \in Kind /\ q.op \in Operations(q.kind) \cup {"create"}
    /\ q.op = "create" => q.paper = None /\ q.shown = None
    /\ q.op # "create" =>
          /\ q.paper \in Paper /\ q.kind = KindOf[q.paper] /\ q.shown \in PaperRow
          /\ q.shown.version <= papers[q.paper].version
          /\ q.shown.version = papers[q.paper].version => q.shown = papers[q.paper]

TablesOK ==
    /\ paper \in [Paper -> PaperRow]
    /\ closed \subseteq Matter \cup Client /\ active \subseteq Person /\ desk \in Desks
    /\ form = [f \in Form |-> form[f]]
    /\ receipt \subseteq [form : Form, paper : Paper, version : Nat \ {0}]

PapersOK == \A p \in Paper : PaperOK(KindOf[p], paper[p])
FormsOK == \A f \in Form : Open(f) => FormOK(form[f], paper)

Inv == TablesOK /\ PapersOK /\ FormsOK /\ OneEffectPerForm

-----------------------------------------------------------------------------
(* Lists.                                                                  *)

LEMMA DeskFinite ==
    ASSUME Inv, NEW S
    PROVE  IsFiniteSet(S \cap desk)
  <1>1. IsFiniteSet(desk)  BY DesksAssumption DEF Inv, TablesOK
  <1> QED  BY <1>1, FS_Subset

(* A list: a selection is one.                                             *)
ListOf(list, S) ==
    /\ list \in Seq(S) /\ Len(list) \in Nat
    /\ \A i \in 1..Len(list) : list[i] \in S
    /\ \A i, j \in 1..Len(list) : list[i] = list[j] => i = j

Listing(list) == {list[i] : i \in 1..Len(list)}

LEMMA SelectionIsList ==
    ASSUME NEW S, IsFiniteSet(S), NEW list \in Selections(S), NEW T, S \subseteq T
    PROVE  ListOf(list, T) /\ ToSet(list) = Listing(list) /\ (list = <<>> <=> Listing(list) = {})
  <1>1. Cardinality(S) \in Nat  BY FS_CardinalityType
  <1>2. PICK n \in 0..Cardinality(S) :
           list \in {s \in [1..n -> S] : \A i, j \in 1..n : s[i] = s[j] => i = j}
    BY DEF Selections
  <1>3. n \in Nat  BY <1>1
  <1>4. list \in [1..n -> S] /\ \A i, j \in 1..n : list[i] = list[j] => i = j  BY <1>2
  <1>5. list \in Seq(T) /\ Len(list) = n  BY <1>3, <1>4
  <1>6. ListOf(list, T)  BY <1>3, <1>4, <1>5 DEF ListOf
  <1>7. ToSet(list) = Listing(list)  BY <1>4, <1>5 DEF ToSet, Listing
  <1>8. list = <<>> <=> Listing(list) = {}
    <2>1. list = <<>> => Listing(list) = {}  BY DEF Listing
    <2>2. n # 0 => 1 \in 1..n  BY <1>3
    <2>3. n # 0 => Listing(list) # {}  BY <2>2, <1>5 DEF Listing
    <2>4. n = 0 => list = <<>>  BY <1>5
    <2> QED  BY <2>1, <2>3, <2>4
  <1> QED  BY <1>6, <1>7, <1>8

LEMMA ContainsIsListed ==
    ASSUME NEW list, NEW e PROVE Contains(list, e) <=> e \in Listing(list)
  BY DEF Contains, Listing

LEMMA SoleIsSole ==
    ASSUME NEW S, NEW list, ListOf(list, S), NEW m \in S, None \notin S
    PROVE  (Sole(list) = m) <=> (Listing(list) = {m})
  <1>1. PICK n \in Nat : n = Len(list)  BY DEF ListOf
  <1>2. CASE n = 1
    <2>1. Listing(list) = {list[1]}  BY <1>1, <1>2 DEF Listing
    <2> QED  BY <2>1, <1>1, <1>2 DEF Sole
  <1>3. CASE n # 1
    <2>1. Sole(list) # m  BY <1>1, <1>3 DEF Sole
    <2>2. ASSUME Listing(list) = {m} PROVE FALSE
      <3>1. m \in Listing(list)  BY <2>2
      <3>2. PICK k \in 1..n : list[k] = m  BY <3>1, <1>1 DEF Listing
      <3>3. 1 \in 1..n /\ 2 \in 1..n  BY <3>2, <1>3
      <3>4. list[1] \in Listing(list) /\ list[2] \in Listing(list)
        BY <3>3, <1>1 DEF Listing
      <3>5. list[1] = list[2]  BY <3>4, <2>2
      <3>6. 1 = 2  BY <3>3, <3>5, <1>1 DEF ListOf
      <3> QED  BY <3>6
    <2> QED  BY <2>1, <2>2
  <1> QED  BY <1>2, <1>3

-----------------------------------------------------------------------------
(* What the operations make of the rows of a paper.                        *)

LEMMA EntryRow ==
    ASSUME NEW m \in Matter \cup Person \cup Paper, NEW n \in Nat
    PROVE  /\ Entry(m, n) \in Row
           /\ Entry(m, n).of = m /\ Entry(m, n).place = n /\ ~Entry(m, n).retired
  BY DEF Entry, Row

LEMMA PlacedRow ==
    ASSUME NEW S, NEW list, ListOf(list, S), NEW x \in Row
    PROVE  /\ Placed(x, list) \in Row /\ Placed(x, list).of = x.of
           /\ ~Placed(x, list).retired <=> x.of \in Listing(list)
           /\ x.of \in Listing(list) =>
                 \E i \in 1..Len(list) : list[i] = x.of /\ Placed(x, list).place = i
  <1>1. CASE x.of \in Listing(list)
    <2>1. PICK i \in 1..Len(list) : i = CHOOSE k \in 1..Len(list) : list[k] = x.of
      BY <1>1 DEF Listing
    <2>2. list[i] = x.of  BY <1>1, <2>1 DEF Listing
    <2>3. Placed(x, list) = [x EXCEPT !.retired = FALSE, !.place = i]
      BY <1>1, <2>1, ContainsIsListed DEF Placed
    <2>4. i \in Nat  BY DEF ListOf
    <2>5. /\ Placed(x, list) \in Row /\ Placed(x, list).of = x.of
          /\ Placed(x, list).retired = FALSE /\ Placed(x, list).place = i
      BY <2>3, <2>4 DEF Row
    <2> QED  BY <1>1, <2>2, <2>5
  <1>2. CASE x.of \notin Listing(list)
    <2>1. PICK n \in {0} : Placed(x, list) = [x EXCEPT !.retired = TRUE, !.place = n]
      BY <1>2, ContainsIsListed DEF Placed
    <2>2. n \in Nat  OBVIOUS
    <2>3. /\ Placed(x, list) \in Row /\ Placed(x, list).of = x.of
          /\ Placed(x, list).retired = TRUE
      BY <2>1, <2>2 DEF Row
    <2> QED  BY <1>2, <2>3
  <1> QED  BY <1>1, <1>2

(* Assigning a list to the members of S leaves one row per member, seats   *)
(* those on the list in its order, and leaves the members of T alone.      *)
LEMMA AssignedRows ==
    ASSUME NEW rows, NEW S, NEW T, NEW list, ListOf(list, S),
           rows \subseteq Row, OneRowEach(rows), \A x \in rows : x.of \in S \cup T,
           S \cap T = {}, S \subseteq Matter \cup Person \cup Paper
    PROVE  /\ Assigned(rows, S, list) \subseteq Row
           /\ \A x \in Assigned(rows, S, list) : x.of \in S \cup T
           /\ OneRowEach(Assigned(rows, S, list))
           /\ OfNow(Assigned(rows, S, list), S) = Listing(list)
           /\ Apart(Assigned(rows, S, list), S)
           /\ Now(Assigned(rows, S, list), T) = Now(rows, T)
  <1> DEFINE after == Assigned(rows, S, list)
             put(x) == IF x.of \in S THEN Placed(x, list) ELSE x
             new == Newcomers(rows, list)
  <1>1. after = {put(x) : x \in rows} \cup {Entry(list[i], i) : i \in new}
    BY DEF Assigned
  <1>2. \A x \in rows : /\ put(x) \in Row /\ put(x).of = x.of
                        /\ x.of \notin S => put(x) = x
                        /\ x.of \in S => (~put(x).retired <=> x.of \in Listing(list))
                        /\ x.of \in S /\ x.of \in Listing(list) =>
                              \E i \in 1..Len(list) : list[i] = x.of /\ put(x).place = i
    BY PlacedRow
  <1>3. \A i \in new : /\ i \in 1..Len(list) /\ i \in Nat /\ list[i] \in S
                       /\ \A x \in rows : x.of # list[i]
    BY DEF Newcomers, ListOf
  <1>4. \A i \in new : /\ Entry(list[i], i) \in Row /\ Entry(list[i], i).of = list[i]
                       /\ Entry(list[i], i).place = i /\ ~Entry(list[i], i).retired
    BY <1>3, EntryRow
  <1> HIDE DEF after, put, new
  <1>5. \A y \in after : \/ \E x \in rows : y = put(x)
                         \/ \E i \in new : y = Entry(list[i], i)
    BY <1>1
  <1>6. after \subseteq Row /\ \A y \in after : y.of \in S \cup T
    BY <1>2, <1>3, <1>4, <1>5
  <1>7. OneRowEach(after)
    <2> SUFFICES ASSUME NEW y \in after, NEW z \in after, y.of = z.of
                 PROVE  y = z
      BY DEF OneRowEach
    <2>1. CASE \E x \in rows : y = put(x)
      <3>1. PICK x \in rows : y = put(x)  BY <2>1
      <3>2. ~\E i \in new : z = Entry(list[i], i)  BY <3>1, <1>2, <1>3, <1>4
      <3>3. PICK w \in rows : z = put(w)  BY <3>2, <1>5
      <3>4. x = w  BY <3>1, <3>3, <1>2 DEF OneRowEach
      <3> QED  BY <3>1, <3>3, <3>4
    <2>2. CASE \E i \in new : y = Entry(list[i], i)
      <3>1. PICK i \in new : y = Entry(list[i], i)  BY <2>2
      <3>2. ~\E x \in rows : z = put(x)  BY <3>1, <1>2, <1>3, <1>4
      <3>3. PICK j \in new : z = Entry(list[j], j)  BY <3>2, <1>5
      <3>4. list[i] = list[j]  BY <3>1, <3>3, <1>4
      <3>5. i = j  BY <3>4, <1>3 DEF ListOf
      <3> QED  BY <3>1, <3>3, <3>5
    <2> QED  BY <2>1, <2>2, <1>5
  <1>8. \A y \in Now(after, S) :
           \E i \in 1..Len(list) : y.of = list[i] /\ y.place = i
    <2> SUFFICES ASSUME NEW y \in Now(after, S)
                 PROVE  \E i \in 1..Len(list) : y.of = list[i] /\ y.place = i
      OBVIOUS
    <2>1. y \in after /\ y.of \in S /\ ~y.retired  BY DEF Now
    <2>2. CASE \E x \in rows : y = put(x)  BY <2>1, <2>2, <1>2
    <2>3. CASE \E i \in new : y = Entry(list[i], i)  BY <2>3, <1>3, <1>4
    <2> QED  BY <2>1, <2>2, <2>3, <1>5
  <1>9. \A m \in Listing(list) : \E y \in Now(after, S) : y.of = m
    <2> SUFFICES ASSUME NEW m \in Listing(list) PROVE \E y \in Now(after, S) : y.of = m
      OBVIOUS
    <2>1. PICK i \in 1..Len(list) : list[i] = m  BY DEF Listing
    <2>2. m \in S  BY <2>1 DEF ListOf
    <2>3. CASE \E x \in rows : x.of = m
      <3>1. PICK x \in rows : x.of = m  BY <2>3
      <3>2. put(x) \in after  BY <1>1
      <3>3. ~put(x).retired /\ put(x).of = m  BY <3>1, <2>2, <1>2
      <3> QED  BY <3>2, <3>3, <2>2 DEF Now
    <2>4. CASE ~\E x \in rows : x.of = m
      <3>1. i \in new  BY <2>1, <2>4 DEF new, Newcomers
      <3>2. Entry(list[i], i) \in after  BY <3>1, <1>1
      <3> QED  BY <3>1, <3>2, <2>1, <2>2, <1>4 DEF Now
    <2> QED  BY <2>3, <2>4
  <1>10. OfNow(after, S) = Listing(list)
    <2>1. \A m \in OfNow(after, S) : m \in Listing(list)
      <3>1. \A m \in OfNow(after, S) : \E y \in Now(after, S) : m = y.of  BY DEF OfNow
      <3>2. \A y \in Now(after, S) : y.of \in Listing(list)  BY <1>8 DEF Listing
      <3> QED  BY <3>1, <3>2
    <2>2. \A y \in Now(after, S) : y.of \in OfNow(after, S)  BY DEF OfNow
    <2>3. \A m \in Listing(list) : m \in OfNow(after, S)  BY <2>2, <1>9
    <2> QED  BY <2>1, <2>3
  <1>11. Apart(after, S)
    <2> SUFFICES ASSUME NEW y \in Now(after, S), NEW z \in Now(after, S), y.place = z.place
                 PROVE  y = z
      BY DEF Apart
    <2>1. y.of = z.of  BY <1>8
    <2> QED  BY <2>1, <1>7 DEF Now, OneRowEach
  <1>12. Now(after, T) = Now(rows, T)
    <2>1. ASSUME NEW y \in Now(after, T) PROVE y \in Now(rows, T)
      <3>1. y \in after /\ y.of \in T /\ y.of \notin S /\ ~y.retired  BY <2>1 DEF Now
      <3>2. ~\E i \in new : y = Entry(list[i], i)  BY <3>1, <1>3, <1>4
      <3>3. PICK x \in rows : y = put(x)  BY <3>1, <3>2, <1>5
      <3>4. y = x  BY <3>1, <3>3, <1>2
      <3> QED  BY <3>1, <3>4 DEF Now
    <2>2. ASSUME NEW x \in Now(rows, T) PROVE x \in Now(after, T)
      <3>1. x \in rows /\ x.of \in T /\ x.of \notin S /\ ~x.retired  BY <2>2 DEF Now
      <3>2. put(x) = x /\ put(x) \in after  BY <3>1, <1>1, <1>2
      <3> QED  BY <3>1, <3>2 DEF Now
    <2> QED  BY <2>1, <2>2
  <1> QED  BY <1>6, <1>7, <1>10, <1>11, <1>12 DEF after

(* Both lists of a document: the columns hold what is alone on a list.     *)
LEMMA DocumentRows ==
    ASSUME NEW rows, RowsOK("document", rows),
           NEW matters, ListOf(matters, Matter), NEW people, ListOf(people, Person)
    PROVE  LET after == Assigned(Assigned(rows, Matter, matters), Person, people)
           IN  /\ RowsOK("document", after)
               /\ ColumnsOK("document", after, Sole(matters), Sole(people))
  <1>1. MembersOf("document") = Matter \cup Person  BY DEF MembersOf
  <1>2. rows \subseteq Row /\ OneRowEach(rows) /\ \A x \in rows : x.of \in Matter \cup Person
    BY <1>1 DEF RowsOK
  <1>3. PICK mid : mid = Assigned(rows, Matter, matters)  OBVIOUS
  <1>4. PICK after : after = Assigned(mid, Person, people)  OBVIOUS
  <1>5. /\ mid \subseteq Row /\ OneRowEach(mid) /\ \A x \in mid : x.of \in Matter \cup Person
        /\ OfNow(mid, Matter) = Listing(matters) /\ Apart(mid, Matter)
    BY <1>2, <1>3, AssignedRows, SetsAssumption
  <1>6. /\ \A x \in mid : x.of \in Person \cup Matter
        /\ Person \cap Matter = {} /\ Person \subseteq Matter \cup Person \cup Paper
    BY <1>5, SetsAssumption
  <1>7. /\ after \subseteq Row /\ OneRowEach(after) /\ \A x \in after : x.of \in Person \cup Matter
        /\ OfNow(after, Person) = Listing(people) /\ Apart(after, Person)
        /\ Now(after, Matter) = Now(mid, Matter)
    <2>1. mid \subseteq Row /\ OneRowEach(mid)  BY <1>5
    <2> QED  BY <2>1, <1>4, <1>6, AssignedRows
  <1>8. OfNow(after, Matter) = Listing(matters) /\ Apart(after, Matter)
    BY <1>5, <1>7 DEF OfNow, Apart
  <1>9. RowsOK("document", after)  BY <1>1, <1>7, <1>8 DEF RowsOK
  <1>10. SoleOf(after, Matter, Sole(matters)) /\ SoleOf(after, Person, Sole(people))
    BY <1>7, <1>8, SoleIsSole, SetsAssumption DEF SoleOf
  <1> QED  BY <1>3, <1>4, <1>9, <1>10 DEF ColumnsOK

(* The members of N up to i, counted, grow with i.                         *)
LEMMA RankGrows ==
    ASSUME NEW n \in Nat, NEW N, N \subseteq 1..n
    PROVE  /\ \A i \in N : Cardinality({j \in N : j <= i}) \in Nat \ {0}
           /\ \A i, k \in N : i < k => Cardinality({j \in N : j <= i}) < Cardinality({j \in N : j <= k})
  <1> DEFINE upto(i) == {j \in N : j <= i}
  <1>1. IsFiniteSet(N)
    <2>1. IsFiniteSet(1..n)  BY FS_Interval
    <2> QED  BY <2>1, FS_Subset
  <1>2. \A i : IsFiniteSet(upto(i)) /\ Cardinality(upto(i)) \in Nat
    <2>1. \A i : upto(i) \subseteq N  OBVIOUS
    <2>2. \A i : IsFiniteSet(upto(i))  BY <2>1, <1>1, FS_Subset
    <2> QED  BY <2>2, FS_CardinalityType
  <1>3. ASSUME NEW i \in N PROVE Cardinality(upto(i)) # 0
    <2>1. i \in upto(i)  OBVIOUS
    <2> HIDE DEF upto
    <2>2. upto(i) # {} /\ IsFiniteSet(upto(i))  BY <2>1, <1>2
    <2> QED  BY <2>2, FS_EmptySet
  <1>4. ASSUME NEW i \in N, NEW k \in N, i < k
        PROVE  Cardinality(upto(i)) < Cardinality(upto(k))
    <2>0. i \in Int /\ k \in Int /\ \A j \in N : j \in Int  OBVIOUS
    <2>1. upto(i) \subseteq upto(k)
      <3>1. \A j \in N : j <= i => j <= k  BY <2>0, <1>4
      <3> QED  BY <3>1
    <2>2. k \in upto(k) /\ k \notin upto(i)  BY <2>0, <1>4
    <2>3. upto(i) # upto(k)  BY <2>2
    <2> HIDE DEF upto
    <2>4. /\ Cardinality(upto(i)) <= Cardinality(upto(k))
          /\ Cardinality(upto(k)) = Cardinality(upto(i)) => upto(k) = upto(i)
      BY <2>1, <1>2, FS_Subset
    <2> QED  BY <2>3, <2>4, <1>2
  <1> QED  BY <1>2, <1>3, <1>4

LEMMA LastIsHighest ==
    ASSUME NEW rows, rows \subseteq Row, NEW last \in LastPlace(rows)
    PROVE  last \in Nat /\ \A x \in rows : x.place \in Nat /\ x.place <= last
  BY DEF LastPlace, Row

LEMMA EnrolledRows ==
    ASSUME NEW rows, RowsOK("poa", rows), NEW list, ListOf(list, Person),
           NEW last \in LastPlace(rows)
    PROVE  RowsOK("poa", Enrolled(rows, list, last))
  <1> DEFINE new == Newcomers(rows, list)
             rank(i) == Cardinality({j \in new : j <= i})
             after == Enrolled(rows, list, last)
             put(x) == [x EXCEPT !.retired = ~Contains(list, x.of)]
  <1>1. MembersOf("poa") = Person  BY DEF MembersOf
  <1>2. rows \subseteq Row /\ OneRowEach(rows) /\ OnePlaceEach(rows) /\ \A x \in rows : x.of \in Person
    BY <1>1 DEF RowsOK
  <1>3. last \in Nat /\ \A x \in rows : x.place \in Nat /\ x.place <= last
    BY <1>2, LastIsHighest
  <1>4. \A i \in new : /\ i \in 1..Len(list) /\ i \in Nat /\ list[i] \in Person
                       /\ \A x \in rows : x.of # list[i]
    BY DEF Newcomers, ListOf
  <1>5. Len(list) \in Nat /\ new \subseteq 1..Len(list)  BY <1>4 DEF ListOf
  <1>6. /\ \A i \in new : rank(i) \in Nat \ {0}
        /\ \A i, k \in new : i < k => rank(i) < rank(k)
    BY <1>5, RankGrows
  <1>7. after = {put(x) : x \in rows} \cup {Entry(list[i], last + rank(i)) : i \in new}
    BY DEF Enrolled
  <1>8. \A x \in rows : put(x) \in Row /\ put(x).of = x.of /\ put(x).place = x.place
    <2> SUFFICES ASSUME NEW x \in rows
                 PROVE  put(x) \in Row /\ put(x).of = x.of /\ put(x).place = x.place
      OBVIOUS
    <2>1. PICK b \in BOOLEAN : b = ~Contains(list, x.of)  OBVIOUS
    <2>2. put(x) = [x EXCEPT !.retired = b]  BY <2>1
    <2> QED  BY <2>2, <1>2 DEF Row
  <1> HIDE DEF new, rank, after, put
  <1>9. \A i \in new : /\ last + rank(i) \in Nat /\ last < last + rank(i)
                       /\ Entry(list[i], last + rank(i)) \in Row
                       /\ Entry(list[i], last + rank(i)).of = list[i]
                       /\ Entry(list[i], last + rank(i)).place = last + rank(i)
    <2>1. \A i \in new : last + rank(i) \in Nat /\ last < last + rank(i)  BY <1>3, <1>6
    <2> QED  BY <2>1, <1>4, EntryRow
  <1>10. \A y \in after : \/ \E x \in rows : y = put(x)
                          \/ \E i \in new : y = Entry(list[i], last + rank(i))
    BY <1>7
  <1>11. after \subseteq Row /\ \A y \in after : y.of \in Person
    BY <1>2, <1>4, <1>8, <1>9, <1>10
  <1>12. \A i, k \in new : list[i] = list[k] \/ rank(i) = rank(k) => i = k
    <2> SUFFICES ASSUME NEW i \in new, NEW k \in new, list[i] = list[k] \/ rank(i) = rank(k)
                 PROVE  i = k
      OBVIOUS
    <2>1. CASE list[i] = list[k]  BY <2>1, <1>4 DEF ListOf
    <2>2. CASE rank(i) = rank(k)
      <3>1. ~(i < k) /\ ~(k < i)  BY <2>2, <1>6
      <3> QED  BY <3>1, <1>4
    <2> QED  BY <2>1, <2>2
  <1>13. ASSUME NEW y \in after, NEW z \in after, y.of = z.of \/ y.place = z.place
         PROVE  y = z
    <2>1. CASE \E x \in rows : y = put(x)
      <3>1. PICK x \in rows : y = put(x)  BY <2>1
      <3>2. ~\E i \in new : z = Entry(list[i], last + rank(i))
        BY <3>1, <1>3, <1>4, <1>8, <1>9, <1>13
      <3>3. PICK w \in rows : z = put(w)  BY <3>2, <1>10
      <3>4. x = w  BY <3>1, <3>3, <1>2, <1>8, <1>13 DEF OneRowEach, OnePlaceEach
      <3> QED  BY <3>1, <3>3, <3>4
    <2>2. CASE \E i \in new : y = Entry(list[i], last + rank(i))
      <3>1. PICK i \in new : y = Entry(list[i], last + rank(i))  BY <2>2
      <3>2. ~\E x \in rows : z = put(x)  BY <3>1, <1>3, <1>4, <1>8, <1>9, <1>13
      <3>3. PICK k \in new : z = Entry(list[k], last + rank(k))  BY <3>2, <1>10
      <3>4. list[i] = list[k] \/ last + rank(i) = last + rank(k)
        BY <3>1, <3>3, <1>9, <1>13
      <3>5. list[i] = list[k] \/ rank(i) = rank(k)  BY <3>4, <1>3, <1>6
      <3>6. i = k  BY <3>5, <1>12
      <3> QED  BY <3>1, <3>3, <3>6
    <2> QED  BY <2>1, <2>2, <1>10
  <1>14. OneRowEach(after) /\ OnePlaceEach(after)  BY <1>13 DEF OneRowEach, OnePlaceEach
  <1> QED  BY <1>1, <1>11, <1>14 DEF RowsOK, after

LEMMA CoveredRows ==
    ASSUME NEW rows, RowsOK("letter", rows), NEW m \in Matter, m \notin OfNow(rows, Matter),
           NEW last \in LastPlace(rows)
    PROVE  RowsOK("letter", rows \cup {Entry(m, last + 1)})
  <1>1. MembersOf("letter") = Matter  BY DEF MembersOf
  <1>2. /\ rows \subseteq Row /\ OneCurrentEach(rows) /\ OnePlaceEach(rows)
        /\ \A x \in rows : x.of \in Matter
    BY <1>1 DEF RowsOK
  <1>3. last \in Nat /\ \A x \in rows : x.place \in Nat /\ x.place <= last
    BY <1>2, LastIsHighest
  <1>4. PICK e : e = Entry(m, last + 1)  OBVIOUS
  <1>5. last + 1 \in Nat /\ last < last + 1  BY <1>3
  <1>6. e \in Row /\ e.of = m /\ e.place = last + 1 /\ ~e.retired
    BY <1>4, <1>5, EntryRow
  <1>7. \A x \in rows : x.place # e.place /\ (~x.retired => x.of # m)
    <2>1. \A x \in rows : x.place # e.place  BY <1>3, <1>6
    <2>2. \A x \in rows : ~x.retired => x.of \in OfNow(rows, Matter)
      BY <1>2 DEF OfNow, Now
    <2> QED  BY <2>1, <2>2
  <1>8. OneCurrentEach(rows \cup {e})  BY <1>2, <1>6, <1>7 DEF OneCurrentEach
  <1>9. OnePlaceEach(rows \cup {e})  BY <1>2, <1>7 DEF OnePlaceEach
  <1> QED  BY <1>1, <1>2, <1>4, <1>6, <1>8, <1>9 DEF RowsOK

LEMMA RetirementRows ==
    ASSUME NEW rows, RowsOK("letter", rows), NEW x \in rows, NEW b \in BOOLEAN,
           ~b => x.of \notin OfNow(rows, Matter)
    PROVE  RowsOK("letter", Retirement(rows, x, b))
  <1>1. MembersOf("letter") = Matter  BY DEF MembersOf
  <1>2. /\ rows \subseteq Row /\ OneCurrentEach(rows) /\ OnePlaceEach(rows)
        /\ \A y \in rows : y.of \in Matter
    BY <1>1 DEF RowsOK
  <1>3. PICK e : e = [x EXCEPT !.retired = b]  OBVIOUS
  <1>4. e \in Row /\ e.of = x.of /\ e.place = x.place /\ e.retired = b
    BY <1>2, <1>3 DEF Row
  <1>5. Retirement(rows, x, b) = (rows \ {x}) \cup {e}  BY <1>3 DEF Retirement
  <1>6. \A y \in rows \ {x} : y.place # e.place  BY <1>2, <1>4 DEF OnePlaceEach
  <1>7. \A y \in rows \ {x} : ~y.retired /\ ~e.retired => y.of # e.of
    <2>1. \A y \in rows : ~y.retired => y.of \in OfNow(rows, Matter)
      BY <1>2 DEF OfNow, Now
    <2> QED  BY <2>1, <1>4
  <1>8. OneCurrentEach((rows \ {x}) \cup {e})  BY <1>2, <1>7 DEF OneCurrentEach
  <1>9. OnePlaceEach((rows \ {x}) \cup {e})  BY <1>2, <1>6 DEF OnePlaceEach
  <1>10. \A y \in (rows \ {x}) \cup {e} : y \in Row /\ y.of \in Matter  BY <1>2, <1>4
  <1> QED  BY <1>1, <1>5, <1>8, <1>9, <1>10 DEF RowsOK

LEMMA ReferredRows ==
    ASSUME NEW rows, RowsOK("reference", rows), NEW letter \in Paper \cup {None}
    PROVE  RowsOK("reference", Referred(rows, letter))
  <1> DEFINE put(x) == [x EXCEPT !.retired = x.of # letter]
             kept == {put(x) : x \in rows}
             after == Referred(rows, letter)
  <1>1. MembersOf("reference") = Paper  BY DEF MembersOf
  <1>2. rows \subseteq Row /\ OneRowEach(rows) /\ \A x \in rows : x.of \in Paper
    BY <1>1 DEF RowsOK
  <1>3. \A x \in rows : /\ put(x) \in Row /\ put(x).of = x.of
                        /\ ~put(x).retired <=> x.of = letter
    <2> SUFFICES ASSUME NEW x \in rows
                 PROVE  put(x) \in Row /\ put(x).of = x.of /\ (~put(x).retired <=> x.of = letter)
      OBVIOUS
    <2>1. PICK b \in BOOLEAN : b = (x.of # letter)  OBVIOUS
    <2>2. put(x) = [x EXCEPT !.retired = b]  BY <2>1
    <2>3. put(x) \in Row /\ put(x).of = x.of /\ put(x).retired = b  BY <2>2, <1>2 DEF Row
    <2> QED  BY <2>1, <2>3
  <1> HIDE DEF put
  <1>4. /\ \A y \in kept : \E x \in rows : y = put(x)
        /\ kept \subseteq Row /\ \A y \in kept : y.of \in Paper /\ (~y.retired => y.of = letter)
    BY <1>2, <1>3
  <1>5. OneRowEach(kept)
    <2> SUFFICES ASSUME NEW x \in rows, NEW w \in rows, put(x).of = put(w).of
                 PROVE  put(x) = put(w)
      BY <1>4 DEF OneRowEach
    <2>1. x = w  BY <1>2, <1>3 DEF OneRowEach
    <2> QED  BY <2>1
  <1>6. CASE letter = None \/ \E x \in rows : x.of = letter
    <2>1. after = kept  BY <1>6 DEF Referred, put
    <2>2. OneCurrent(kept)  BY <1>4, <1>5 DEF OneCurrent, OneRowEach
    <2> QED  BY <1>1, <1>4, <1>5, <2>1, <2>2 DEF RowsOK
  <1>7. CASE ~(letter = None \/ \E x \in rows : x.of = letter)
    <2>1. PICK e : e = Entry(letter, 0)  OBVIOUS
    <2>2. e \in Row /\ e.of = letter /\ ~e.retired /\ letter \in Paper  BY <2>1, <1>7, EntryRow
    <2>3. after = kept \cup {e}  BY <1>7, <2>1 DEF Referred, put
    <2>4. \A y \in kept : y.of # letter  BY <1>3, <1>4, <1>7
    <2>5. OneRowEach(kept \cup {e})  BY <1>5, <2>2, <2>4 DEF OneRowEach
    <2>6. OneCurrent(kept \cup {e})  BY <1>4, <2>2, <2>4 DEF OneCurrent
    <2> QED  BY <1>1, <1>4, <2>2, <2>3, <2>5, <2>6 DEF RowsOK
  <1> QED  BY <1>6, <1>7

-----------------------------------------------------------------------------
(* Forms and saves.                                                        *)

(* A paper that changes gets a new version.                                *)
Advanced(papers, later) ==
    \A p \in Paper : later[p] = papers[p] \/ later[p].version = papers[p].version + 1

LEMMA FormStaysOK ==
    ASSUME NEW papers \in [Paper -> PaperRow], NEW later, Advanced(papers, later),
           NEW q, FormOK(q, papers)
    PROVE  FormOK(q, later)
  <1>1. CASE q.op = "create"  BY <1>1 DEF FormOK
  <1>2. CASE q.op # "create"
    <2>1. /\ q.paper \in Paper /\ q.shown \in PaperRow
          /\ q.shown.version <= papers[q.paper].version
          /\ q.shown.version = papers[q.paper].version => q.shown = papers[q.paper]
      BY <1>2 DEF FormOK
    <2>2. PICK r \in PaperRow : r = papers[q.paper]  BY <2>1
    <2>3. PICK t : t = later[q.paper]  OBVIOUS
    <2>4. t = r \/ t.version = r.version + 1  BY <2>1, <2>2, <2>3 DEF Advanced
    <2>5. q.shown.version \in Nat /\ r.version \in Nat  BY <2>1, <2>2 DEF PaperRow
    <2>6. q.shown.version <= t.version /\ (q.shown.version = t.version => q.shown = t)
      BY <2>1, <2>2, <2>4, <2>5
    <2> QED  BY <1>2, <2>3, <2>6 DEF FormOK
  <1> QED  BY <1>1, <1>2

LEMMA SentFormOK ==
    ASSUME NEW q, NEW papers, FormOK(q, papers), NEW request
    PROVE  FormOK([q EXCEPT !.sent = request], papers)
  <1>1. PICK k, o, p, s, a, x :
           /\ k = q.kind /\ o = q.op /\ p = q.paper /\ s = q.shown /\ a = q.facts /\ x = q.sent
    OBVIOUS
  <1>2. q = [kind |-> k, op |-> o, paper |-> p, shown |-> s, facts |-> a, sent |-> x]
    BY <1>1 DEF FormOK
  <1>3. [q EXCEPT !.sent = request] =
           [kind |-> k, op |-> o, paper |-> p, shown |-> s, facts |-> a, sent |-> request]
    BY <1>2
  <1>4. PICK t : t = [q EXCEPT !.sent = request]  OBVIOUS
  <1>5. /\ t.kind = k /\ t.op = o /\ t.paper = p /\ t.shown = s /\ t.facts = a
        /\ t.sent = request
    BY <1>3, <1>4
  <1>6. t = [kind |-> t.kind, op |-> t.op, paper |-> t.paper, shown |-> t.shown,
             facts |-> t.facts, sent |-> t.sent]
    BY <1>3, <1>4, <1>5
  <1>7. FormOK(t, papers)  BY <1>1, <1>5, <1>6 DEF FormOK
  <1> QED  BY <1>4, <1>7

LEMMA FormTypes ==
    ASSUME Inv, NEW f \in Form, Open(f)
    PROVE  FormOK(form[f], paper)
  BY DEF Inv, FormsOK

LEMMA VersionedPaper ==
    ASSUME NEW row \in PaperRow, NEW v \in Nat
    PROVE  /\ [row EXCEPT !.version = v] \in PaperRow
           /\ [row EXCEPT !.version = v].version = v
           /\ [row EXCEPT !.version = v].rows = row.rows
           /\ [row EXCEPT !.version = v].matter = row.matter
           /\ [row EXCEPT !.version = v].person = row.person
  BY DEF PaperRow

(* A save keeps the invariant when the row it stores is sound; it touches  *)
(* no other paper and leaves a receipt that tells which one.               *)
LEMMA SaveInv ==
    ASSUME Inv, NEW f \in Form, NEW p \in Paper, NEW request, NEW row,
           Save(f, p, request, row), PaperOK(KindOf[p], row)
    PROVE  /\ Inv'
           /\ \A q \in Paper : q # p => paper'[q] = paper[q]
           /\ paper'[p] = paper[p] \/ paper'[p].rows = row.rows
           /\ \A e \in receipt' \ receipt : e.form = f /\ e.paper = p
  <1>1. /\ paper \in [Paper -> PaperRow] /\ form = [g \in Form |-> form[g]]
        /\ receipt \subseteq [form : Form, paper : Paper, version : Nat \ {0}]
    BY DEF Inv, TablesOK
  <1>2. Open(f) /\ ~Receipted(f) /\ UNCHANGED <<closed, active, desk>>  BY DEF Save
  <1>3. FormOK(form[f], paper)  BY <1>2, FormTypes
  <1>4. CASE form' = [form EXCEPT ![f] = Left] /\ UNCHANGED <<paper, receipt>>
    <2>1. form'[f] = Left /\ \A g \in Form : g # f => form'[g] = form[g]  BY <1>1, <1>4
    <2>2. form' = [g \in Form |-> form'[g]]  BY <1>1, <1>4
    <2>3. FormsOK'  BY <1>4, <2>1 DEF Inv, FormsOK, Open
    <2>4. TablesOK'  BY <1>2, <1>4, <2>2 DEF Inv, TablesOK
    <2>5. PapersOK' /\ OneEffectPerForm'  BY <1>4 DEF Inv, PapersOK, OneEffectPerForm
    <2> QED  BY <1>4, <2>3, <2>4, <2>5 DEF Inv
  <1>5. CASE /\ paper' = [paper EXCEPT ![p] = [row EXCEPT !.version = NextVersion(p)]]
             /\ receipt' = receipt \cup {[form |-> f, paper |-> p, version |-> NextVersion(p)]}
             /\ \/ form' = [form EXCEPT ![f] = Left]
                \/ form' = [form EXCEPT ![f].sent = request]
    <2>1. PICK v \in Nat : v = NextVersion(p) /\ v = paper[p].version + 1
      BY <1>1 DEF NextVersion, PaperRow
    <2>2. v # 0 /\ v \in Nat \ {0}
      <3>1. paper[p].version \in Nat  BY <1>1 DEF PaperRow
      <3> QED  BY <3>1, <2>1
    <2>3. PICK t \in PaperRow : /\ t = [row EXCEPT !.version = v] /\ t.version = v
                                /\ t.rows = row.rows /\ t.matter = row.matter
                                /\ t.person = row.person
      BY VersionedPaper DEF PaperOK
    <2>4. paper' = [paper EXCEPT ![p] = t]  BY <1>5, <2>1, <2>3
    <2>5. /\ paper' \in [Paper -> PaperRow] /\ paper'[p] = t
          /\ \A q \in Paper : q # p => paper'[q] = paper[q]
      BY <1>1, <2>4
    <2>6. Advanced(paper, paper')  BY <2>1, <2>3, <2>5 DEF Advanced
    <2>7. PapersOK'
      <3>1. PaperOK(KindOf[p], t)  BY <2>3 DEF PaperOK
      <3> QED  BY <2>5, <3>1 DEF Inv, PapersOK
    <2>8. /\ form' = [g \in Form |-> form'[g]]
          /\ \A g \in Form : g # f => form'[g] = form[g]
          /\ form'[f] = Left \/ form'[f] = [form[f] EXCEPT !.sent = request]
      BY <1>1, <1>5
    <2>9. FormsOK'
      <3> SUFFICES ASSUME NEW g \in Form, Open(g)' PROVE FormOK(form'[g], paper')
        BY DEF FormsOK
      <3>1. CASE g # f
        <4>1. form'[g] = form[g] /\ Open(g)  BY <2>8, <3>1 DEF Open
        <4>2. FormOK(form[g], paper)  BY <4>1, FormTypes
        <4> QED  BY <4>1, <4>2, <1>1, <2>6, FormStaysOK
      <3>2. CASE g = f
        <4>1. form'[f] = [form[f] EXCEPT !.sent = request]  BY <2>8, <3>2 DEF Open
        <4>2. FormOK([form[f] EXCEPT !.sent = request], paper)  BY <1>3, SentFormOK
        <4> QED  BY <3>2, <4>1, <4>2, <1>1, <2>6, FormStaysOK
      <3> QED  BY <3>1, <3>2
    <2>10. PICK d : d = [form |-> f, paper |-> p, version |-> v]  OBVIOUS
    <2>11. /\ receipt' = receipt \cup {d} /\ d.form = f /\ d.paper = p
           /\ d \in [form : Form, paper : Paper, version : Nat \ {0}]
      BY <1>5, <2>1, <2>2, <2>10
    <2>12. OneEffectPerForm'
      <3>1. \A e \in receipt : e.form # f  BY <1>2 DEF Receipted
      <3> QED  BY <2>11, <3>1 DEF Inv, OneEffectPerForm
    <2>13. TablesOK'  BY <1>1, <1>2, <2>5, <2>8, <2>11 DEF Inv, TablesOK
    <2> QED  BY <2>3, <2>5, <2>7, <2>9, <2>11, <2>12, <2>13 DEF Inv
  <1> QED  BY <1>4, <1>5 DEF Save

-----------------------------------------------------------------------------
(* Every save stores a sound row, of a paper that its form may change and  *)
(* that does not rest below an archive.                                    *)

Saved(f, p, row) ==
    /\ \E request : Save(f, p, request, row)
    /\ PaperOK(KindOf[p], row)
    /\ Target(f, p) /\ Fresh(f, p) /\ ~Resting(p)
    /\ form[f].op \in Lifecycle => form[f].facts = Facts(p)
    /\ KindOf[p] = "letter" =>
          {x \in row.rows : x.of \in closed} = {x \in paper[p].rows : x.of \in closed}

LEMMA PaperTypes ==
    ASSUME Inv, NEW p \in Paper
    PROVE  /\ paper[p] \in PaperRow /\ PaperOK(KindOf[p], paper[p])
           /\ RowsOK(KindOf[p], paper[p].rows) /\ paper[p].rows \subseteq Row
  BY DEF Inv, TablesOK, PapersOK, PaperOK, RowsOK

LEMMA TargetKind ==
    ASSUME Inv, NEW f \in Form, Open(f), NEW p \in Paper, Target(f, p)
    PROVE  /\ KindOf[p] = form[f].kind
           /\ form[f].op = "create" \/ form[f].op \in Operations(KindOf[p])
           /\ form[f].op \in {"cover", "uncover", "recover"} => KindOf[p] = "letter"
           /\ form[f].op = "refer" => KindOf[p] = "reference"
           /\ form[f].op \in Lifecycle => KindOf[p] # "reference"
  <1>1. FormOK(form[f], paper)  BY FormTypes
  <1>2. KindOf[p] = form[f].kind  BY <1>1 DEF Target, FormOK
  <1>3. form[f].op = "create" \/ form[f].op \in Operations(KindOf[p])  BY <1>1, <1>2 DEF FormOK
  <1>4. KindOf[p] \in Kind  BY KindAssumption
  <1> QED  BY <1>2, <1>3, <1>4 DEF Operations, Lifecycle, Kind

LEMMA OfNowIsMembers ==
    ASSUME NEW r, NEW S PROVE OfNow(r.rows, S) = Members(r, S)
  BY DEF OfNow, Now, Members, Current

LEMMA SaveDocumentSaves ==
    ASSUME Inv, NEW f \in Form, SaveDocument(f)
    PROVE  \E p \in Paper, row \in PaperRow : Saved(f, p, row)
  <1>1. PICK p \in Paper \cap desk, c \in (Client \cap desk) \cup {None},
             matters \in Selections(Matter \cap desk), people \in Selections(Person \cap desk) :
           /\ Editable(f, p)
           /\ DocumentAdmitted(paper[p], c, matters, people)
           /\ Save(f, p, <<c, matters, people>>,
                   [paper[p] EXCEPT !.client = c, !.matter = Sole(matters), !.person = Sole(people),
                      !.rows = Assigned(Assigned(@, Matter, matters), Person, people)])
    BY DEF SaveDocument
  <1>2. Open(f) /\ form[f].kind = "document" /\ form[f].op \notin Lifecycle
    BY DEF SaveDocument, Lifecycle
  <1>3. Target(f, p) /\ Fresh(f, p) /\ p \in Paper  BY <1>1 DEF Editable
  <1>4. KindOf[p] = "document"  BY <1>2, <1>3, TargetKind
  <1>5. paper[p] \in PaperRow /\ RowsOK("document", paper[p].rows)  BY <1>3, <1>4, PaperTypes
  <1>6. ListOf(matters, Matter) /\ ListOf(people, Person)
    <2>1. IsFiniteSet(Matter \cap desk) /\ IsFiniteSet(Person \cap desk)  BY DeskFinite
    <2>2. Matter \cap desk \subseteq Matter /\ Person \cap desk \subseteq Person  OBVIOUS
    <2>3. ListOf(matters, Matter)  BY <1>1, <2>1, <2>2, SelectionIsList
    <2>4. ListOf(people, Person)  BY <1>1, <2>1, <2>2, SelectionIsList
    <2> QED  BY <2>3, <2>4
  <1>7. PICK R : R = Assigned(Assigned(paper[p].rows, Matter, matters), Person, people)  OBVIOUS
  <1>8. RowsOK("document", R) /\ ColumnsOK("document", R, Sole(matters), Sole(people))
    BY <1>5, <1>6, <1>7, DocumentRows
  <1>9. PICK m \in Matter \cup {None}, x \in Person \cup {None} : m = Sole(matters) /\ x = Sole(people)
    <2>1. Sole(matters) \in Matter \cup {None}  BY <1>6 DEF Sole, ListOf
    <2>2. Sole(people) \in Person \cup {None}  BY <1>6 DEF Sole, ListOf
    <2> QED  BY <2>1, <2>2
  <1>10. PICK row : row = [paper[p] EXCEPT !.client = c, !.matter = m, !.person = x, !.rows = R]
    OBVIOUS
  <1>11. R \subseteq Row  BY <1>8 DEF RowsOK
  <1>12. row \in PaperRow /\ row.rows = R /\ row.matter = m /\ row.person = x
    BY <1>5, <1>10, <1>11 DEF PaperRow
  <1>13. PaperOK("document", row)  BY <1>8, <1>9, <1>12 DEF PaperOK
  <1>14. Save(f, p, <<c, matters, people>>, row)  BY <1>1, <1>7, <1>9, <1>10
  <1>15. ~Resting(p)
    <2>1. {z.of : z \in {y \in paper[p].rows : ~y.retired}} \cap Matter = DocumentMatters(paper[p])
      BY DEF DocumentMatters, Members, Current
    <2>2. /\ DocumentMatters(paper[p]) \cap closed = {}
          /\ DocumentMatters(paper[p]) = {} => paper[p].client \notin closed
      BY <1>1 DEF DocumentAdmitted
    <2> QED  BY <1>4, <2>1, <2>2 DEF Resting
  <1>16. Saved(f, p, row)
    BY <1>2, <1>3, <1>4, <1>13, <1>14, <1>15 DEF Saved
  <1> QED  BY <1>3, <1>16, <1>12

LEMMA SavePOASaves ==
    ASSUME Inv, NEW f \in Form, SavePOA(f)
    PROVE  \E p \in Paper, row \in PaperRow : Saved(f, p, row)
  <1>1. PICK p \in Paper \cap desk : \E c \in (Client \cap desk) \cup {None},
           lawyers \in Selections(Person \cap desk), last \in LastPlace(paper[p].rows) :
           /\ Editable(f, p)
           /\ {paper[p].client, c} \cap closed = {}
           /\ ToSet(lawyers) \ Members(paper[p], Person) \subseteq active
           /\ Save(f, p, <<c, lawyers>>,
                   [paper[p] EXCEPT !.client = c, !.rows = Enrolled(@, lawyers, last)])
    BY DEF SavePOA
  <1>2. PICK c \in (Client \cap desk) \cup {None},
             lawyers \in Selections(Person \cap desk), last \in LastPlace(paper[p].rows) :
           /\ Editable(f, p)
           /\ {paper[p].client, c} \cap closed = {}
           /\ Save(f, p, <<c, lawyers>>,
                   [paper[p] EXCEPT !.client = c, !.rows = Enrolled(@, lawyers, last)])
    BY <1>1
  <1>3. Open(f) /\ form[f].kind = "poa" /\ form[f].op \notin Lifecycle
    BY DEF SavePOA, Lifecycle
  <1>4. Target(f, p) /\ Fresh(f, p) /\ p \in Paper  BY <1>2 DEF Editable
  <1>5. KindOf[p] = "poa"  BY <1>3, <1>4, TargetKind
  <1>6. paper[p] \in PaperRow /\ RowsOK("poa", paper[p].rows)  BY <1>4, <1>5, PaperTypes
  <1>7. ListOf(lawyers, Person)
    <2>1. IsFiniteSet(Person \cap desk)  BY DeskFinite
    <2>2. Person \cap desk \subseteq Person  OBVIOUS
    <2> QED  BY <1>2, <2>1, <2>2, SelectionIsList
  <1>8. PICK R : R = Enrolled(paper[p].rows, lawyers, last)  OBVIOUS
  <1>9. RowsOK("poa", R)  BY <1>6, <1>7, <1>8, EnrolledRows
  <1>10. PICK row : row = [paper[p] EXCEPT !.client = c, !.rows = R]  OBVIOUS
  <1>11. R \subseteq Row  BY <1>9 DEF RowsOK
  <1>12. row \in PaperRow /\ row.rows = R  BY <1>6, <1>10, <1>11 DEF PaperRow
  <1>13. PaperOK("poa", row)  BY <1>9, <1>12 DEF PaperOK, ColumnsOK
  <1>14. Save(f, p, <<c, lawyers>>, row)  BY <1>2, <1>8, <1>10
  <1>15. ~Resting(p)  BY <1>2, <1>5 DEF Resting
  <1>16. Saved(f, p, row)  BY <1>3, <1>4, <1>5, <1>13, <1>14, <1>15 DEF Saved
  <1> QED  BY <1>4, <1>16, <1>12

LEMMA SaveLetterSaves ==
    ASSUME Inv, NEW f \in Form, SaveLetter(f)
    PROVE  \E p \in Paper, row \in PaperRow : Saved(f, p, row)
  <1>1. PICK p \in Paper \cap desk, c \in (Client \cap desk) \cup {None} :
           /\ Editable(f, p)
           /\ {paper[p].client, c} \cap closed = {}
           /\ Save(f, p, <<c>>, [paper[p] EXCEPT !.client = c])
    BY DEF SaveLetter
  <1>2. Open(f) /\ form[f].kind = "letter" /\ form[f].op \notin Lifecycle
    BY DEF SaveLetter, Lifecycle
  <1>3. Target(f, p) /\ Fresh(f, p) /\ p \in Paper  BY <1>1 DEF Editable
  <1>4. KindOf[p] = "letter"  BY <1>2, <1>3, TargetKind
  <1>5. paper[p] \in PaperRow /\ RowsOK("letter", paper[p].rows)  BY <1>3, <1>4, PaperTypes
  <1>6. PICK row : row = [paper[p] EXCEPT !.client = c]  OBVIOUS
  <1>7. row \in PaperRow /\ row.rows = paper[p].rows  BY <1>5, <1>6 DEF PaperRow
  <1>8. PaperOK("letter", row)  BY <1>5, <1>7 DEF PaperOK, ColumnsOK
  <1>9. ~Resting(p)  BY <1>1, <1>4 DEF Resting
  <1>10. Save(f, p, <<c>>, row)  BY <1>1, <1>6
  <1>11. Saved(f, p, row)  BY <1>2, <1>3, <1>4, <1>7, <1>8, <1>9, <1>10 DEF Saved
  <1> QED  BY <1>3, <1>11, <1>7

LEMMA CoverSaves ==
    ASSUME Inv, NEW f \in Form, Cover(f)
    PROVE  \E p \in Paper, row \in PaperRow : Saved(f, p, row)
  <1>1. PICK p \in Paper \cap desk, m \in (Matter \cap desk) \ closed :
           \E last \in LastPlace(paper[p].rows) :
              /\ Editable(f, p) /\ paper[p].client \notin closed
              /\ m \notin Members(paper[p], Matter)
              /\ Save(f, p, <<m>>, [paper[p] EXCEPT !.rows = @ \cup {Entry(m, last + 1)}])
    BY DEF Cover
  <1>2. PICK last \in LastPlace(paper[p].rows) :
           /\ Editable(f, p) /\ paper[p].client \notin closed
           /\ m \notin Members(paper[p], Matter)
           /\ Save(f, p, <<m>>, [paper[p] EXCEPT !.rows = @ \cup {Entry(m, last + 1)}])
    BY <1>1
  <1>3. Open(f) /\ form[f].op = "cover" /\ form[f].op \notin Lifecycle
    BY DEF Cover, Lifecycle
  <1>4. Target(f, p) /\ Fresh(f, p) /\ p \in Paper /\ m \in Matter  BY <1>2 DEF Editable
  <1>5. KindOf[p] = "letter"  BY <1>3, <1>4, TargetKind
  <1>6. paper[p] \in PaperRow /\ RowsOK("letter", paper[p].rows)  BY <1>4, <1>5, PaperTypes
  <1>7. PICK e : e = Entry(m, last + 1)  OBVIOUS
  <1>8. PICK R : R = paper[p].rows \cup {e}  OBVIOUS
  <1>9. m \notin OfNow(paper[p].rows, Matter)  BY <1>2, OfNowIsMembers
  <1>10. RowsOK("letter", R)  BY <1>4, <1>6, <1>7, <1>8, <1>9, CoveredRows
  <1>11. PICK row : row = [paper[p] EXCEPT !.rows = R]  OBVIOUS
  <1>12. R \subseteq Row  BY <1>10 DEF RowsOK
  <1>13. row \in PaperRow /\ row.rows = R  BY <1>6, <1>11, <1>12 DEF PaperRow
  <1>14. PaperOK("letter", row)  BY <1>10, <1>13 DEF PaperOK, ColumnsOK
  <1>15. Save(f, p, <<m>>, row)  BY <1>2, <1>7, <1>8, <1>11
  <1>16. ~Resting(p)  BY <1>2, <1>5 DEF Resting
  <1>17. {x \in row.rows : x.of \in closed} = {x \in paper[p].rows : x.of \in closed}
    <2>1. e.of = m /\ m \notin closed  BY <1>7 DEF Entry
    <2> QED  BY <2>1, <1>8, <1>13
  <1>18. Saved(f, p, row)  BY <1>3, <1>4, <1>5, <1>14, <1>15, <1>16, <1>17 DEF Saved
  <1> QED  BY <1>4, <1>18, <1>13

(* Retiring a covered row and bringing one back.                           *)
LEMMA RetirementSaves ==
    ASSUME Inv, NEW f \in Form, Open(f), form[f].op \in {"uncover", "recover"},
           NEW p \in Paper, Editable(f, p), NEW x \in paper[p].rows, NEW b \in BOOLEAN,
           {paper[p].client, x.of} \cap closed = {},
           ~b => x.of \notin Members(paper[p], Matter),
           NEW request, Save(f, p, request, [paper[p] EXCEPT !.rows = Retirement(@, x, b)])
    PROVE  \E q \in Paper, row \in PaperRow : Saved(f, q, row)
  <1>1. form[f].op \notin Lifecycle  BY DEF Lifecycle
  <1>2. Target(f, p) /\ Fresh(f, p)  BY DEF Editable
  <1>3. KindOf[p] = "letter"  BY <1>2, TargetKind
  <1>4. paper[p] \in PaperRow /\ RowsOK("letter", paper[p].rows)  BY <1>3, PaperTypes
  <1>5. PICK R : R = Retirement(paper[p].rows, x, b)  OBVIOUS
  <1>6. RowsOK("letter", R)  BY <1>4, <1>5, OfNowIsMembers, RetirementRows
  <1>7. PICK row : row = [paper[p] EXCEPT !.rows = R]  OBVIOUS
  <1>8. R \subseteq Row  BY <1>6 DEF RowsOK
  <1>9. row \in PaperRow /\ row.rows = R  BY <1>4, <1>7, <1>8 DEF PaperRow
  <1>10. PaperOK("letter", row)  BY <1>6, <1>9 DEF PaperOK, ColumnsOK
  <1>11. Save(f, p, request, row)  BY <1>5, <1>7
  <1>12. ~Resting(p)  BY <1>3 DEF Resting
  <1>13. {y \in row.rows : y.of \in closed} = {y \in paper[p].rows : y.of \in closed}
    <2>1. PICK e : e = [x EXCEPT !.retired = b]  OBVIOUS
    <2>2. x \in Row  BY <1>4 DEF RowsOK
    <2>3. e.of = x.of /\ x.of \notin closed  BY <2>1, <2>2 DEF Row
    <2>4. R = (paper[p].rows \ {x}) \cup {e}  BY <1>5, <2>1 DEF Retirement
    <2> QED  BY <2>3, <2>4, <1>9
  <1>14. Saved(f, p, row)
    BY <1>1, <1>2, <1>3, <1>10, <1>11, <1>12, <1>13 DEF Saved
  <1> QED  BY <1>14, <1>9

LEMMA UncoverSaves ==
    ASSUME Inv, NEW f \in Form, Uncover(f)
    PROVE  \E p \in Paper, row \in PaperRow : Saved(f, p, row)
  <1>1. PICK p \in Paper \cap desk : \E x \in paper[p].rows :
           /\ Editable(f, p) /\ {paper[p].client, x.of} \cap closed = {}
           /\ Save(f, p, <<x.of, x.place>>, [paper[p] EXCEPT !.rows = Retirement(@, x, TRUE)])
    BY DEF Uncover
  <1>2. PICK x \in paper[p].rows :
           /\ Editable(f, p) /\ {paper[p].client, x.of} \cap closed = {}
           /\ Save(f, p, <<x.of, x.place>>, [paper[p] EXCEPT !.rows = Retirement(@, x, TRUE)])
    BY <1>1
  <1>3. PICK b \in BOOLEAN : b = TRUE  OBVIOUS
  <1>4. Save(f, p, <<x.of, x.place>>, [paper[p] EXCEPT !.rows = Retirement(@, x, b)])
    BY <1>2, <1>3
  <1>5. Open(f) /\ form[f].op \in {"uncover", "recover"} /\ p \in Paper  BY DEF Uncover
  <1> QED  BY <1>2, <1>3, <1>4, <1>5, RetirementSaves

LEMMA RecoverSaves ==
    ASSUME Inv, NEW f \in Form, Recover(f)
    PROVE  \E p \in Paper, row \in PaperRow : Saved(f, p, row)
  <1>1. PICK p \in Paper \cap desk : \E x \in paper[p].rows :
           /\ Editable(f, p) /\ {paper[p].client, x.of} \cap closed = {}
           /\ Restorable(paper[p], x)
           /\ Save(f, p, <<x.of, x.place>>, [paper[p] EXCEPT !.rows = Retirement(@, x, FALSE)])
    BY DEF Recover
  <1>2. PICK x \in paper[p].rows :
           /\ Editable(f, p) /\ {paper[p].client, x.of} \cap closed = {}
           /\ Restorable(paper[p], x)
           /\ Save(f, p, <<x.of, x.place>>, [paper[p] EXCEPT !.rows = Retirement(@, x, FALSE)])
    BY <1>1
  <1>3. PICK b \in BOOLEAN : b = FALSE  OBVIOUS
  <1>4. Save(f, p, <<x.of, x.place>>, [paper[p] EXCEPT !.rows = Retirement(@, x, b)])
    BY <1>2, <1>3
  <1>5. Open(f) /\ form[f].op \in {"uncover", "recover"} /\ p \in Paper  BY DEF Recover
  <1>6. x.of \notin Members(paper[p], Matter)  BY <1>2 DEF Restorable
  <1> QED  BY <1>2, <1>4, <1>5, <1>6, RetirementSaves

LEMMA ReferSaves ==
    ASSUME Inv, NEW f \in Form, Refer(f)
    PROVE  \E p \in Paper, row \in PaperRow : Saved(f, p, row)
  <1>1. PICK p \in Paper \cap desk,
             new \in {q \in Paper \cap desk : KindOf[q] = "letter" /\ Exists(q)} \cup {None} :
          LET old == Members(form[f].shown, Paper)
              letters == old \cup ({new} \ {None})
          IN  /\ Editable(f, p) /\ MatterOf[p] \notin closed
              /\ Members(paper[p], Paper) = old
              /\ \A q \in letters : ~paper[q].archived /\ paper[q].client \notin closed
              /\ Save(f, p, <<new>>, [paper[p] EXCEPT !.rows = Referred(@, new)])
    BY DEF Refer
  <1>2. /\ Editable(f, p) /\ MatterOf[p] \notin closed
        /\ \A q \in Members(paper[p], Paper) : ~paper[q].archived /\ paper[q].client \notin closed
        /\ Save(f, p, <<new>>, [paper[p] EXCEPT !.rows = Referred(@, new)])
    BY <1>1
  <1>3. Open(f) /\ form[f].op = "refer" /\ form[f].op \notin Lifecycle
    BY DEF Refer, Lifecycle
  <1>4. Target(f, p) /\ Fresh(f, p) /\ p \in Paper /\ new \in Paper \cup {None}
    BY <1>2 DEF Editable
  <1>5. KindOf[p] = "reference"  BY <1>3, <1>4, TargetKind
  <1>6. paper[p] \in PaperRow /\ RowsOK("reference", paper[p].rows)  BY <1>4, <1>5, PaperTypes
  <1>7. PICK R : R = Referred(paper[p].rows, new)  OBVIOUS
  <1>8. RowsOK("reference", R)  BY <1>4, <1>6, <1>7, ReferredRows
  <1>9. PICK row : row = [paper[p] EXCEPT !.rows = R]  OBVIOUS
  <1>10. R \subseteq Row  BY <1>8 DEF RowsOK
  <1>11. row \in PaperRow /\ row.rows = R  BY <1>6, <1>9, <1>10 DEF PaperRow
  <1>12. PaperOK("reference", row)  BY <1>8, <1>11 DEF PaperOK, ColumnsOK
  <1>13. Save(f, p, <<new>>, row)  BY <1>2, <1>7, <1>9
  <1>14. ~Resting(p)
    <2>1. {x.of : x \in {y \in paper[p].rows : ~y.retired}} \cap Paper = Members(paper[p], Paper)
      BY DEF Members, Current
    <2> QED  BY <1>2, <1>5, <2>1 DEF Resting
  <1>15. Saved(f, p, row)  BY <1>3, <1>4, <1>5, <1>12, <1>13, <1>14 DEF Saved
  <1> QED  BY <1>4, <1>15, <1>11

LEMMA ArchiveOrRestoreSaves ==
    ASSUME Inv, NEW f \in Form, ArchiveOrRestore(f)
    PROVE  \E p \in Paper, row \in PaperRow : Saved(f, p, row)
  <1>1. PICK p \in Paper \cap desk :
           /\ Target(f, p) /\ Fresh(f, p) /\ form[f].facts = Facts(p)
           /\ Parents(p, paper[p]) \cap closed = {}
           /\ Save(f, p, <<>>, [paper[p] EXCEPT !.archived = (form[f].op = "archive")])
    BY DEF ArchiveOrRestore
  <1>2. Open(f) /\ form[f].op \in Lifecycle /\ p \in Paper  BY DEF ArchiveOrRestore
  <1>3. KindOf[p] # "reference"  BY <1>1, <1>2, TargetKind
  <1>4. paper[p] \in PaperRow /\ PaperOK(KindOf[p], paper[p])  BY <1>2, PaperTypes
  <1>5. PICK b \in BOOLEAN : b = (form[f].op = "archive")  OBVIOUS
  <1>6. PICK row : row = [paper[p] EXCEPT !.archived = b]  OBVIOUS
  <1>7. /\ row \in PaperRow /\ row.rows = paper[p].rows
        /\ row.matter = paper[p].matter /\ row.person = paper[p].person
    BY <1>4, <1>6 DEF PaperRow
  <1>8. PaperOK(KindOf[p], row)  BY <1>4, <1>7 DEF PaperOK
  <1>9. Save(f, p, <<>>, row)  BY <1>1, <1>5, <1>6
  <1>10. ~Resting(p)
    <2>1. {x.of : x \in {y \in paper[p].rows : ~y.retired}} \cap Matter = DocumentMatters(paper[p])
      BY DEF DocumentMatters, Members, Current
    <2>2. CASE KindOf[p] = "document"
      <3>1. DocumentMatters(paper[p]) # {} => DocumentMatters(paper[p]) \cap closed = {}
        BY <1>1, <2>2 DEF Parents
      <3>2. DocumentMatters(paper[p]) = {} => paper[p].client \notin closed
        BY <1>1, <2>2 DEF Parents
      <3> QED  BY <2>1, <2>2, <3>1, <3>2 DEF Resting
    <2>3. CASE KindOf[p] # "document"
      <3>1. paper[p].client \notin closed  BY <1>1, <1>3, <2>3 DEF Parents
      <3> QED  BY <1>3, <2>3, <3>1 DEF Resting
    <2> QED  BY <2>2, <2>3
  <1>11. Saved(f, p, row)  BY <1>1, <1>2, <1>7, <1>8, <1>9, <1>10 DEF Saved
  <1> QED  BY <1>2, <1>11, <1>7

-----------------------------------------------------------------------------
(* The invariant.                                                          *)

Saving(f) ==
    \/ SaveDocument(f) \/ SavePOA(f) \/ SaveLetter(f) \/ Cover(f) \/ Uncover(f)
    \/ Recover(f) \/ Refer(f) \/ ArchiveOrRestore(f)

LEMMA SavingSaves ==
    ASSUME Inv, NEW f \in Form, Saving(f)
    PROVE  \E p \in Paper, row \in PaperRow : Saved(f, p, row)
  BY SaveDocumentSaves, SavePOASaves, SaveLetterSaves, CoverSaves, UncoverSaves,
     RecoverSaves, ReferSaves, ArchiveOrRestoreSaves DEF Saving

LEMMA SavingInv ==
    ASSUME Inv, NEW f \in Form, Saving(f)
    PROVE  Inv'
  <1>1. PICK p \in Paper, row \in PaperRow : Saved(f, p, row)  BY SavingSaves
  <1>2. PICK request : Save(f, p, request, row)  BY <1>1 DEF Saved
  <1> QED  BY <1>1, <1>2, SaveInv DEF Saved

LEMMA InitInv == Init => Inv
  <1> SUFFICES ASSUME Init PROVE Inv
    OBVIOUS
  <1>1. TablesOK
    <2>1. paper \in [Paper -> PaperRow]  BY ImportedAssumption DEF Init
    <2> QED  BY <2>1 DEF Init, TablesOK
  <1>2. PapersOK
    <2> SUFFICES ASSUME NEW p \in Paper PROVE PaperOK(KindOf[p], Imported[p])
      BY DEF Init, PapersOK
    <2>1. PICK r : r = Imported[p]  OBVIOUS
    <2>2. r \in PaperRow /\ r.rows \subseteq Row  BY <2>1, ImportedAssumption DEF PaperRow
    <2>3. /\ \A x, y \in r.rows : x.of = y.of => x = y
          /\ \A x \in r.rows : x.of \in MembersOf(KindOf[p])
          /\ \A x, y \in Current(r, Paper) : x = y
          /\ KindOf[p] = "document" => PlacedApart(r) /\ Agreeing(r)
          /\ KindOf[p] \in {"poa", "letter"} => OnePlaceEach(r.rows)
      BY <2>1, ImportedAssumption DEF OnePlaceEach
    <2>4. OneRowEach(r.rows) /\ OneCurrentEach(r.rows)
      BY <2>3 DEF OneRowEach, OneCurrentEach
    <2>5. KindOf[p] = "reference" => OneCurrent(r.rows)
      <3>1. KindOf[p] = "reference" => \A x \in r.rows : x.of \in Paper
        BY <2>3 DEF MembersOf
      <3> QED  BY <2>3, <3>1 DEF OneCurrent, Current
    <2>6. KindOf[p] = "document" => Apart(r.rows, Matter) /\ Apart(r.rows, Person)
      BY <2>3, SetsAssumption DEF PlacedApart, Apart, Now, Current
    <2>7. ColumnsOK(KindOf[p], r.rows, r.matter, r.person)
      BY <2>3, OfNowIsMembers DEF ColumnsOK, SoleOf, Agreeing
    <2>8. RowsOK(KindOf[p], r.rows)  BY <2>2, <2>3, <2>4, <2>5, <2>6 DEF RowsOK
    <2> QED  BY <2>1, <2>2, <2>7, <2>8 DEF PaperOK
  <1>3. FormsOK  BY DEF Init, FormsOK, Open
  <1>4. OneEffectPerForm  BY DEF Init, OneEffectPerForm
  <1> QED  BY <1>1, <1>2, <1>3, <1>4 DEF Inv

(* Forms come and go; the papers stay.                                     *)
LEMMA FormChangeInv ==
    ASSUME Inv, NEW f \in Form, NEW q, form' = [form EXCEPT ![f] = q],
           UNCHANGED <<paper, closed, active, desk, receipt>>,
           q = Left \/ FormOK(q, paper)
    PROVE  Inv'
  <1>1. /\ form = [g \in Form |-> form[g]]  BY DEF Inv, TablesOK
  <1>2. form' = [g \in Form |-> form'[g]]  BY <1>1
  <1>3. form'[f] = q /\ \A g \in Form : g # f => form'[g] = form[g]  BY <1>1
  <1>4. FormsOK'
    <2> SUFFICES ASSUME NEW g \in Form, Open(g)' PROVE FormOK(form'[g], paper)
      BY DEF FormsOK
    <2>1. CASE g = f  BY <2>1, <1>3 DEF Open
    <2>2. CASE g # f
      <3>1. form'[g] = form[g] /\ Open(g)  BY <2>2, <1>3 DEF Open
      <3> QED  BY <3>1, FormTypes
    <2> QED  BY <2>1, <2>2
  <1>5. TablesOK'  BY <1>2 DEF Inv, TablesOK
  <1>6. PapersOK' /\ OneEffectPerForm'  BY DEF Inv, PapersOK, OneEffectPerForm
  <1> QED  BY <1>4, <1>5, <1>6 DEF Inv

LEMMA OpenFormInv ==
    ASSUME Inv, NEW f \in Form, OpenForm(f)
    PROVE  Inv'
  <1>1. PICK p \in Paper \cap desk : \E op \in Operations(KindOf[p]) :
           form' = [form EXCEPT ![f] =
              [kind |-> KindOf[p], op |-> op, paper |-> p, shown |-> paper[p],
               facts |-> Facts(p), sent |-> None]]
    BY DEF OpenForm
  <1>0. PICK a : a = Facts(p)  OBVIOUS
  <1>2. PICK op \in Operations(KindOf[p]) :
           form' = [form EXCEPT ![f] =
              [kind |-> KindOf[p], op |-> op, paper |-> p, shown |-> paper[p],
               facts |-> a, sent |-> None]]
    BY <1>0, <1>1
  <1>3. PICK q : q = [kind |-> KindOf[p], op |-> op, paper |-> p, shown |-> paper[p],
                      facts |-> a, sent |-> None]
    OBVIOUS
  <1>4. /\ q.kind = KindOf[p] /\ q.op = op /\ q.paper = p /\ q.shown = paper[p]
        /\ q.facts = a /\ q.sent = None
    BY <1>3
  <1>5. KindOf[p] \in Kind /\ op # "create"
    BY KindAssumption DEF Operations, Kind, Lifecycle
  <1>6. paper[p] \in PaperRow /\ paper[p].version \in Nat
    <2>1. paper[p] \in PaperRow  BY PaperTypes
    <2> QED  BY <2>1 DEF PaperRow
  <1>7. q = [kind |-> q.kind, op |-> q.op, paper |-> q.paper, shown |-> q.shown,
             facts |-> q.facts, sent |-> q.sent]
    BY <1>3, <1>4
  <1>8. paper[p].version <= paper[p].version  BY <1>6
  <1>9. FormOK(q, paper)  BY <1>4, <1>5, <1>6, <1>7, <1>8 DEF FormOK
  <1>10. UNCHANGED <<paper, closed, active, desk, receipt>>  BY DEF OpenForm
  <1>11. form' = [form EXCEPT ![f] = q]  BY <1>2, <1>3
  <1> QED  BY <1>9, <1>10, <1>11, FormChangeInv

LEMMA OpenNewFormInv ==
    ASSUME Inv, NEW f \in Form, OpenNewForm(f)
    PROVE  Inv'
  <1>1. PICK p \in Paper \cap desk :
           form' = [form EXCEPT ![f] =
              [kind |-> KindOf[p], op |-> "create", paper |-> None, shown |-> None,
               facts |-> None, sent |-> None]]
    BY DEF OpenNewForm
  <1>2. PICK q : q = [kind |-> KindOf[p], op |-> "create", paper |-> None, shown |-> None,
                      facts |-> None, sent |-> None]
    OBVIOUS
  <1>3. /\ q.kind = KindOf[p] /\ q.op = "create" /\ q.paper = None /\ q.shown = None
        /\ q.facts = None /\ q.sent = None
    BY <1>2
  <1>4. q = [kind |-> q.kind, op |-> q.op, paper |-> q.paper, shown |-> q.shown,
             facts |-> q.facts, sent |-> q.sent]
    BY <1>2, <1>3
  <1>5. FormOK(q, paper)  BY <1>3, <1>4, KindAssumption DEF FormOK
  <1>6. UNCHANGED <<paper, closed, active, desk, receipt>>  BY DEF OpenNewForm
  <1>7. form' = [form EXCEPT ![f] = q]  BY <1>1, <1>2
  <1> QED  BY <1>5, <1>6, <1>7, FormChangeInv

LEMMA ElsewhereInv == ASSUME Inv, Elsewhere PROVE Inv'
  <1>1. UNCHANGED <<paper, desk, form, receipt>>  BY DEF Elsewhere
  <1>2. closed' \subseteq Matter \cup Client /\ active' \subseteq Person
    BY DEF Elsewhere, Inv, TablesOK
  <1>3. TablesOK'  BY <1>1, <1>2 DEF Inv, TablesOK
  <1>4. PapersOK' /\ FormsOK' /\ OneEffectPerForm'
    BY <1>1 DEF Inv, PapersOK, FormsOK, Open, OneEffectPerForm
  <1> QED  BY <1>3, <1>4 DEF Inv

LEMMA NextInv == Inv /\ [Next]_vars => Inv'
  <1> SUFFICES ASSUME Inv, [Next]_vars PROVE Inv'
    OBVIOUS
  <1>1. ASSUME NEW f \in Form, OpenForm(f) PROVE Inv'  BY <1>1, OpenFormInv
  <1>2. ASSUME NEW f \in Form, OpenNewForm(f) PROVE Inv'  BY <1>2, OpenNewFormInv
  <1>3. ASSUME NEW f \in Form, Saving(f) PROVE Inv'  BY <1>3, SavingInv
  <1>4. ASSUME NEW f \in Form, Acknowledge(f) PROVE Inv'
    BY <1>4, FormChangeInv DEF Acknowledge
  <1>5. ASSUME NEW f \in Form, Leave(f) PROVE Inv'  BY <1>5, FormChangeInv DEF Leave
  <1>6. CASE Elsewhere  BY <1>6, ElsewhereInv
  <1>7. CASE UNCHANGED vars
    BY <1>7 DEF vars, Inv, TablesOK, PapersOK, FormsOK, Open, OneEffectPerForm
  <1> QED  BY <1>1, <1>2, <1>3, <1>4, <1>5, <1>6, <1>7 DEF Next, Saving

(* The rows of every paper stay sound and no form that is fresh is out of  *)
(* date, whatever is created, saved, covered, restored, referred to and    *)
(* archived from forms that were opened before.                            *)
THEOREM Invariance == Spec => []Inv
  BY InitInv, NextInv, PTL DEF Spec

-----------------------------------------------------------------------------
(* What follows from the invariant.                                        *)

(* The lists of a paper are sound: nobody is listed twice, places are      *)
(* distinct and the older columns agree (the tables that the gateways of   *)
(* DR, PE, FL and FR write).                                               *)
THEOREM PaperListsStaySound == Spec => []ListsSound
  <1>1. ASSUME Inv PROVE TypeOK
    <2>1. ASSUME NEW f \in Form, Open(f)
          PROVE  /\ form[f].kind \in Kind /\ form[f].op \in Operations(form[f].kind) \cup {"create"}
                 /\ form[f].paper \in Paper \cup {None}
                 /\ form[f].shown \in PaperRow \cup {None}
      <3>1. FormOK(form[f], paper)  BY <1>1, <2>1, FormTypes
      <3> QED  BY <3>1 DEF FormOK
    <2> QED  BY <1>1, <2>1 DEF Inv, TablesOK, TypeOK
  <1>2. ASSUME Inv, NEW p \in Paper
        PROVE  /\ \A x, y \in Current(paper[p], Matter \cup Person) : x.of = y.of => x = y
               /\ \A x, y \in Current(paper[p], Paper) : x = y
               /\ PlacedApart(paper[p])
               /\ KindOf[p] = "document" => Agreeing(paper[p])
    <2>1. PICK rows : rows = paper[p].rows  OBVIOUS
    <2>2. PICK k \in Kind : k = KindOf[p]  BY KindAssumption
    <2>3. /\ RowsOK(k, rows) /\ ColumnsOK(k, rows, paper[p].matter, paper[p].person)
      BY <1>2, <2>1, <2>2, PaperTypes DEF PaperOK
    <2>4. OneCurrentEach(rows)  BY <2>3 DEF RowsOK, OneRowEach, OneCurrentEach
    <2>5. \A S : Current(paper[p], S) = Now(rows, S)  BY <2>1 DEF Current, Now
    <2>6. \A x, y \in Now(rows, Matter \cup Person) : x.of = y.of => x = y
      BY <2>4 DEF OneCurrentEach, Now
    <2>7. \A x, y \in Now(rows, Paper) : x = y
      <3>1. k = "reference" => OneCurrent(rows)  BY <2>3 DEF RowsOK
      <3>2. k # "reference" => \A x \in rows : x.of \in Matter \cup Person
        BY <2>3 DEF RowsOK, MembersOf, Kind
      <3> QED  BY <3>1, <3>2, SetsAssumption DEF OneCurrent, Now
    <2>8. \A x, y \in Now(rows, Matter \cup Person) :
             (x.of \in Matter) = (y.of \in Matter) /\ x.place = y.place => x = y
      <3>1. CASE k = "document"
        <4>1. Apart(rows, Matter) /\ Apart(rows, Person)  BY <2>3, <3>1 DEF RowsOK
        <4> QED  BY <4>1 DEF Apart, Now
      <3>2. CASE k \in {"poa", "letter"}
        <4>1. OnePlaceEach(rows)  BY <2>3, <3>2 DEF RowsOK
        <4> QED  BY <4>1 DEF OnePlaceEach, Now
      <3>3. CASE k = "reference"
        <4>1. \A x \in rows : x.of \in Paper  BY <2>3, <3>3 DEF RowsOK, MembersOf
        <4> QED  BY <4>1, SetsAssumption DEF Now
      <3> QED  BY <3>1, <3>2, <3>3 DEF Kind
    <2>9. k = "document" => Agreeing(paper[p])
      BY <2>1, <2>3, OfNowIsMembers DEF ColumnsOK, SoleOf, Agreeing
    <2> QED  BY <2>2, <2>5, <2>6, <2>7, <2>8, <2>9 DEF PlacedApart
  <1>3. Inv => ListsSound
    BY <1>1, <1>2 DEF ListsSound, OneCurrentRowEach, PlacesAreDistinct, ScalarAgrees
  <1> QED  BY <1>3, Invariance, PTL

(* A submission takes effect once: later attempts find its receipt.        *)
THEOREM SubmissionsCountOnce == Spec => []OneEffectPerForm
  <1>1. Inv => OneEffectPerForm  BY DEF Inv
  <1> QED  BY <1>1, Invariance, PTL

(* Every step that leaves a receipt is a save.                             *)
LEMMA ReceiptsTellSaves ==
    ASSUME Inv, [Next]_vars
    PROVE  \/ paper' = paper /\ receipt' = receipt
           \/ \E f \in Form, p \in Paper, row \in PaperRow :
                 /\ Saved(f, p, row)
                 /\ \A q \in Paper : q # p => paper'[q] = paper[q]
                 /\ paper'[p] = paper[p] \/ paper'[p].rows = row.rows
                 /\ \A e \in receipt' \ receipt : e.form = f /\ e.paper = p
  <1>1. ASSUME NEW f \in Form, Saving(f)
        PROVE  \E p \in Paper, row \in PaperRow :
                 /\ Saved(f, p, row)
                 /\ \A q \in Paper : q # p => paper'[q] = paper[q]
                 /\ paper'[p] = paper[p] \/ paper'[p].rows = row.rows
                 /\ \A e \in receipt' \ receipt : e.form = f /\ e.paper = p
    <2>1. PICK p \in Paper, row \in PaperRow : Saved(f, p, row)  BY <1>1, SavingSaves
    <2>2. PICK request : Save(f, p, request, row)  BY <2>1 DEF Saved
    <2>3. PaperOK(KindOf[p], row)  BY <2>1 DEF Saved
    <2>4. /\ \A q \in Paper : q # p => paper'[q] = paper[q]
          /\ paper'[p] = paper[p] \/ paper'[p].rows = row.rows
          /\ \A e \in receipt' \ receipt : e.form = f /\ e.paper = p
      BY <2>2, <2>3, SaveInv
    <2> QED  BY <2>1, <2>4, Zenon
  <1>2. ASSUME NEW f \in Form,
               OpenForm(f) \/ OpenNewForm(f) \/ Acknowledge(f) \/ Leave(f)
        PROVE  paper' = paper /\ receipt' = receipt
    BY <1>2 DEF OpenForm, OpenNewForm, Acknowledge, Leave
  <1>3. Elsewhere \/ UNCHANGED vars => paper' = paper /\ receipt' = receipt
    BY DEF Elsewhere, vars
  <1>4. \/ \E f \in Form : Saving(f)
        \/ \E f \in Form : OpenForm(f) \/ OpenNewForm(f) \/ Acknowledge(f) \/ Leave(f)
        \/ Elsewhere \/ UNCHANGED vars
    BY DEF Next, Saving
  <1>5. (\E f \in Form : Saving(f)) \/ (paper' = paper /\ receipt' = receipt)
    BY <1>2, <1>3, <1>4
  <1>6. CASE paper' = paper /\ receipt' = receipt  BY <1>6
  <1>7. CASE \E f \in Form : Saving(f)
    <2>1. PICK f \in Form : Saving(f)  BY <1>7
    <2>2. PICK p \in Paper, row \in PaperRow :
             /\ Saved(f, p, row)
             /\ \A q \in Paper : q # p => paper'[q] = paper[q]
             /\ paper'[p] = paper[p] \/ paper'[p].rows = row.rows
             /\ \A e \in receipt' \ receipt : e.form = f /\ e.paper = p
      BY <1>1, <2>1
    <2> QED  BY <2>2, Zenon
  <1> QED  BY <1>5, <1>6, <1>7

(* Whatever a form changes is still as it displayed it: the comparison of  *)
(* versions is enough.                                                     *)
THEOREM PapersChangeAsDisplayed == Spec => NoLostUpdate
  <1>1. ASSUME Inv, [Next]_vars, NEW e \in receipt' \ receipt,
               form[e.form].op # "create"
        PROVE  paper[e.paper] = form[e.form].shown
    <2>1. PICK f \in Form, p \in Paper, row \in PaperRow :
             Saved(f, p, row) /\ e.form = f /\ e.paper = p
      BY <1>1, ReceiptsTellSaves
    <2>2. Open(f)  BY <2>1 DEF Saved, Save
    <2>3. FormOK(form[f], paper)  BY <1>1, <2>2, FormTypes
    <2>4. p = form[f].paper /\ paper[p].version = form[f].shown.version
      BY <1>1, <2>1 DEF Saved, Target, Fresh
    <2> QED  BY <1>1, <2>1, <2>3, <2>4 DEF FormOK
  <1>2. Inv /\ [Next]_vars =>
           [\A e \in receipt' \ receipt :
              form[e.form].op # "create" => paper[e.paper] = form[e.form].shown]_vars
    BY <1>1
  <1> QED  BY <1>2, Invariance, PTL DEF Spec, NoLostUpdate

(* Whoever archives or restores a letter was shown as many references as   *)
(* there are, although referring to a letter leaves its version alone.     *)
THEOREM PaperConfirmationsHold == Spec => ConfirmationHolds
  <1>1. ASSUME Inv, [Next]_vars, NEW e \in receipt' \ receipt,
               form[e.form].op \in Lifecycle
        PROVE  form[e.form].facts.referring =
                  Cardinality({r \in Paper : \E x \in paper[r].rows : x.of = e.paper /\ ~x.retired})
    <2>1. PICK f \in Form, p \in Paper, row \in PaperRow :
             Saved(f, p, row) /\ e.form = f /\ e.paper = p
      BY <1>1, ReceiptsTellSaves
    <2>2. form[f].facts = Facts(p)  BY <1>1, <2>1 DEF Saved
    <2>3. Facts(p).referring = Referring(p)  BY DEF Facts
    <2>4. ASSUME NEW r \in Paper
          PROVE  (KindOf[r] = "reference" /\ p \in Members(paper[r], {p})) <=>
                 \E x \in paper[r].rows : x.of = p /\ ~x.retired
      <3>1. p \in Members(paper[r], {p}) <=> \E x \in paper[r].rows : x.of = p /\ ~x.retired
        BY DEF Members, Current
      <3>2. \A x \in paper[r].rows : x.of \in MembersOf(KindOf[r])
        BY <1>1, PaperTypes DEF RowsOK
      <3>3. KindOf[r] \in Kind  BY KindAssumption
      <3>4. KindOf[r] # "reference" => \A x \in paper[r].rows : x.of \in Matter \cup Person
        BY <3>2, <3>3 DEF MembersOf, Kind
      <3> QED  BY <3>1, <3>4, SetsAssumption
    <2>5. {r \in Paper : KindOf[r] = "reference" /\ p \in Members(paper[r], {p})} =
          {r \in Paper : \E x \in paper[r].rows : x.of = p /\ ~x.retired}
      BY <2>4
    <2> QED  BY <2>1, <2>2, <2>3, <2>5 DEF Referring
  <1>2. Inv /\ [Next]_vars =>
           [\A e \in receipt' \ receipt :
              form[e.form].op \in Lifecycle =>
                 form[e.form].facts.referring =
                    Cardinality({r \in Paper : \E x \in paper[r].rows :
                                    x.of = e.paper /\ ~x.retired})]_vars
    BY <1>1
  <1> QED  BY <1>2, Invariance, PTL DEF Spec, ConfirmationHolds

(* What is below an archived record rests, and the rows of an archived     *)
(* matter on a letter rest although the letter itself may change.          *)
THEOREM PapersBelowArchivesRest == Spec => PapersRest
  <1>1. ASSUME Inv, [Next]_vars, NEW p \in Paper
        PROVE  /\ Resting(p) => paper'[p] = paper[p]
               /\ KindOf[p] = "letter" =>
                    {x \in paper'[p].rows : x.of \in closed} = {x \in paper[p].rows : x.of \in closed}
    <2>1. CASE paper' = paper  BY <2>1
    <2>2. CASE paper' # paper
      <3>1. PICK f \in Form, q \in Paper, row \in PaperRow :
               /\ Saved(f, q, row)
               /\ \A r \in Paper : r # q => paper'[r] = paper[r]
               /\ paper'[q] = paper[q] \/ paper'[q].rows = row.rows
        BY <1>1, <2>2, ReceiptsTellSaves
      <3>2. CASE p # q  BY <3>1, <3>2
      <3>3. CASE p = q
        <4>1. ~Resting(p)  BY <3>1, <3>3 DEF Saved
        <4>2. KindOf[p] = "letter" =>
                 {x \in row.rows : x.of \in closed} = {x \in paper[p].rows : x.of \in closed}
          BY <3>1, <3>3 DEF Saved
        <4> QED  BY <3>1, <3>3, <4>1, <4>2
      <3> QED  BY <3>2, <3>3
    <2> QED  BY <2>1, <2>2
  <1>2. Inv /\ [Next]_vars =>
           [\A p \in Paper :
              /\ Resting(p) => paper'[p] = paper[p]
              /\ KindOf[p] = "letter" =>
                   {x \in paper'[p].rows : x.of \in closed} =
                   {x \in paper[p].rows : x.of \in closed}]_vars
    BY <1>1
  <1> QED  BY <1>2, Invariance, PTL DEF Spec, PapersRest
=============================================================================
