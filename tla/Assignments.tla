---------------------------- MODULE Assignments ----------------------------
(***************************************************************************)
(* The people listed on a record: the lawyers of a matter, the attendees   *)
(* of a hearing and the assignees of an administrative work.  Nobody is    *)
(* deleted from a list: whoever leaves is retired and keeps the row, and   *)
(* gets it back when joining again.  A form holds the list as it was       *)
(* displayed while others save theirs and the roster deactivates people.   *)
(*                                                                         *)
(* A save is one serializable transaction and one step.  The statements    *)
(* of matter_edit_save are kept apart (Assigned) because the index on lead *)
(* lawyers is checked after each of them.                                  *)
(***************************************************************************)
EXTENDS Integers, Sequences, FiniteSets

CONSTANTS Person,                 \* the internal staff
          Matter, Hearing, Work,  \* whose lists there are
          Form,                   \* the forms that are opened
          Imported,               \* the rows the data import left
          None                    \* SQL's NULL

Owner == Matter \cup Hearing \cup Work

(* The identity of a row says which save of the record inserted it, 0 for  *)
(* the import, and where in its list: a sequence numbers rows in the same  *)
(* order.                                                                  *)
Id == Nat \X Nat

(* place is coalesce(current_order, ordinal) of an attendee and the        *)
(* position of an assignee, with 0 for NULL; lead the role of a lawyer.    *)
Row == [id : Id, person : Person, retired : BOOLEAN, lead : BOOLEAN, place : Nat]

Current(rows) == {r \in rows : ~r.retired}
People(rows) == {r.person : r \in rows}

(* matter_lawyers_one_lead_per_matter.                                     *)
OneLeadIn(rows) == \A r, s \in Current(rows) : r.lead /\ s.lead => r = s

(* Imported attendees may name a person twice; lawyers and assignees have  *)
(* one row per person.                                                     *)
ASSUME OwnersAssumption ==
    /\ Matter \cap (Hearing \cup Work) = {} /\ Hearing \cap Work = {}
    /\ None \notin Person /\ IsFiniteSet(Person)

ASSUME ImportedAssumption ==
    \A o \in Owner :
       /\ Imported[o] \subseteq Row /\ IsFiniteSet(Imported[o])
       /\ OneLeadIn(Imported[o])
       /\ \A r, s \in Imported[o] : r.id = s.id => r = s
       /\ \A r \in Imported[o] : r.id[1] = 0 /\ ~r.retired
       /\ o \in Hearing => \A r, s \in Imported[o] : r.place = s.place => r = s
       /\ o \notin Hearing => \A r, s \in Imported[o] : r.person = s.person => r = s
       /\ o \in Work => \A r, s \in Imported[o] : r.place = 1

VARIABLES
    active,    \* people.is_active
    rows,      \* matter_lawyers, hearing_attendees, admin_task_assignees
    version,   \* row_version of the owner
    assigned,  \* admin_tasks.assigned_to_person_id
    form       \* the forms open in browsers

vars == <<active, rows, version, assigned, form>>

Elements(s) == {s[i] : i \in 1..Len(s)}
IndexIn(s, p) == CHOOSE i \in 1..Len(s) : s[i] = p

(* What a form will send: of a hearing the attendees it keeps and those    *)
(* who join, in their order; of the others the whole list in its order,    *)
(* with the lead lawyer.  shown is the list it displayed.                  *)
Page == [owner : Owner, version : Nat, keep : SUBSET Id, list : Seq(Person),
         lead : Person \cup {None}, shown : SUBSET Row]

Unused == [status |-> "unused"]
Spent  == [status |-> "spent"]
Open(f) == form[f] \notin {Unused, Spent}

TypeOK ==
    /\ active \in [Person -> BOOLEAN]
    /\ \A o \in Owner : rows[o] \subseteq Row /\ IsFiniteSet(rows[o])
    /\ rows = [o \in Owner |-> rows[o]]
    /\ \A w \in Work : \A r \in rows[w] : r.retired <=> r.place = 0
    /\ version \in [Owner -> Nat]
    /\ assigned \in [Work -> Person \cup {None}]
    /\ form = [f \in Form |-> form[f]]
    /\ \A f \in Form : form[f] \in Page \cup {Unused, Spent}

SoleAssignee(s) == IF \E p \in Person : People(Current(s)) = {p}
                   THEN CHOOSE p \in Person : People(Current(s)) = {p} ELSE None

Init ==
    /\ active \in [Person -> BOOLEAN]
    /\ rows = [o \in Owner |-> Imported[o]]
    /\ version = [o \in Owner |-> 1]
    /\ assigned = [w \in Work |-> SoleAssignee(Imported[w])]
    /\ form = [f \in Form |-> Unused]

-----------------------------------------------------------------------------
(* The roster.  Deactivating a person leaves the lists alone.              *)
SetActive(p) ==
    /\ active' = [active EXCEPT ![p] = ~@]
    /\ UNCHANGED <<rows, version, assigned, form>>

Distinct(s) == \A i, j \in 1..Len(s) : s[i] = s[j] => i = j

(* An editor offers who is listed and who is active, and nobody twice.     *)
Offered(o, p) == active[p] \/ p \in People(Current(rows[o]))

OpenForm(f) ==
    \E o \in Owner :
    \E keep \in SUBSET {r.id : r \in Current(rows[o])}, n \in 0..Cardinality(Person) :
    \E list \in [1..n -> Person], lead \in Person \cup {None} :
       /\ form[f] = Unused
       /\ Distinct(list) /\ \A i \in 1..n : Offered(o, list[i])
       /\ IF o \in Hearing
          THEN \A i \in 1..n : list[i] \notin People(Current(rows[o]))
          ELSE keep = {}
       /\ lead # None => o \in Matter /\ lead \in Elements(list)
       /\ form' = [form EXCEPT ![f] =
                     [owner |-> o, version |-> version[o], keep |-> keep, list |-> list,
                      lead |-> lead, shown |-> Current(rows[o])]]
       /\ UNCHANGED <<active, rows, version, assigned>>

-----------------------------------------------------------------------------
(* A mutant: a form is saved over whatever was saved since.                *)
AnyVersion(q) == q.version <= version[q.owner]

Fresh(q) == version[q.owner] = q.version

(* A mutant: whom the editor offered is taken to be eligible.              *)
EligibleWhenOffered(q) == TRUE

(* A mutant: as soon as somebody joins, the whole list has to be active.   *)
EligibleThroughout(q) ==
    \/ Elements(q.list) \subseteq People(Current(rows[q.owner]))
    \/ \A p \in Elements(q.list) : active[p]

(* Who joins, or joins again, is active staff at the time of the save.     *)
Eligible(q) ==
    \A p \in Elements(q.list) \ People(Current(rows[q.owner])) : active[p]

(* A new attendee is not listed yet.                                       *)
NoDuplicates(q) ==
    q.owner \in Hearing => Elements(q.list) \cap People(Current(rows[q.owner])) = {}

(* The id a sequence hands out to the i-th member of a list.               *)
NewId(o, i) == <<version[o], i>>

(* A mutant: the former lead keeps the role until its own turn comes.      *)
LeadKept(q, r) == r

(* Release lead designation before assigning another lead.                 *)
Released(q, r) ==
    IF r.lead /\ r.person \in Elements(q.list) /\ r.person # q.lead
    THEN [r EXCEPT !.lead = FALSE] ELSE r

(* matter_lawyers after the retirement, the release and the first i of the *)
(* updates and insertions, in the order of the list.                       *)
Assigned(q, i) ==
    LET kept(r) == IF r.person \in Elements(q.list) THEN r ELSE [r EXCEPT !.retired = TRUE]
        done    == {q.list[j] : j \in 1..i}
        put(r)  == IF r.person \in done
                   THEN [r EXCEPT !.lead = (r.person = q.lead), !.retired = FALSE]
                   ELSE Released(q, kept(r))
    IN  {put(r) : r \in rows[q.owner]} \cup
        {[id |-> NewId(q.owner, j), person |-> q.list[j], retired |-> FALSE,
          lead |-> (q.list[j] = q.lead), place |-> 0] :
            j \in {k \in 1..i : q.list[k] \notin People(rows[q.owner])}}

(* a was handed out before b, or is b.                                     *)
Before(a, b) == a[1] < b[1] \/ (a[1] = b[1] /\ a[2] <= b[2])

(* The row a person comes back to: the first of the retired ones.          *)
Former(o, p) ==
    LET retired == {r \in rows[o] : r.person = p /\ r.retired}
    IN  {r \in retired : \A s \in retired : Before(r.id, s.id)}

(* A mutant: the places of those who left are given away again.            *)
LastPlaceOf(o, keep) ==
    {n \in {r.place : r \in {s \in rows[o] : s.id \in keep}} \cup {0} :
       \A r \in rows[o] : r.id \in keep => r.place <= n}

(* A mutant: who joins gets the next number after those present.           *)
CountedPlace(o, keep) == {Cardinality(Current(rows[o]))}

(* The highest place ever given on this list: a set with one element.      *)
LastPlace(o, keep) ==
    {n \in {r.place : r \in rows[o]} \cup {0} : \A r \in rows[o] : r.place <= n}

(* hearing_attendees: who stays keeps the place, who joins is appended.    *)
Attending(q, last) ==
    LET o       == q.owner
        back(r) == \E i \in 1..Len(q.list) : r \in Former(o, q.list[i])
        put(r)  == IF back(r)
                   THEN [r EXCEPT !.retired = FALSE, !.place = last + IndexIn(q.list, r.person)]
                   ELSE IF r.id \in q.keep THEN r ELSE [r EXCEPT !.retired = TRUE]
    IN  {put(r) : r \in rows[o]} \cup
        {[id |-> NewId(o, i), person |-> q.list[i], retired |-> FALSE, lead |-> FALSE,
          place |-> last + i] : i \in {k \in 1..Len(q.list) : q.list[k] \notin People(rows[o])}}

WithoutPlace(r) == [r EXCEPT !.retired = TRUE, !.place = 0]

(* admin_task_assignees: task69_admin_assign.                              *)
Working(q) ==
    LET o      == q.owner
        put(r) == IF r.person \in Elements(q.list)
                  THEN [r EXCEPT !.retired = FALSE, !.place = IndexIn(q.list, r.person)]
                  ELSE WithoutPlace(r)
    IN  {put(r) : r \in rows[o]} \cup
        {[id |-> NewId(o, i), person |-> q.list[i], retired |-> FALSE, lead |-> FALSE,
          place |-> i] : i \in {k \in 1..Len(q.list) : q.list[k] \notin People(rows[o])}}

(* The single-assignee column that older readers use.                      *)
Scalar(q) == IF Len(q.list) = 1 THEN q.list[1] ELSE None

Accepted(q) == Fresh(q) /\ Eligible(q) /\ NoDuplicates(q)

(* An unchanged list advances nothing.                                     *)
Store(f, after) ==
    LET o == form[f].owner
    IN  /\ rows' = [rows EXCEPT ![o] = after]
        /\ version' = IF after = rows[o] THEN version ELSE [version EXCEPT ![o] = @ + 1]
        /\ form' = [form EXCEPT ![f] = Spent]

SaveMatter(f) ==
    LET q == form[f]
    IN  /\ Open(f) /\ q.owner \in Matter /\ Accepted(q)
        /\ \A i \in 0..Len(q.list) : OneLeadIn(Assigned(q, i))
        /\ Store(f, Assigned(q, Len(q.list)))
        /\ UNCHANGED <<active, assigned>>

SaveHearing(f) ==
    LET q == form[f]
    IN  /\ Open(f) /\ q.owner \in Hearing /\ Accepted(q)
        /\ \E n \in LastPlace(q.owner, q.keep) : Store(f, Attending(q, n))
        /\ UNCHANGED <<active, assigned>>

SaveWork(f) ==
    LET q == form[f]
    IN  /\ Open(f) /\ q.owner \in Work /\ Accepted(q)
        /\ Store(f, Working(q))
        /\ assigned' = [assigned EXCEPT ![q.owner] = Scalar(q)]
        /\ UNCHANGED active

(* Refused, and closed: the page has to be opened again.                   *)
Refuse(f) ==
    LET q == form[f]
    IN  /\ Open(f)
        /\ \/ ~Accepted(q)
           \/ q.owner \in Matter /\ \E i \in 0..Len(q.list) : ~OneLeadIn(Assigned(q, i))
        /\ form' = [form EXCEPT ![f] = Spent]
        /\ UNCHANGED <<active, rows, version, assigned>>

Next ==
    \/ \E p \in Person : SetActive(p)
    \/ \E f \in Form :
          OpenForm(f) \/ SaveMatter(f) \/ SaveHearing(f) \/ SaveWork(f) \/ Refuse(f)

Spec == Init /\ [][Next]_vars
-----------------------------------------------------------------------------
(* Whoever appears on a list that was not there before is active staff at  *)
(* that moment, although the form chose among those who were active when   *)
(* it was opened (D60, D62, D46): a deactivation in between is seen.       *)
JoinersAreActive ==
    [][\A o \in Owner :
          \A p \in People(Current(rows'[o])) \ People(Current(rows[o])) : active[p]]_vars

(* The form wants this row to stay: an attendee by the row, the others by  *)
(* the person.                                                             *)
Keeps(q, r) == IF q.owner \in Hearing THEN r.id \in q.keep ELSE r.person \in Elements(q.list)

Stays(r, after) == \E s \in Current(after) : s.id = r.id /\ s.person = r.person

(* A form takes nobody off a list whom it did not display there, and       *)
(* leaves everybody it kept in the row they have: two forms on one list    *)
(* cannot undo each other's work unseen.                                   *)
NobodyLeavesUnseen ==
    [][\A f \in Form : Open(f) /\ form'[f] = Spent =>
          \A r \in Current(rows[form[f].owner]) :
             \/ Stays(r, rows'[form[f].owner])
             \/ r \in form[f].shown /\ ~Keeps(form[f], r)]_vars

(* A list is accepted even if members it had before have left the firm     *)
(* since, whoever joins them, and a list with a new lead is never refused  *)
(* by the index on leads, in whatever order the rows are written: what is  *)
(* refused is a stale form or a newcomer who is not active.                *)
OnlyStaleOrIneligibleIsRefused ==
    \A f \in Form :
       Open(f) =>
          LET q == form[f]
          IN  Fresh(q) =>
              /\ (\A p \in Elements(q.list) \ People(q.shown) : active[p]) => Accepted(q)
              /\ q.owner \in Matter => \A i \in 0..Len(q.list) : OneLeadIn(Assigned(q, i))

(* A person has one row per list for ever, retired or not, except for the  *)
(* duplicates the import brought: whoever returns gets the same identity.  *)
OneRowPerPerson ==
    \A o \in Owner : \A r, s \in rows[o] :
       r.person = s.person /\ r # s => {r.id, s.id} \subseteq {i.id : i \in Imported[o]}

(* Attendees keep their place while they stay: a row that was current      *)
(* before a step and is after it is the same row.  Who joins or returns    *)
(* comes after everybody who was ever on the list, so that a later return  *)
(* never slips in between those who were there.                            *)
AttendeesKeepTheirOrder ==
    [][\A h \in Hearing :
          \A r \in Current(rows'[h]) \ Current(rows[h]) :
             /\ \A s \in Current(rows[h]) : s.id # r.id
             /\ \A s \in rows[h] : s.place < r.place]_vars

(* No two attendees present share a place, whatever left and returned.     *)
PlacesAreDistinct ==
    \A h \in Hearing : \A r, s \in Current(rows[h]) : r.place = s.place => r = s

(* The column with the single assignee, which older lists read, agrees     *)
(* with the list of assignees (task69_admin_assignee_compatibility).       *)
ScalarAgrees == \A w \in Work : assigned[w] = SoleAssignee(rows[w])

(* The lists are sound whatever forms were saved and whoever left, came    *)
(* back or was deactivated in between.                                     *)
ListsSound == TypeOK /\ OneRowPerPerson /\ PlacesAreDistinct /\ ScalarAgrees
=============================================================================
