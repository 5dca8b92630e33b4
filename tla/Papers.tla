------------------------------- MODULE Papers -------------------------------
(***************************************************************************)
(* The papers of a case: documents, powers of attorney, fee letters and    *)
(* the fee letter a matter refers to.  Each is a versioned row with rows   *)
(* of members below it (matters and responsible people, lawyers, covered   *)
(* matters, letters) that are retired and never deleted.  A row is known   *)
(* by its member, of a letter by its place as well.  The gateways          *)
(* document_edit_save, poa_edit_save, fee_letter_edit_save and             *)
(* matter_fee_reference_edit_save change one paper each, from forms that   *)
(* show it as it was, below matters and clients that are archived and      *)
(* people who are deactivated on other pages.                              *)
(***************************************************************************)
EXTENDS Integers, FiniteSets, Sequences, SequencesExt

CONSTANTS Matter, Client, Person, Form, None,
          Paper, KindOf,  \* the papers and what each of them is
          MatterOf,       \* the matter of every reference
          Imported,       \* the papers at the start
          Desks,          \* the papers, matters, clients and people considered together
          MaxVersion      \* bound of the versions

Kind == {"document", "poa", "letter", "reference"}
Row == [of : Matter \cup Person \cup Paper, retired : BOOLEAN, place : Nat]
PaperRow == [version : Nat, archived : BOOLEAN, client : Client \cup {None},
             matter : Matter \cup {None}, person : Person \cup {None}, rows : SUBSET Row]

Current(r, S) == {x \in r.rows : x.of \in S /\ ~x.retired}
Members(r, S) == {x.of : x \in Current(r, S)}

(* What the members of each kind of paper are.                             *)
MembersOf(kind) ==
    CASE kind = "document"  -> Matter \cup Person
      [] kind = "poa"       -> Person
      [] kind = "letter"    -> Matter
      [] kind = "reference" -> Paper

(* The places of the current members are distinct, and the older columns   *)
(* of a document hold its matter and its responsible person when there is  *)
(* exactly one, and nothing otherwise.                                     *)
PlacedApart(r) ==
    \A x, y \in Current(r, Matter \cup Person) :
       (x.of \in Matter) = (y.of \in Matter) /\ x.place = y.place => x = y
Agreeing(r) ==
    /\ \A m \in Matter : (r.matter = m) = (Members(r, Matter) = {m})
    /\ \A x \in Person : (r.person = x) = (Members(r, Person) = {x})

ASSUME SetsAssumption ==
    /\ Matter \cap Person = {} /\ Paper \cap (Matter \cup Person) = {}
    /\ None \notin Matter \cup Client \cup Person \cup Paper
ASSUME KindAssumption == KindOf \in [Paper -> Kind]
ASSUME MatterOfAssumption == \A p \in Paper : KindOf[p] = "reference" => MatterOf[p] \in Matter

(* The unique indexes and checks of the tables, and that the import brings *)
(* no retired rows of a letter.                                            *)
ASSUME ImportedAssumption ==
    /\ Imported \in [Paper -> PaperRow]
    /\ \A p \in Paper :
          /\ \A x, y \in Imported[p].rows : x.of = y.of => x = y
          /\ \A x \in Imported[p].rows : x.of \in MembersOf(KindOf[p])
          /\ \A x, y \in Current(Imported[p], Paper) : x = y
          /\ KindOf[p] = "document" => PlacedApart(Imported[p]) /\ Agreeing(Imported[p])
          /\ KindOf[p] \in {"poa", "letter"} =>
                \A x, y \in Imported[p].rows : x.place = y.place => x = y
ASSUME DesksAssumption ==
    \A d \in Desks : d \subseteq Paper \cup Matter \cup Client \cup Person /\ IsFiniteSet(d)

VARIABLES
    paper,    \* the tables
    closed,   \* the matters and clients that are archived
    active,   \* the people who are active staff
    desk,     \* what this behaviour is about
    form,     \* the forms in browsers
    receipt   \* the submissions that took effect, on which paper and version

vars == <<paper, closed, active, desk, form, receipt>>

(* A paper that was not created yet.                                       *)
Blank == [version |-> 0, archived |-> FALSE, client |-> None, matter |-> None,
          person |-> None, rows |-> {}]

Exists(p) == paper[p].version > 0

(* The highest place given so far: a set with one element.                 *)
LastPlace(rows) ==
    {n \in {x.place : x \in rows} \cup {0} : \A x \in rows : x.place <= n}

(* The current members of a document, in the order they were chosen.       *)
Listed(r, S) ==
    LET s == SetToSortSeq(Current(r, S), LAMBDA x, y : x.place < y.place)
    IN  [i \in DOMAIN s |-> s[i].of]

(* The selections that a form can hold.                                    *)
Selections(S) ==
    UNION {{s \in [1..n -> S] : \A i, j \in 1..n : s[i] = s[j] => i = j} : n \in 0..Cardinality(S)}

-----------------------------------------------------------------------------
(* A mutant: the matter of a document is taken from its older column.      *)
ScalarMatters(r) == {r.matter} \ {None}

DocumentMatters(r) == Members(r, Matter)

(* What has to be unarchived for a paper to change, the change aside.      *)
Parents(p, r) ==
    IF KindOf[p] = "reference" THEN {MatterOf[p]}
    ELSE IF KindOf[p] = "document" /\ DocumentMatters(r) # {} THEN DocumentMatters(r)
    ELSE {r.client}

(* A mutant: the page of a letter does not count the matters that refer    *)
(* to it.                                                                  *)
Unreferred(p) == 0

Referring(p) == Cardinality({r \in Paper : KindOf[r] = "reference" /\ p \in Members(paper[r], {p})})

(* What is displayed before archiving or restoring, and sent back: the     *)
(* lists of a document, the numbers of members of the others.              *)
Facts(p) ==
    LET r == paper[p]
    IN  [archived |-> r.archived, client |-> r.client, matter |-> r.matter, person |-> r.person,
         below |-> Parents(p, r) \cap closed # {},
         lists |-> IF KindOf[p] = "document" THEN <<Listed(r, Matter), Listed(r, Person)>> ELSE <<>>,
         members |-> IF KindOf[p] = "document" THEN 0 ELSE Cardinality(Current(r, Matter \cup Person)),
         all |-> IF KindOf[p] = "document" THEN 0 ELSE Cardinality(r.rows),
         referring |-> Referring(p)]

Unused == [op |-> "unused"]
Left == [op |-> "closed"]
Open(f) == form[f] \notin {Unused, Left}

Lifecycle == {"archive", "restore"}
Operations(kind) ==
    CASE kind = "reference" -> {"refer"}
      [] kind = "letter"    -> {"update", "cover", "uncover", "recover"} \cup Lifecycle
      [] OTHER              -> {"update"} \cup Lifecycle

TypeOK ==
    /\ paper \in [Paper -> PaperRow]
    /\ closed \subseteq Matter \cup Client /\ active \subseteq Person /\ desk \in Desks
    /\ \A f \in Form : Open(f) =>
          /\ form[f].kind \in Kind /\ form[f].op \in Operations(form[f].kind) \cup {"create"}
          /\ form[f].paper \in Paper \cup {None}
          /\ form[f].shown \in PaperRow \cup {None}
    /\ receipt \subseteq [form : Form, paper : Paper, version : Nat \ {0}]

Init ==
    /\ paper = Imported /\ closed = {} /\ active = Person
    /\ desk \in Desks
    /\ form = [f \in Form |-> Unused]
    /\ receipt = {}

-----------------------------------------------------------------------------
(* A form is opened: it shows one paper, or none when it creates one.  A   *)
(* paper that is archived is only offered for restoring, the others are    *)
(* not.                                                                    *)
OpenForm(f) ==
    /\ form[f] = Unused
    /\ \E p \in Paper \cap desk : \E op \in Operations(KindOf[p]) :
          /\ Exists(p) /\ paper[p].archived = (op = "restore")
          /\ form' = [form EXCEPT ![f] =
                [kind |-> KindOf[p], op |-> op, paper |-> p, shown |-> paper[p],
                 facts |-> Facts(p), sent |-> None]]
    /\ UNCHANGED <<paper, closed, active, desk, receipt>>

OpenNewForm(f) ==
    /\ form[f] = Unused
    /\ \E p \in Paper \cap desk :
          /\ ~Exists(p)
          /\ form' = [form EXCEPT ![f] =
                [kind |-> KindOf[p], op |-> "create", paper |-> None, shown |-> None,
                 facts |-> None, sent |-> None]]
    /\ UNCHANGED <<paper, closed, active, desk, receipt>>

(* A mutant: receipts are written and never looked for.                    *)
Forgotten(f) == FALSE

Receipted(f) == \E r \in receipt : r.form = f

(* The paper a form saves, and the row it finds.                           *)
Target(f, p) ==
    IF form[f].op = "create" THEN ~Exists(p) /\ KindOf[p] = form[f].kind
    ELSE p = form[f].paper

(* A mutant: nobody compares versions.                                     *)
AnyVersion(f, p) == TRUE

Fresh(f, p) == form[f].op # "create" => paper[p].version = form[f].shown.version

Editable(f, p) == Target(f, p) /\ Fresh(f, p) /\ ~paper[p].archived

NextVersion(p) == paper[p].version + 1

(* The paper becomes row; the answer closes the form, or is lost, and the  *)
(* form keeps its request.  A save that changes nothing leaves no trace.   *)
Save(f, p, request, row) ==
    /\ Open(f) /\ ~Receipted(f) /\ form[f].sent \in {None, request}
    /\ NextVersion(p) <= MaxVersion
    /\ IF Exists(p) /\ row = paper[p]
       THEN form' = [form EXCEPT ![f] = Left] /\ UNCHANGED <<paper, receipt>>
       ELSE /\ paper' = [paper EXCEPT ![p] = [row EXCEPT !.version = NextVersion(p)]]
            /\ receipt' = receipt \cup {[form |-> f, paper |-> p, version |-> NextVersion(p)]}
            /\ \/ form' = [form EXCEPT ![f] = Left]
               \/ form' = [form EXCEPT ![f].sent = request]
    /\ UNCHANGED <<closed, active, desk>>

-----------------------------------------------------------------------------
Entry(member, place) == [of |-> member, retired |-> FALSE, place |-> place]

(* The positions of those on a list who have no row yet.                   *)
Newcomers(rows, list) == {i \in 1..Len(list) : \A x \in rows : x.of # list[i]}

(* task69_document_assign: every row of the table takes the place of its   *)
(* member in the new list, or retires, and newcomers get rows.             *)
Placed(x, list) ==
    IF Contains(list, x.of)
    THEN [x EXCEPT !.retired = FALSE, !.place = CHOOSE i \in 1..Len(list) : list[i] = x.of]
    ELSE [x EXCEPT !.retired = TRUE, !.place = 0]

Assigned(rows, S, list) ==
    {IF x.of \in S THEN Placed(x, list) ELSE x : x \in rows} \cup
    {Entry(list[i], i) : i \in Newcomers(rows, list)}

Sole(list) == IF Len(list) = 1 THEN list[1] ELSE None

(* Parents of the document before and after, and the people who join.      *)
DocumentAdmitted(r, c, matters, people) ==
    /\ (DocumentMatters(r) \cup ToSet(matters)) \cap closed = {}
    /\ DocumentMatters(r) = {} => r.client \notin closed
    /\ matters = <<>> \/ c # r.client => c \notin closed
    /\ ToSet(people) \ Members(r, Person) \subseteq active

SaveDocument(f) ==
    /\ Open(f) /\ form[f].kind = "document" /\ form[f].op \in {"create", "update"}
    /\ \E p \in Paper \cap desk, c \in (Client \cap desk) \cup {None},
          matters \in Selections(Matter \cap desk), people \in Selections(Person \cap desk) :
          /\ Editable(f, p)
          /\ DocumentAdmitted(paper[p], c, matters, people)
          /\ Save(f, p, <<c, matters, people>>,
                  [paper[p] EXCEPT !.client = c, !.matter = Sole(matters), !.person = Sole(people),
                     !.rows = Assigned(Assigned(@, Matter, matters), Person, people)])

(* Lawyers keep their rows and places; new ones follow behind everybody    *)
(* who was ever listed.                                                    *)
Enrolled(rows, list, last) ==
    LET new == Newcomers(rows, list)
    IN  {[x EXCEPT !.retired = ~Contains(list, x.of)] : x \in rows} \cup
        {Entry(list[i], last + Cardinality({j \in new : j <= i})) : i \in new}

SavePOA(f) ==
    /\ Open(f) /\ form[f].kind = "poa" /\ form[f].op \in {"create", "update"}
    /\ \E p \in Paper \cap desk : \E c \in (Client \cap desk) \cup {None},
          lawyers \in Selections(Person \cap desk), last \in LastPlace(paper[p].rows) :
          /\ Editable(f, p)
          /\ {paper[p].client, c} \cap closed = {}
          /\ ToSet(lawyers) \ Members(paper[p], Person) \subseteq active
          /\ Save(f, p, <<c, lawyers>>,
                  [paper[p] EXCEPT !.client = c, !.rows = Enrolled(@, lawyers, last)])

SaveLetter(f) ==
    /\ Open(f) /\ form[f].kind = "letter" /\ form[f].op \in {"create", "update"}
    /\ \E p \in Paper \cap desk, c \in (Client \cap desk) \cup {None} :
          /\ Editable(f, p)
          /\ {paper[p].client, c} \cap closed = {}
          /\ form[f].op = "create" => c # None
          /\ Save(f, p, <<c>>, [paper[p] EXCEPT !.client = c])

(* covered-add: a matter that was retired before gets a second row.        *)
Cover(f) ==
    /\ Open(f) /\ form[f].op = "cover"
    /\ \E p \in Paper \cap desk, m \in (Matter \cap desk) \ closed :
       \E last \in LastPlace(paper[p].rows) :
          /\ Editable(f, p) /\ paper[p].client \notin closed
          /\ m \notin Members(paper[p], Matter)
          /\ Save(f, p, <<m>>,
                  [paper[p] EXCEPT !.rows = @ \cup {Entry(m, last + 1)}])

(* The row x of a letter retires or comes back, where it was.              *)
Retirement(rows, x, retired) == (rows \ {x}) \cup {[x EXCEPT !.retired = retired]}

Uncover(f) ==
    /\ Open(f) /\ form[f].op = "uncover"
    /\ \E p \in Paper \cap desk : \E x \in paper[p].rows :
          /\ Editable(f, p) /\ {paper[p].client, x.of} \cap closed = {}
          /\ ~x.retired
          /\ Save(f, p, <<x.of, x.place>>, [paper[p] EXCEPT !.rows = Retirement(@, x, TRUE)])

(* A mutant: any retired row comes back.                                   *)
AnyRetired(r, x) == x.retired

Restorable(r, x) == x.retired /\ x.of \notin Members(r, Matter)

Recover(f) ==
    /\ Open(f) /\ form[f].op = "recover"
    /\ \E p \in Paper \cap desk : \E x \in paper[p].rows :
          /\ Editable(f, p) /\ {paper[p].client, x.of} \cap closed = {}
          /\ Restorable(paper[p], x)
          /\ Save(f, p, <<x.of, x.place>>, [paper[p] EXCEPT !.rows = Retirement(@, x, FALSE)])

(* Letters of a matter: the one it refers to retires, the new one gets its *)
(* row back or a row.                                                      *)
Referred(rows, letter) ==
    LET kept == {[x EXCEPT !.retired = x.of # letter] : x \in rows}
    IN  IF letter = None \/ \E x \in rows : x.of = letter THEN kept
        ELSE kept \cup {Entry(letter, 0)}

(* set, clear and replace, after the letter that was displayed.            *)
Refer(f) ==
    /\ Open(f) /\ form[f].op = "refer"
    /\ \E p \in Paper \cap desk, new \in {q \in Paper \cap desk : KindOf[q] = "letter" /\ Exists(q)} \cup {None} :
          LET old == Members(form[f].shown, Paper)
              letters == old \cup ({new} \ {None})
          IN  /\ Editable(f, p) /\ MatterOf[p] \notin closed
              /\ old # {new} \ {None} /\ Members(paper[p], Paper) = old
              /\ \A q \in letters : ~paper[q].archived /\ paper[q].client \notin closed
              /\ Save(f, p, <<new>>, [paper[p] EXCEPT !.rows = Referred(@, new)])

(* Archiving and restoring are confirmed on the facts that were displayed. *)
ArchiveOrRestore(f) ==
    /\ Open(f) /\ form[f].op \in Lifecycle
    /\ \E p \in Paper \cap desk :
          /\ Target(f, p) /\ Fresh(f, p) /\ form[f].facts = Facts(p)
          /\ Parents(p, paper[p]) \cap closed = {}
          /\ Save(f, p, <<>>, [paper[p] EXCEPT !.archived = (form[f].op = "archive")])

(* The same request again: the receipt answers.                            *)
Acknowledge(f) ==
    /\ Open(f) /\ Receipted(f)
    /\ form' = [form EXCEPT ![f] = Left]
    /\ UNCHANGED <<paper, closed, active, desk, receipt>>

(* A form is left, or stays open with a refusal that changes nothing.      *)
Leave(f) ==
    /\ Open(f)
    /\ form' = [form EXCEPT ![f] = Left]
    /\ UNCHANGED <<paper, closed, active, desk, receipt>>

(* Matters and clients are archived and restored, people deactivated and   *)
(* reactivated, on pages of their own.                                     *)
Elsewhere ==
    /\ \/ \E x \in desk \cap (Matter \cup Client) :
             closed' \in {closed \cup {x}, closed \ {x}} /\ UNCHANGED active
       \/ \E x \in desk \cap Person :
             active' \in {active \cup {x}, active \ {x}} /\ UNCHANGED closed
    /\ UNCHANGED <<paper, desk, form, receipt>>

Next ==
    \/ \E f \in Form :
          \/ OpenForm(f) \/ OpenNewForm(f) \/ SaveDocument(f) \/ SavePOA(f) \/ SaveLetter(f)
          \/ Cover(f) \/ Uncover(f) \/ Recover(f) \/ Refer(f) \/ ArchiveOrRestore(f)
          \/ Acknowledge(f) \/ Leave(f)
    \/ Elsewhere

Spec == Init /\ [][Next]_vars
-----------------------------------------------------------------------------
(* No matter is covered twice by a letter and no matter refers to two      *)
(* letters at once, although covering again makes a second row that is     *)
(* restored on a page of its own, and references are replaced from pages   *)
(* that show an older one.                                                 *)
OneCurrentRowEach ==
    \A p \in Paper :
       /\ \A x, y \in Current(paper[p], Matter \cup Person) : x.of = y.of => x = y
       /\ \A x, y \in Current(paper[p], Paper) : x = y

(* The places of the current members are distinct, of documents whose list *)
(* is ordered anew by every save as well as of powers and letters whose    *)
(* former members come back to the places they had.                        *)
PlacesAreDistinct == \A p \in Paper : PlacedApart(paper[p])

(* The older columns of a document agree with its lists.                   *)
ScalarAgrees == \A p \in Paper : KindOf[p] = "document" => Agreeing(paper[p])

(* The lists of a document, power, letter or matter are sound whatever     *)
(* forms were saved on it, in whatever order they were opened and sent.    *)
ListsSound == TypeOK /\ OneCurrentRowEach /\ PlacesAreDistinct /\ ScalarAgrees

(* A submission takes effect once, however often it is sent.               *)
OneEffectPerForm == \A d, e \in receipt : d.form = e.form => d = e

(* Whatever a form changes is still as it displayed it.                    *)
NoLostUpdate ==
    [][\A e \in receipt' \ receipt :
          form[e.form].op # "create" => paper[e.paper] = form[e.form].shown]_vars

(* Whoever archives or restores a letter was shown as many matters that    *)
(* refer to it as there are, although referring does not change the letter *)
(* or its version.                                                         *)
ConfirmationHolds ==
    [][\A e \in receipt' \ receipt :
          form[e.form].op \in Lifecycle =>
             form[e.form].facts.referring =
                Cardinality({r \in Paper : \E x \in paper[r].rows :
                                x.of = e.paper /\ ~x.retired})]_vars

(* What is below an archived record rests: documents of an archived matter *)
(* or, without a matter, of an archived client; powers and letters of an   *)
(* archived client; the covered rows of an archived matter; and references *)
(* from an archived matter, to an archived letter or to one of an archived *)
(* client.                                                                 *)
Resting(p) ==
    LET r == paper[p]
        matters == {x.of : x \in {y \in r.rows : ~y.retired}} \cap Matter
        letters == {x.of : x \in {y \in r.rows : ~y.retired}} \cap Paper
    IN  CASE KindOf[p] = "document" ->
               matters \cap closed # {} \/ (matters = {} /\ r.client \in closed)
          [] KindOf[p] = "reference" ->
               MatterOf[p] \in closed \/ \E q \in letters : paper[q].archived \/ paper[q].client \in closed
          [] OTHER -> r.client \in closed

PapersRest ==
    [][\A p \in Paper :
          /\ Resting(p) => paper'[p] = paper[p]
          /\ KindOf[p] = "letter" =>
               {x \in paper'[p].rows : x.of \in closed} = {x \in paper[p].rows : x.of \in closed}]_vars
=============================================================================
