--------------------------- MODULE CaseFileProofs ---------------------------
(***************************************************************************)
(* Theorems about CaseFile, for any number of records, forms and people.   *)
(* The invariant behind them is PageOK: a page whose version is still the  *)
(* stored one displays the stored text, and a page whose version is not    *)
(* can no longer be saved.  The receipts need ReceiptsOK as well: a form   *)
(* that left one keeps the kind of its request while it is open, so its    *)
(* gateway goes on finding that receipt; and the versions a root has had   *)
(* are exactly those its receipts name.                                    *)
(***************************************************************************)
EXTENDS CaseFile, FiniteSetTheorems, TLAPS

(* Every record below another that is there, of the right kind.            *)
TreeOK(rows) ==
    \A r \in Record :
       rows[r].there => /\ rows[r].parent \in ParentsOf(r)
                        /\ \A a \in Above(rows, r) : rows[a].there

(* Records are never deleted, nor moved to another parent.                 *)
Keeps(rows, next) ==
    \A x \in Record : rows[x].there => next[x].there /\ next[x].parent = rows[x].parent

(* The root of a stored record.                                            *)
RootIn(rows, x) == IF x \in Step THEN rows[x].parent ELSE x

(* What the pages guarantee about a request that is still to be sent.      *)
PageOK(o, rows, vers) ==
    LET q == o.request
    IN  /\ q.op = "create" =>
              /\ \A r \in Identities(q.kind) : q.parent \in ParentsOf(r)
              /\ \A a \in Lineage(rows, q.parent) : rows[a].there
        /\ q.op # "create" =>
              /\ q.record \in Identities(q.kind) /\ rows[q.record].there
              /\ rows[q.record].parent = q.parent
              /\ q.version <= vers[RootOf(q)]
              /\ q.version = vers[RootOf(q)] => rows[q.record].text = o.seen.self.text

Inv ==
    /\ TypeOK
    /\ TreeOK(row)
    /\ \A f \in Form : Pending(f) => PageOK(form[f], row, version)

-----------------------------------------------------------------------------
(* The records of one kind may belong to the same records.                 *)
LEMMA KindLemma ==
    ASSUME NEW k \in Kinds
    PROVE  /\ Identities(k) \subseteq Record
           /\ \A r \in Identities(k) : (k = "step") <=> (r \in Step)
           /\ \A r, x \in Identities(k) : ParentsOf(r) = ParentsOf(x)
  BY KindsAssumption DEF Kinds, Identities, Record, ParentsOf

(* What belongs to a record, and where its version is kept.                *)
LEMMA ParentLemma ==
    ASSUME NEW r \in Record
    PROVE  /\ ParentsOf(r) \subseteq Record \cup {None}
           /\ r \in Step => ParentsOf(r) \subseteq Root
           /\ r \notin Step => r \in Root
  BY KindsAssumption DEF Record, ParentsOf, Root

(* The lineage of a stored record does not change.                         *)
LEMMA LineageKept ==
    ASSUME NEW rows \in [Record -> Row], NEW next \in [Record -> Row],
           NEW p \in Record \cup {None}, Keeps(rows, next),
           p # None => rows[p].there
    PROVE  Lineage(next, p) = Lineage(rows, p)
  BY KindsAssumption DEF Lineage, Keeps

LEMMA LineageType ==
    ASSUME NEW rows \in [Record -> Row], NEW p \in Record \cup {None}
    PROVE  Lineage(rows, p) \subseteq Record /\ (p # None => p \in Lineage(rows, p))
  BY KindsAssumption DEF Lineage, Row

(* A record added below a lineage that is there leaves the tree in order.  *)
LEMMA TreeKept ==
    ASSUME NEW rows \in [Record -> Row], NEW next \in [Record -> Row],
           TreeOK(rows), Keeps(rows, next),
           \A x \in Record : next[x].there /\ ~rows[x].there =>
              /\ next[x].parent \in ParentsOf(x)
              /\ \A a \in Lineage(rows, next[x].parent) : rows[a].there
    PROVE  TreeOK(next)
<1>1. SUFFICES ASSUME NEW x \in Record, next[x].there
               PROVE  /\ next[x].parent \in ParentsOf(x)
                      /\ \A a \in Above(next, x) : next[a].there
  BY DEF TreeOK
<1>2. next[x].parent \in ParentsOf(x) /\ \A a \in Lineage(rows, next[x].parent) : rows[a].there
  BY <1>1 DEF TreeOK, Keeps, Above
<1>3. next[x].parent \in Record \cup {None}
  BY <1>2, ParentLemma
<1>4. Lineage(next, next[x].parent) = Lineage(rows, next[x].parent)
  BY <1>2, <1>3, LineageKept, LineageType
<1>5. Lineage(rows, next[x].parent) \subseteq Record
  BY <1>3, LineageType
<1>6. QED
  BY <1>2, <1>4, <1>5 DEF Above, Keeps

(* A page survives any step that keeps the records, raises versions and    *)
(* leaves the text of a record alone whose root keeps its version.         *)
LEMMA PageKept ==
    ASSUME NEW rows \in [Record -> Row], NEW next \in [Record -> Row],
           NEW vers \in [Root -> Nat], NEW later \in [Root -> Nat], NEW o,
           o.request \in RequestType, PageOK(o, rows, vers),
           TreeOK(rows), Keeps(rows, next),
           \A r \in Root : vers[r] <= later[r],
           \A x \in Record : rows[x].there /\ later[RootIn(rows, x)] = vers[RootIn(rows, x)] =>
              next[x].text = rows[x].text
    PROVE  PageOK(o, next, later)
<1> DEFINE q == o.request
<1>1. /\ q.kind \in Kinds /\ q.op \in {"create", "edit", "archive", "restore"}
      /\ q.parent \in Record \cup {None} /\ q.record \in Record \cup {None} /\ q.version \in Nat
  BY DEF RequestType, Lifecycle
<1>2. CASE q.op = "create"
  <2>1. Lineage(rows, q.parent) \subseteq Record /\ (q.parent # None => q.parent \in Lineage(rows, q.parent))
    BY <1>1, LineageType
  <2>2. \A a \in Lineage(rows, q.parent) : rows[a].there
    BY <1>2 DEF PageOK
  <2>3. Lineage(next, q.parent) = Lineage(rows, q.parent)
    BY <1>1, <2>1, <2>2, LineageKept
  <2>4. QED
    BY <1>2, <2>1, <2>2, <2>3 DEF PageOK, Keeps
<1>3. CASE q.op # "create"
  <2>1. /\ q.record \in Identities(q.kind) /\ rows[q.record].there
        /\ rows[q.record].parent = q.parent /\ q.version <= vers[RootOf(q)]
        /\ q.version = vers[RootOf(q)] => rows[q.record].text = o.seen.self.text
    BY <1>3 DEF PageOK
  <2>2. q.record \in Record /\ RootOf(q) = RootIn(rows, q.record)
    BY <1>1, <2>1, KindLemma DEF RootOf, RootIn
  <2>3. RootOf(q) \in Root
    BY <2>1, <2>2, ParentLemma DEF TreeOK, RootIn
  <2>4. vers[RootOf(q)] \in Nat /\ later[RootOf(q)] \in Nat /\ vers[RootOf(q)] <= later[RootOf(q)]
    BY <2>3
  <2>5. q.version <= later[RootOf(q)]
    BY <1>1, <2>1, <2>4
  <2>6. q.version = later[RootOf(q)] => next[q.record].text = o.seen.self.text
    <3>1. HAVE q.version = later[RootOf(q)]
    <3>2. q.version = vers[RootOf(q)] /\ later[RootOf(q)] = vers[RootOf(q)]
      BY <1>1, <2>1, <2>4, <3>1
    <3>3. QED
      BY <2>1, <2>2, <3>2
  <2>7. next[q.record].there /\ next[q.record].parent = q.parent
    BY <2>1, <2>2 DEF Keeps
  <2>8. QED
    BY <1>3, <2>1, <2>5, <2>6, <2>7 DEF PageOK
<1>4. QED
  BY <1>2, <1>3

-----------------------------------------------------------------------------
(* The pages of a state, taken apart.                                      *)
PagesOK(pages) ==
    /\ pages = [g \in Form |-> pages[g]]
    /\ \A g \in Form : pages[g] \in {Unused, Spent} \/ OpenPage(pages[g])

LEMMA PendingLemma ==
    ASSUME PagesOK(form), NEW f \in Form
    PROVE  Pending(f) <=> OpenPage(form[f])
  BY DEF PagesOK, Pending, OpenPage, Unused, Spent

(* An answer leaves every page as it was, but for its status.              *)
LEMMA AnswerLemma ==
    ASSUME PagesOK(form), NEW f \in Form, Pending(f),
           NEW after, Answered(f, after),
           after \in {Spent, [form[f] EXCEPT !.status = "typing"]}
    PROVE  /\ PagesOK(form')
           /\ \A g \in Form : Pending(g)' =>
                 /\ Pending(g) /\ OpenPage(form[g])
                 /\ form'[g].request = form[g].request
                 /\ form'[g].seen = form[g].seen
<1>1. OpenPage(form[f])
  BY PendingLemma
<1>2. \A g \in Form : g # f => form'[g] = form[g]
  BY DEF Answered, PagesOK
<1>3. /\ form' = [g \in Form |-> form'[g]]
      /\ form'[f] \in {Spent, [form[f] EXCEPT !.status = "typing"],
                       [form[f] EXCEPT !.status = "uncertain"]}
  BY DEF Answered, PagesOK
<1>4. ASSUME NEW st \in {"typing", "uncertain"}, form'[f] = [form[f] EXCEPT !.status = st]
      PROVE  /\ OpenPage(form'[f])
             /\ form'[f].request = form[f].request /\ form'[f].seen = form[f].seen
  BY <1>1, <1>4 DEF OpenPage
<1>5. form'[f] = Spent \/ (/\ OpenPage(form'[f]) /\ form'[f].request = form[f].request
                           /\ form'[f].seen = form[f].seen)
  BY <1>3, <1>4
<1>6. PagesOK(form')
  BY <1>2, <1>3, <1>5 DEF PagesOK
<1>7. \A g \in Form : Pending(g)' => g = f \/ Pending(g)
  BY <1>2 DEF Pending
<1>8. Pending(f)' => form'[f] # Spent
  BY DEF Pending, Spent
<1>9. QED
  BY <1>1, <1>2, <1>5, <1>6, <1>7, <1>8, PendingLemma

(* A step that only answers a page preserves the invariant.                *)
LEMMA AnswerStep ==
    ASSUME Inv, NEW f \in Form, Pending(f), NEW after, Answered(f, after),
           after \in {Spent, [form[f] EXCEPT !.status = "typing"]},
           UNCHANGED <<row, version, order, receipt>>
    PROVE  Inv'
<1>1. PagesOK(form)
  BY DEF Inv, TypeOK, PagesOK
<1>2. /\ PagesOK(form')
      /\ \A g \in Form : Pending(g)' =>
            /\ Pending(g) /\ form'[g].request = form[g].request /\ form'[g].seen = form[g].seen
  BY <1>1, AnswerLemma
<1>3. TypeOK'
  BY <1>2 DEF Inv, TypeOK, PagesOK
<1>4. ASSUME NEW g \in Form, Pending(g)' PROVE PageOK(form[g], row, version)'
  <2>1. PageOK(form[g], row, version)
    BY <1>2, <1>4 DEF Inv
  <2>2. QED
    BY <1>2, <1>4, <2>1 DEF PageOK, RootOf
<1>5. TreeOK(row)'
  BY DEF Inv, TreeOK, Above, Lineage
<1>6. QED
  BY <1>3, <1>4, <1>5 DEF Inv

(* A save at the record r preserves it.                                    *)
LEMMA CommitStep ==
    ASSUME Inv, NEW f \in Form, NEW a \in Actor, NEW r \in Record,
           Pending(f), Commit(f, a, r),
           row' \in [Record -> Row], order' \in [Step -> Nat],
           TreeOK(row'), Keeps(row, row'),
           \A x \in Record \ {r} : row'[x].text = row[x].text,
           r \in Step => form[f].request.parent \in Work,
           row[r].there => row[r].parent = form[f].request.parent
    PROVE  Inv'
<1> DEFINE q == form[f].request
           root == IF r \in Step THEN q.parent ELSE r
           e == [form |-> f, actor |-> a, request |-> q, root |-> root,
                 version |-> NextVersion(q, r)]
<1>1. PagesOK(form) /\ OpenPage(form[f]) /\ q \in RequestType
  BY PendingLemma DEF Inv, TypeOK, PagesOK, OpenPage
<1>2. root \in Root /\ version \in [Root -> Nat] /\ row \in [Record -> Row] /\ TreeOK(row)
  BY ParentLemma DEF Root, Inv, TypeOK
<1>3. version[root] \in Nat /\ NextVersion(q, r) = version[root] + 1
  BY <1>2 DEF NextVersion
<1>4. /\ version' = [version EXCEPT ![root] = version[root] + 1]
      /\ receipt' = receipt \cup {e}
      /\ Answered(f, Spent)
  BY <1>3 DEF Commit
<1>5. version' \in [Root -> Nat] /\ \A x \in Root : version[x] <= version'[x]
  BY <1>2, <1>3, <1>4
<1>6. /\ PagesOK(form')
      /\ \A g \in Form : Pending(g)' =>
            /\ Pending(g) /\ OpenPage(form[g])
            /\ form'[g].request = form[g].request /\ form'[g].seen = form[g].seen
  BY <1>1, <1>4, AnswerLemma
<1>7. \A d \in receipt' : /\ d.form \in Form /\ d.actor \in Actor /\ d.request \in RequestType
                          /\ d.root \in Root /\ d.version \in Nat
  <2>1. /\ e.form \in Form /\ e.actor \in Actor /\ e.request \in RequestType
        /\ e.root \in Root /\ e.version \in Nat
    BY <1>1, <1>2, <1>3
  <2>2. QED
    BY <1>4, <2>1 DEF Inv, TypeOK
<1>8. TypeOK'
  BY <1>5, <1>6, <1>7 DEF TypeOK, PagesOK
<1>9. ASSUME NEW g \in Form, Pending(g)' PROVE PageOK(form[g], row, version)'
  <2>1. PageOK(form[g], row, version) /\ form[g].request \in RequestType
    BY <1>6, <1>9 DEF Inv, OpenPage
  <2>2. ASSUME NEW x \in Record, row[x].there,
               version'[RootIn(row, x)] = version[RootIn(row, x)]
        PROVE  row'[x].text = row[x].text
    <3>1. CASE x # r
      BY <3>1
    <3>2. CASE x = r
      <4>1. RootIn(row, x) = root
        BY <2>2, <3>2 DEF RootIn
      <4>2. version'[root] = version[root] + 1
        BY <1>2, <1>4
      <4>3. QED
        BY <1>3, <2>2, <4>1, <4>2
    <3>3. QED
      BY <3>1, <3>2
  <2>3. PageOK(form[g], row', version')
    BY <1>2, <1>5, <2>1, <2>2, PageKept
  <2>4. QED
    BY <1>6, <1>9, <2>3 DEF PageOK, RootOf
<1>10. QED
  BY <1>8, <1>9 DEF Inv

-----------------------------------------------------------------------------
(* An order is a number: a work has finitely many steps.                   *)
LEMMA OrderType ==
    ASSUME order \in [Step -> Nat], NEW w
    PROVE  NextOrder(w) \subseteq Nat
<1>1. IsFiniteSet(Step)
  BY KindsAssumption, FS_Subset DEF Record
<1>2. StepsOf(w) \subseteq Step
  BY DEF StepsOf
<1>3. IsFiniteSet(StepsOf(w))
  BY <1>1, <1>2, FS_Subset
<1>4. Cardinality(StepsOf(w)) \in Nat
  BY <1>3, FS_CardinalityType
<1>5. QED
  BY <1>2, <1>4 DEF NextOrder

(* The three saves change one record and keep the others where they are.   *)
LEMMA SaveNewStep ==
    ASSUME Inv, NEW f \in Form, NEW a \in Actor, SaveNew(f, a)
    PROVE  Inv'
<1> DEFINE q == form[f].request
<1>1. /\ PagesOK(form) /\ Pending(f) /\ q.op = "create"
      /\ row \in [Record -> Row] /\ order \in [Step -> Nat] /\ TreeOK(row)
  BY DEF Inv, TypeOK, PagesOK, SaveNew
<1>2. /\ q \in RequestType /\ q.kind \in Kinds /\ q.text \in Text
      /\ q.parent \in Record \cup {None}
  BY <1>1, PendingLemma DEF OpenPage, RequestType
<1>3. PICK r \in Identities(q.kind) :
        /\ ~row[r].there
        /\ row' = [row EXCEPT ![r] = [there |-> TRUE, parent |-> q.parent,
                                      text |-> q.text, archived |-> FALSE]]
        /\ IF r \in Step THEN \E n \in NextOrder(q.parent) : order' = [order EXCEPT ![r] = n]
           ELSE UNCHANGED order
        /\ Commit(f, a, r)
  BY DEF SaveNew
<1>4. r \in Record
  BY <1>2, KindLemma
<1>5. q.parent \in ParentsOf(r) /\ \A x \in Lineage(row, q.parent) : row[x].there
  BY <1>1, <1>3 DEF Inv, PageOK
<1>6. row' \in [Record -> Row] /\ Keeps(row, row')
  BY <1>1, <1>2, <1>3, <1>4 DEF Row, Keeps
<1>7. TreeOK(row')
  <2>1. ASSUME NEW x \in Record, row'[x].there, ~row[x].there
        PROVE  /\ row'[x].parent \in ParentsOf(x)
               /\ \A y \in Lineage(row, row'[x].parent) : row[y].there
    BY <1>1, <1>3, <1>5, <2>1
  <2>2. QED
    BY <1>1, <1>6, <2>1, TreeKept
<1>8. NextOrder(q.parent) \subseteq Nat
  BY <1>1, OrderType
<1>9. order' \in [Step -> Nat]
  BY <1>1, <1>3, <1>8
<1>10. r \in Step => q.parent \in Work
  BY <1>5, KindsAssumption DEF ParentsOf
<1>11. \A x \in Record \ {r} : row'[x].text = row[x].text
  BY <1>1, <1>3
<1>12. QED
  BY <1>1, <1>3, <1>4, <1>6, <1>7, <1>9, <1>10, <1>11, CommitStep

(* What a request for a stored record says about it.                       *)
LEMMA RecordFacts ==
    ASSUME Inv, NEW f \in Form, Pending(f), form[f].request.op # "create"
    PROVE  LET q == form[f].request
           IN  /\ OpenPage(form[f]) /\ q \in RequestType
               /\ q.record \in Record /\ row[q.record].there
               /\ row[q.record].parent = q.parent
               /\ (q.kind = "step") <=> (q.record \in Step)
               /\ q.record \in Step => q.parent \in Work
               /\ RootOf(q) \in Root
<1> DEFINE q == form[f].request
<1>1. OpenPage(form[f]) /\ PageOK(form[f], row, version)
  BY PendingLemma DEF Inv, TypeOK, PagesOK
<1>2. q \in RequestType /\ q.kind \in Kinds
  BY <1>1 DEF OpenPage, RequestType
<1>3. /\ q.record \in Record /\ row[q.record].there /\ row[q.record].parent = q.parent
      /\ (q.kind = "step") <=> (q.record \in Step)
  BY <1>1, <1>2, KindLemma DEF PageOK
<1>4. q.record \in Step => q.parent \in Work
  BY <1>3, KindsAssumption DEF Inv, TreeOK, ParentsOf
<1>5. RootOf(q) \in Root
  BY <1>3, <1>4, ParentLemma DEF RootOf, Root
<1>6. QED
  BY <1>1, <1>2, <1>3, <1>4, <1>5

LEMMA SaveEditStep ==
    ASSUME Inv, NEW f \in Form, NEW a \in Actor, SaveEdit(f, a)
    PROVE  Inv'
<1> DEFINE q == form[f].request
<1>1. /\ Pending(f) /\ q.op = "edit" /\ Commit(f, a, q.record)
      /\ row' = [row EXCEPT ![q.record].text = q.text] /\ order' = order
  BY DEF SaveEdit
<1>2. /\ q \in RequestType /\ q.record \in Record /\ row[q.record].there
      /\ row[q.record].parent = q.parent /\ (q.record \in Step => q.parent \in Work)
  BY <1>1, RecordFacts
<1>3. q.text \in Text /\ row \in [Record -> Row] /\ order' \in [Step -> Nat] /\ TreeOK(row)
  BY <1>1, <1>2 DEF RequestType, Inv, TypeOK
<1>4. /\ row' \in [Record -> Row] /\ Keeps(row, row')
      /\ \A x \in Record : row'[x].there => row[x].there
      /\ \A x \in Record \ {q.record} : row'[x].text = row[x].text
  BY <1>1, <1>2, <1>3 DEF Row, Keeps
<1>5. TreeOK(row')
  BY <1>3, <1>4, TreeKept
<1>6. QED
  BY <1>1, <1>2, <1>3, <1>4, <1>5, CommitStep

LEMMA SaveLifecycleStep ==
    ASSUME Inv, NEW f \in Form, NEW a \in Actor, SaveLifecycle(f, a)
    PROVE  Inv'
<1> DEFINE q == form[f].request
           archiving == q.op = "archive"
<1>1. /\ Pending(f) /\ q.op # "create" /\ Commit(f, a, q.record)
      /\ row' = [row EXCEPT ![q.record].archived = archiving] /\ order' = order
  BY DEF SaveLifecycle, Lifecycle
<1>2. /\ q.record \in Record /\ row[q.record].there
      /\ row[q.record].parent = q.parent /\ (q.record \in Step => q.parent \in Work)
  BY <1>1, RecordFacts
<1>3. /\ row \in [Record -> Row] /\ order' \in [Step -> Nat] /\ TreeOK(row)
      /\ archiving \in BOOLEAN
  BY <1>1 DEF Inv, TypeOK
<1>4. /\ row' \in [Record -> Row] /\ Keeps(row, row')
      /\ \A x \in Record : row'[x].there => row[x].there
      /\ \A x \in Record \ {q.record} : row'[x].text = row[x].text
  BY <1>1, <1>2, <1>3 DEF Row, Keeps
<1>5. TreeOK(row')
  BY <1>3, <1>4, TreeKept
<1>6. QED
  BY <1>1, <1>2, <1>3, <1>4, <1>5, CommitStep

-----------------------------------------------------------------------------
(* Steps of the pages: the tables stay as they are and one page is         *)
(* replaced by one that satisfies PageOK.                                  *)
LEMMA PageStep ==
    ASSUME Inv, NEW f \in Form, NEW o, OpenPage(o), PageOK(o, row, version),
           form' = [form EXCEPT ![f] = o], UNCHANGED <<row, version, order, receipt>>
    PROVE  Inv'
<1>1. PagesOK(form)
  BY DEF Inv, TypeOK, PagesOK
<1>2. form'[f] = o /\ \A g \in Form : g # f => form'[g] = form[g]
  BY <1>1 DEF PagesOK
<1>3. PagesOK(form')
  BY <1>1, <1>2 DEF PagesOK
<1>4. TypeOK'
  BY <1>3 DEF Inv, TypeOK, PagesOK
<1>5. ASSUME NEW g \in Form, Pending(g)' PROVE PageOK(form[g], row, version)'
  <2>1. PageOK(form'[g], row, version)
    BY <1>2, <1>5 DEF Inv, Pending
  <2>2. QED
    BY <2>1 DEF PageOK, RootOf
<1>6. TreeOK(row)'
  BY DEF Inv, TreeOK, Above, Lineage
<1>7. QED
  BY <1>4, <1>5, <1>6 DEF Inv

LEMMA OpenNewStep ==
    ASSUME Inv, NEW f \in Form, OpenNew(f)
    PROVE  Inv'
<1>1. PICK k \in Kinds, p \in Record \cup {None}, t \in Text :
        /\ \E r \in Identities(k) : ~row[r].there /\ p \in ParentsOf(r)
        /\ \A a \in Lineage(row, p) : row[a].there /\ ~row[a].archived
        /\ Displayed(f, [op |-> "create", kind |-> k, record |-> None, parent |-> p,
                         version |-> IF k = "step" THEN version[p] ELSE 0, text |-> t])
        /\ UNCHANGED <<row, version, order, receipt>>
  BY DEF OpenNew
<1> DEFINE q == [op |-> "create", kind |-> k, record |-> None, parent |-> p,
                 version |-> IF k = "step" THEN version[p] ELSE 0, text |-> t]
           o == [status |-> "typing", request |-> q,
                 facts  |-> IF q.op \in Lifecycle THEN Facts(q.record) ELSE None,
                 seen   |-> IF q.op = "create" THEN None ELSE Shown(q.record)]
<1>2. \A r \in Identities(k) : p \in ParentsOf(r)
  BY <1>1, KindLemma
<1>3. k = "step" => p \in Root
  <2>1. SUFFICES ASSUME k = "step" PROVE p \in Root
    OBVIOUS
  <2>2. PICK r \in Identities(k) : p \in ParentsOf(r)
    BY <1>1
  <2>3. r \in Record /\ r \in Step
    BY <2>1, <2>2, KindLemma
  <2>4. QED
    BY <2>2, <2>3, ParentLemma
<1>4. q.version \in Nat
  BY <1>3 DEF Inv, TypeOK
<1>5. q \in RequestType
  BY <1>4 DEF RequestType
<1>6. OpenPage(o)
  BY <1>5 DEF OpenPage
<1>7. PageOK(o, row, version)
  BY <1>1, <1>2 DEF PageOK
<1>8. form' = [form EXCEPT ![f] = o]
  BY <1>1 DEF Displayed
<1>9. QED
  BY <1>1, <1>6, <1>7, <1>8, PageStep

(* A page that displays a stored record as it is.                          *)
LEMMA DisplayedStep ==
    ASSUME Inv, NEW f \in Form, NEW k \in Kinds, NEW r \in Identities(k),
           row[r].there, NEW op \in {"edit"} \cup Lifecycle, NEW t \in Text,
           Displayed(f, [op |-> op, kind |-> k, record |-> r, parent |-> row[r].parent,
                         version |-> version[WorkOf(r)], text |-> t]),
           UNCHANGED <<row, version, order, receipt>>
    PROVE  Inv'
<1> DEFINE q == [op |-> op, kind |-> k, record |-> r, parent |-> row[r].parent,
                 version |-> version[WorkOf(r)], text |-> t]
           o == [status |-> "typing", request |-> q,
                 facts  |-> IF q.op \in Lifecycle THEN Facts(q.record) ELSE None,
                 seen   |-> IF q.op = "create" THEN None ELSE Shown(q.record)]
<1>1. r \in Record /\ ((k = "step") <=> (r \in Step))
  BY KindLemma
<1>2. WorkOf(r) \in Root /\ row[r].parent \in Record \cup {None}
  BY <1>1, ParentLemma DEF Inv, TreeOK, WorkOf
<1>3. version[WorkOf(r)] \in Nat
  BY <1>2 DEF Inv, TypeOK
<1>4. q \in RequestType
  BY <1>1, <1>2, <1>3 DEF RequestType
<1>5. OpenPage(o)
  BY <1>4 DEF OpenPage
<1>6. RootOf(q) = WorkOf(r)
  BY <1>1 DEF RootOf, WorkOf
<1>7. o.seen.self.text = row[r].text
  BY DEF Shown, Lifecycle
<1>8. PageOK(o, row, version)
  BY <1>3, <1>6, <1>7 DEF PageOK, Lifecycle
<1>9. form' = [form EXCEPT ![f] = o]
  BY DEF Displayed
<1>10. QED
  BY <1>5, <1>8, <1>9, PageStep

LEMMA RetypeStep ==
    ASSUME Inv, NEW f \in Form, Retype(f)
    PROVE  Inv'
<1>1. PICK t \in Text :
        /\ form[f].status = "typing"
        /\ form' = [form EXCEPT ![f].request.text = t]
        /\ UNCHANGED <<row, version, order, receipt>>
  BY DEF Retype
<1> DEFINE o == [form[f] EXCEPT !.request.text = t]
<1>2. Pending(f) /\ OpenPage(form[f]) /\ PageOK(form[f], row, version)
  BY <1>1, PendingLemma DEF Pending, Inv, TypeOK, PagesOK
<1>3. /\ o.request \in RequestType /\ o.status = form[f].status /\ o.seen = form[f].seen
      /\ o.facts = form[f].facts
      /\ o.request.op = form[f].request.op /\ o.request.kind = form[f].request.kind
      /\ o.request.record = form[f].request.record
      /\ o.request.parent = form[f].request.parent
      /\ o.request.version = form[f].request.version
  BY <1>2 DEF OpenPage, RequestType
<1>4. o = [status |-> o.status, request |-> o.request, facts |-> o.facts, seen |-> o.seen]
  BY <1>2 DEF OpenPage
<1>5. OpenPage(o)
  BY <1>2, <1>3, <1>4 DEF OpenPage
<1>6. PageOK(o, row, version)
  BY <1>2, <1>3 DEF PageOK, RootOf
<1>7. form' = [form EXCEPT ![f] = o]
  BY <1>1
<1>8. QED
  BY <1>1, <1>5, <1>6, <1>7, PageStep

-----------------------------------------------------------------------------
LEMMA InitInv ==
    ASSUME Init
    PROVE  Inv
<1>1. row \in [Record -> Row] /\ TreeOK(row)
  BY ImportedAssumption DEF Init, TreeOK
<1>2. version \in [Root -> Nat]
  BY DEF Init
<1>3. TypeOK
  BY <1>1, <1>2 DEF Init, TypeOK
<1>4. \A f \in Form : ~Pending(f)
  BY DEF Init, Pending, Unused
<1>5. QED
  BY <1>1, <1>3, <1>4 DEF Inv

LEMMA NextInv ==
    ASSUME Inv, [Next]_vars
    PROVE  Inv'
<1>1. CASE UNCHANGED vars
  BY <1>1 DEF vars, Inv, TypeOK, TreeOK, Above, Lineage, PageOK, RootOf, Pending
<1>2. ASSUME NEW f \in Form, OpenNew(f) PROVE Inv'
  BY <1>2, OpenNewStep
<1>3. ASSUME NEW f \in Form, OpenEdit(f) PROVE Inv'
  <2>1. PICK k \in Kinds : \E r \in Identities(k), t \in Text :
          /\ row[r].there
          /\ Displayed(f, [op |-> "edit", kind |-> k, record |-> r, parent |-> row[r].parent,
                           version |-> version[WorkOf(r)], text |-> t])
          /\ UNCHANGED <<row, version, order, receipt>>
    BY <1>3 DEF OpenEdit
  <2>2. QED
    BY <2>1, DisplayedStep
<1>4. ASSUME NEW f \in Form, OpenLifecycle(f) PROVE Inv'
  <2>1. PICK k \in Kinds, o \in Lifecycle : \E r \in Identities(k) :
          /\ row[r].there
          /\ Displayed(f, [op |-> o, kind |-> k, record |-> r, parent |-> row[r].parent,
                           version |-> version[WorkOf(r)], text |-> row[r].text])
          /\ UNCHANGED <<row, version, order, receipt>>
    BY <1>4 DEF OpenLifecycle
  <2>2. \A r \in Identities(k) : row[r].text \in Text
    BY KindLemma DEF Inv, TypeOK, Row
  <2>3. QED
    BY <2>1, <2>2, DisplayedStep
<1>5. ASSUME NEW f \in Form, Retype(f) PROVE Inv'
  BY <1>5, RetypeStep
<1>6. ASSUME NEW f \in Form, Fail(f) PROVE Inv'
  BY <1>6, AnswerStep DEF Fail, Answered
<1>7. ASSUME NEW f \in Form, NEW a \in Actor, SaveNew(f, a) PROVE Inv'
  BY <1>7, SaveNewStep
<1>8. ASSUME NEW f \in Form, NEW a \in Actor, SaveEdit(f, a) PROVE Inv'
  BY <1>8, SaveEditStep
<1>9. ASSUME NEW f \in Form, NEW a \in Actor, SaveLifecycle(f, a) PROVE Inv'
  BY <1>9, SaveLifecycleStep
<1>10. ASSUME NEW f \in Form, NEW a \in Actor, Acknowledge(f, a) PROVE Inv'
  BY <1>10, AnswerStep DEF Acknowledge
<1>11. ASSUME NEW f \in Form, NEW a \in Actor, Refuse(f, a) PROVE Inv'
  BY <1>11, AnswerStep DEF Refuse
<1>12. QED
  BY <1>1, <1>2, <1>3, <1>4, <1>5, <1>6, <1>7, <1>8, <1>9, <1>10, <1>11 DEF Next

(* Every reachable state is well typed: TypeOK, for all constants.         *)
THEOREM CaseFileTypeCorrect == Spec => []TypeOK
<1>1. Inv => TypeOK
  BY DEF Inv
<1>2. Spec => []Inv
  BY InitInv, NextInv, PTL DEF Spec
<1>3. QED
  BY <1>1, <1>2, PTL

-----------------------------------------------------------------------------
(* A new receipt comes from one of the three saves, and says which.        *)
LEMMA SavedLemma ==
    ASSUME [Next]_vars, NEW f \in Form, NEW e \in Saved(f)
    PROVE  \E a \in Actor :
              /\ SaveNew(f, a) \/ SaveEdit(f, a) \/ SaveLifecycle(f, a)
              /\ e.actor = a /\ e.request = form[f].request
<1>1. e \in receipt' /\ e \notin receipt /\ e.form = f
  BY DEF Saved
<1>2. ASSUME NEW g \in Form,
             OpenNew(g) \/ OpenEdit(g) \/ OpenLifecycle(g) \/ Retype(g) \/ Fail(g)
      PROVE  FALSE
  BY <1>1, <1>2 DEF OpenNew, OpenEdit, OpenLifecycle, Retype, Fail
<1>3. ASSUME NEW g \in Form, NEW a \in Actor, Acknowledge(g, a) \/ Refuse(g, a)
      PROVE  FALSE
  BY <1>1, <1>3 DEF Acknowledge, Refuse
<1>4. ASSUME NEW g \in Form, NEW a \in Actor, NEW r, Commit(g, a, r)
      PROVE  g = f /\ e.actor = a /\ e.request = form[f].request
  BY <1>1, <1>4 DEF Commit
<1>5. ASSUME NEW g \in Form, NEW a \in Actor,
             SaveNew(g, a) \/ SaveEdit(g, a) \/ SaveLifecycle(g, a)
      PROVE  g = f /\ e.actor = a /\ e.request = form[f].request
  BY <1>4, <1>5 DEF SaveNew, SaveEdit, SaveLifecycle
<1>6. ~UNCHANGED vars
  BY <1>1 DEF vars
<1>7. QED
  BY <1>2, <1>3, <1>5, <1>6 DEF Next

(* No edit replaces a text its form did not display: NoLostUpdate.         *)
THEOREM CaseFileLosesNoUpdate == Spec => NoLostUpdate
<1>1. ASSUME Inv, [Next]_vars, NEW f \in Form, NEW e \in Saved(f), e.request.op = "edit"
      PROVE  row[e.request.record].text = form[f].seen.self.text
  <2>1. PICK a \in Actor : /\ SaveNew(f, a) \/ SaveEdit(f, a) \/ SaveLifecycle(f, a)
                           /\ e.request = form[f].request
    BY <1>1, SavedLemma
  <2>2. SaveEdit(f, a)
    BY <1>1, <2>1 DEF SaveNew, SaveLifecycle, Lifecycle
  <2>3. Pending(f) /\ Fresh(form[f].request)
    BY <2>2 DEF SaveEdit, Saves, Accepted
  <2>4. RootOf(form[f].request) \in Root /\ PageOK(form[f], row, version)
    BY <1>1, <2>1, <2>3, RecordFacts DEF Inv
  <2>5. RootOf(form[f].request) # None
    BY <2>4, KindsAssumption DEF Root, Record
  <2>6. QED
    BY <1>1, <2>1, <2>3, <2>4, <2>5 DEF Fresh, PageOK
<1>2. Spec => []Inv
  BY InitInv, NextInv, PTL DEF Spec
<1>3. Inv /\ [Next]_vars =>
        [\A f \in Form : \A e \in Saved(f) : e.request.op = "edit" =>
            row[e.request.record].text = form[f].seen.self.text]_vars
  BY <1>1
<1>4. QED
  BY <1>2, <1>3, PTL DEF Spec, NoLostUpdate

-----------------------------------------------------------------------------
(* A new step follows all the steps of its work; the others stay.          *)
LEMMA OrdersStep ==
    ASSUME Inv, StepOrdersAreDistinct, [Next]_vars
    PROVE  StepOrdersAreDistinct'
<1> DEFINE Same == \A s \in Step : /\ row'[s].there <=> row[s].there
                                   /\ row'[s].parent = row[s].parent
                                   /\ order'[s] = order[s]
<1>1. row \in [Record -> Row] /\ order \in [Step -> Nat] /\ Step \subseteq Record
  BY DEF Inv, TypeOK, Record
<1>2. Same => StepOrdersAreDistinct'
  BY DEF StepOrdersAreDistinct
<1>3. ASSUME NEW f \in Form, NEW a \in Actor, SaveNew(f, a)
      PROVE  StepOrdersAreDistinct'
  <2> DEFINE q == form[f].request
  <2>1. PICK r \in Identities(q.kind) :
          /\ ~row[r].there
          /\ row' = [row EXCEPT ![r] = [there |-> TRUE, parent |-> q.parent,
                                        text |-> q.text, archived |-> FALSE]]
          /\ IF r \in Step THEN \E n \in NextOrder(q.parent) : order' = [order EXCEPT ![r] = n]
             ELSE UNCHANGED order
    BY <1>3 DEF SaveNew
  <2>2. \A s \in Step \ {r} : row'[s] = row[s]
    BY <1>1, <2>1
  <2>3. CASE r \notin Step
    BY <1>2, <2>1, <2>2, <2>3
  <2>4. CASE r \in Step
    <3>1. PICK n \in NextOrder(q.parent) : order' = [order EXCEPT ![r] = n]
      BY <2>1, <2>4
    <3>2. \A s \in StepsOf(q.parent) : order[s] + 1 <= n
      <4>1. PICK u \in {order[s] : s \in StepsOf(q.parent)} \cup {Cardinality(StepsOf(q.parent))} :
              /\ n = u + 1
              /\ \A s \in StepsOf(q.parent) : order[s] <= u
        BY <3>1 DEF NextOrder
      <4>2. n \in Nat
        BY <1>1, <3>1, OrderType
      <4>3. IsFiniteSet(StepsOf(q.parent))
        BY KindsAssumption, FS_Subset DEF StepsOf, Record
      <4>4. u \in Nat
        BY <1>1, <4>1, <4>3, FS_CardinalityType DEF StepsOf
      <4>5. \A s \in StepsOf(q.parent) : order[s] \in Nat
        BY <1>1 DEF StepsOf
      <4>6. QED
        BY <4>1, <4>4, <4>5
    <3>3. /\ row'[r].parent = q.parent /\ order'[r] = n
          /\ \A s \in Step \ {r} : order'[s] = order[s]
      BY <1>1, <2>1, <2>4, <3>1
    <3>4. ASSUME NEW s \in Step \ {r}, row'[s].there, row'[s].parent = q.parent
          PROVE  order'[s] # n
      <4>1. s \in StepsOf(q.parent)
        BY <2>2, <3>4 DEF StepsOf
      <4>2. n \in Nat /\ order[s] \in Nat
        BY <1>1, <3>1, OrderType
      <4>3. QED
        BY <3>2, <3>3, <4>1, <4>2
    <3>5. SUFFICES ASSUME NEW s \in Step, NEW u \in Step, row'[s].there, row'[u].there,
                          row'[s].parent = row'[u].parent, order'[s] # 0, s # u
                   PROVE  order'[s] # order'[u]
      BY DEF StepOrdersAreDistinct
    <3>6. CASE s # r /\ u # r
      BY <2>2, <3>3, <3>5, <3>6 DEF StepOrdersAreDistinct
    <3>7. CASE s = r \/ u = r
      BY <3>3, <3>4, <3>5, <3>7
    <3>8. QED
      BY <3>6, <3>7
  <2>5. QED
    BY <2>3, <2>4
<1>4. ASSUME NEW f \in Form, NEW a \in Actor, SaveEdit(f, a) \/ SaveLifecycle(f, a)
      PROVE  Same
  <2> DEFINE q == form[f].request
  <2>1. /\ \/ row' = [row EXCEPT ![q.record].text = q.text]
           \/ row' = [row EXCEPT ![q.record].archived = (q.op = "archive")]
        /\ UNCHANGED order
    BY <1>4, <1>1 DEF SaveEdit, SaveLifecycle
  <2>2. ASSUME NEW s \in Step
        PROVE  (row'[s].there <=> row[s].there) /\ row'[s].parent = row[s].parent
    BY <1>1, <2>1 DEF Row
  <2>3. QED
    BY <2>1, <2>2
<1>5. ASSUME NEW f \in Form,
             OpenNew(f) \/ OpenEdit(f) \/ OpenLifecycle(f) \/ Retype(f) \/ Fail(f)
      PROVE  Same
  BY <1>5 DEF OpenNew, OpenEdit, OpenLifecycle, Retype, Fail
<1>6. ASSUME NEW f \in Form, NEW a \in Actor, Acknowledge(f, a) \/ Refuse(f, a)
      PROVE  Same
  BY <1>6 DEF Acknowledge, Refuse
<1>7. CASE UNCHANGED vars
  BY <1>2, <1>7 DEF vars
<1>8. QED
  BY <1>2, <1>3, <1>4, <1>5, <1>6, <1>7 DEF Next

(* No two steps of a work that were made here have the same order, also    *)
(* after an archived step is restored: StepOrdersAreDistinct.              *)
THEOREM CaseFileOrdersSteps == Spec => []StepOrdersAreDistinct
<1>1. Init => StepOrdersAreDistinct
  BY DEF Init, StepOrdersAreDistinct
<1>2. Inv /\ StepOrdersAreDistinct /\ [Next]_vars => StepOrdersAreDistinct'
  BY OrdersStep
<1>3. QED
  BY <1>1, <1>2, InitInv, NextInv, PTL DEF Spec

-----------------------------------------------------------------------------
(* Every step of the gateways is one that the triggers allow.              *)
LEMMA TreeStep ==
    ASSUME Inv, [Next]_vars
    PROVE  [Tree!Next]_row
<1>1. row \in [Record -> Row]
  BY DEF Inv, TypeOK
<1>2. ASSUME NEW f \in Form, NEW a \in Actor, SaveNew(f, a)
      PROVE  \E r \in Record : Tree!Create(r)
  <2> DEFINE q == form[f].request
  <2>1. Pending(f) /\ q.op = "create" /\ ParentOpen(q)
    BY <1>2 DEF SaveNew, Saves, Accepted
  <2>2. q \in RequestType /\ q.kind \in Kinds /\ q.text \in Text /\ PageOK(form[f], row, version)
    BY <2>1, PendingLemma DEF Inv, TypeOK, PagesOK, OpenPage, RequestType
  <2>3. PICK r \in Identities(q.kind) :
          /\ ~row[r].there
          /\ row' = [row EXCEPT ![r] = [there |-> TRUE, parent |-> q.parent,
                                        text |-> q.text, archived |-> FALSE]]
    BY <1>2 DEF SaveNew
  <2>4. /\ r \in Record /\ q.parent \in ParentsOf(r)
        /\ \A x \in Lineage(row, q.parent) : row[x].there /\ ~row[x].archived
    BY <2>1, <2>2, <2>3, KindLemma DEF PageOK, ParentOpen, Unarchived
  <2>5. Tree!Create(r)
    BY <2>2, <2>3, <2>4
    DEF Tree!Create, Tree!Lineage, Tree!ParentsOf, Tree!Unarchived, Lineage, ParentsOf
  <2>6. QED
    BY <2>4, <2>5
<1>3. ASSUME NEW f \in Form, NEW a \in Actor, SaveEdit(f, a)
      PROVE  \E r \in Record : Tree!Change(r)
  <2> DEFINE q == form[f].request
  <2>1. /\ Pending(f) /\ q.op = "edit" /\ ParentOpen(q) /\ Editable(q)
        /\ row' = [row EXCEPT ![q.record].text = q.text]
    BY <1>3 DEF SaveEdit, Saves, Accepted
  <2>2. /\ q.record \in Record /\ row[q.record].there
        /\ row[q.record].parent = q.parent /\ q.text \in Text
    BY <2>1, RecordFacts DEF RequestType
  <2>3. Unarchived(row, {q.record} \cup Above(row, q.record))
    BY <2>1, <2>2 DEF ParentOpen, Editable, Unarchived, Above
  <2>4. Tree!Change(q.record)
    BY <2>1, <2>2, <2>3
    DEF Tree!Change, Tree!Above, Tree!Lineage, Tree!Unarchived, Above, Lineage, Unarchived
  <2>5. QED
    BY <2>2, <2>4
<1>4. ASSUME NEW f \in Form, NEW a \in Actor, SaveLifecycle(f, a)
      PROVE  \E r \in Record : Tree!SetArchived(r)
  <2> DEFINE q == form[f].request
             archiving == q.op = "archive"
  <2>1. /\ Pending(f) /\ q.op \in Lifecycle /\ ParentOpen(q)
        /\ row[q.record].archived # archiving
        /\ row' = [row EXCEPT ![q.record].archived = archiving]
    BY <1>4 DEF SaveLifecycle, Saves, Accepted, Effective, Lifecycle
  <2>2. q.record \in Record /\ row[q.record].there /\ row[q.record].parent = q.parent
    BY <2>1, RecordFacts DEF Lifecycle
  <2>3. row[q.record].archived \in BOOLEAN /\ archiving \in BOOLEAN
    BY <1>1, <2>2 DEF Row
  <2>4. archiving = ~row[q.record].archived
    BY <2>1, <2>3
  <2>5. row' = [row EXCEPT ![q.record].archived = ~@]
    BY <2>1, <2>4
  <2>6. Unarchived(row, Above(row, q.record))
    BY <2>1, <2>2 DEF ParentOpen, Above
  <2>7. Tree!SetArchived(q.record)
    BY <2>2, <2>5, <2>6
    DEF Tree!SetArchived, Tree!Above, Tree!Lineage, Tree!Unarchived, Above, Lineage, Unarchived
  <2>8. QED
    BY <2>2, <2>7
<1>5. ASSUME NEW f \in Form,
             OpenNew(f) \/ OpenEdit(f) \/ OpenLifecycle(f) \/ Retype(f) \/ Fail(f)
      PROVE  row' = row
  BY <1>5 DEF OpenNew, OpenEdit, OpenLifecycle, Retype, Fail
<1>6. ASSUME NEW f \in Form, NEW a \in Actor, Acknowledge(f, a) \/ Refuse(f, a)
      PROVE  row' = row
  BY <1>6 DEF Acknowledge, Refuse
<1>7. CASE UNCHANGED vars
  BY <1>7 DEF vars
<1>8. \A r : r \in Record <=> r \in Tree!Record
  BY DEF Record, Tree!Record
<1>9. QED
  BY <1>2, <1>3, <1>4, <1>5, <1>6, <1>7, <1>8 DEF Next, Tree!Next

LEMMA TreeInit ==
    ASSUME Init
    PROVE  Tree!Init
<1>1. row = Imported
  BY DEF Init
<1>2. QED
  BY <1>1, ImportedAssumption
  DEF Tree!Init, Tree!Record, Tree!Row, Tree!Above, Tree!Lineage, Tree!ParentsOf,
      Record, Row, Above, Lineage, ParentsOf

(* The gateways implement the tree of the triggers.                        *)
THEOREM CaseFileImplementsTree == Spec => ImplementsArchiveTree
<1>1. Spec => []Inv
  BY InitInv, NextInv, PTL DEF Spec
<1>2. QED
  BY <1>1, TreeInit, TreeStep, PTL DEF Spec, Tree!Spec, ImplementsArchiveTree

(* A write that the triggers allow leaves the family below an archived     *)
(* record alone.                                                           *)
LEMMA FrozenStep ==
    ASSUME row \in [Record -> Row], row' \in [Record -> Row], TreeOK(row), [Tree!Next]_row,
           NEW r \in Record, row[r].there, row[r].archived, row'[r].archived
    PROVE  /\ Below(row', r) = Below(row, r)
           /\ \A x \in Below(row, r) : row'[x] = row[x]
<1>1. CASE row' = row
  BY <1>1 DEF Below, Above, Lineage
<1>2. ASSUME NEW y \in Record, row[y].there, Keeps(row, row'),
             \A x \in Record \ {y} : row'[x] = row[x],
             row'[y].there, row'[y].parent = row[y].parent, r \notin Above(row, y)
      PROVE  /\ Below(row', r) = Below(row, r)
             /\ \A x \in Below(row, r) : row'[x] = row[x]
  <2>1. ASSUME NEW x \in Record PROVE row'[x].there <=> row[x].there
    <3>1. CASE x = y
      BY <1>2, <3>1
    <3>2. CASE x # y
      <4>1. row'[x] = row[x]
        BY <1>2, <3>2
      <4>2. QED
        BY <4>1
    <3>3. QED
      BY <3>1, <3>2
  <2>2. \A x \in Record : row[x].there => Above(row', x) = Above(row, x)
    <3>1. \A x \in Record : row'[x].parent = row[x].parent
      BY <1>2
    <3>2. \A x \in Record : row[x].parent \in Record \cup {None}
      BY DEF Row
    <3>3. QED
      BY <3>1, <3>2 DEF Above, Lineage
  <2>3. Below(row', r) = Below(row, r) /\ y \notin Below(row, r)
    BY <1>2, <2>1, <2>2 DEF Below
  <2>4. QED
    BY <1>2, <2>3 DEF Below
<1>3. ASSUME NEW y \in Record, Tree!Create(y)
      PROVE  /\ Below(row', r) = Below(row, r)
             /\ \A x \in Below(row, r) : row'[x] = row[x]
  <2>1. PICK p \in ParentsOf(y), t \in Text :
          /\ ~row[y].there
          /\ \A a \in Lineage(row, p) : row[a].there /\ ~row[a].archived
          /\ row' = [row EXCEPT ![y] = [there |-> TRUE, parent |-> p, text |-> t,
                                        archived |-> FALSE]]
    BY <1>3 DEF Tree!Create, Tree!ParentsOf, Tree!Lineage, Tree!Unarchived, ParentsOf, Lineage
  <2>2. p \in Record \cup {None} /\ row'[y].parent = p
    BY <2>1, ParentLemma
  <2>3. Keeps(row, row') /\ \A x \in Record \ {y} : row'[x] = row[x]
    BY <2>1 DEF Keeps
  <2>4. ASSUME NEW x \in Record, row[x].there PROVE Above(row', x) = Above(row, x)
    <3>1. row[x].parent \in Record \cup {None} /\ row'[x].parent = row[x].parent
      BY <2>3, <2>4 DEF Keeps, Row
    <3>2. row[x].parent # None => row[row[x].parent].there
      BY <2>4, <3>1, LineageType DEF TreeOK, Above
    <3>3. QED
      BY <2>3, <3>1, <3>2, LineageKept DEF Above
  <2>5. Above(row', y) = Lineage(row, p)
    <3>1. p # None => row[p].there
      BY <2>1, <2>2, LineageType
    <3>2. QED
      BY <2>2, <2>3, <3>1, LineageKept DEF Above
  <2>6. r \notin Above(row', y)
    BY <2>1, <2>5
  <2>7. Below(row', r) = Below(row, r) /\ y \notin Below(row, r)
    BY <2>1, <2>3, <2>4, <2>6 DEF Below
  <2>8. QED
    BY <2>3, <2>7 DEF Below
<1>4. ASSUME NEW y \in Record, Tree!Change(y)
      PROVE  /\ Below(row', r) = Below(row, r)
             /\ \A x \in Below(row, r) : row'[x] = row[x]
  <2>1. PICK t \in Text : /\ row[y].there /\ Unarchived(row, {y} \cup Above(row, y))
                          /\ row' = [row EXCEPT ![y].text = t]
    BY <1>4
    DEF Tree!Change, Tree!Above, Tree!Lineage, Tree!Unarchived, Above, Lineage, Unarchived
  <2>2. /\ Keeps(row, row') /\ \A x \in Record \ {y} : row'[x] = row[x]
        /\ row'[y].there /\ row'[y].parent = row[y].parent
    BY <2>1 DEF Keeps, Row
  <2>3. QED
    BY <1>2, <2>1, <2>2 DEF Unarchived
<1>5. ASSUME NEW y \in Record, Tree!SetArchived(y)
      PROVE  /\ Below(row', r) = Below(row, r)
             /\ \A x \in Below(row, r) : row'[x] = row[x]
  <2>1. /\ row[y].there /\ Unarchived(row, Above(row, y))
        /\ row' = [row EXCEPT ![y].archived = ~row[y].archived]
    BY <1>5
    DEF Tree!SetArchived, Tree!Above, Tree!Lineage, Tree!Unarchived, Above, Lineage, Unarchived
  <2>2. /\ Keeps(row, row') /\ \A x \in Record \ {y} : row'[x] = row[x]
        /\ row'[y].there /\ row'[y].parent = row[y].parent
    BY <2>1 DEF Keeps, Row
  <2>3. QED
    BY <1>2, <2>1, <2>2 DEF Unarchived
<1>6. QED
  BY <1>1, <1>3, <1>4, <1>5 DEF Tree!Next, Tree!Record, Record

(* What is archived comes back as it was: nothing below it changed.        *)
THEOREM CaseFileFreezesArchivedFamilies == Spec => FamiliesBelowTheArchiveAreFrozen
<1>1. ASSUME Inv, Inv', [Next]_vars, NEW r \in Record,
             row[r].there, row[r].archived, row'[r].archived
      PROVE  /\ Tree!Below(row', r) = Tree!Below(row, r)
             /\ \A x \in Tree!Below(row, r) : row'[x] = row[x]
  <2>1. \A rows : Tree!Below(rows, r) = Below(rows, r)
    BY DEF Tree!Below, Tree!Record, Tree!Above, Tree!Lineage, Below, Record, Above, Lineage
  <2>2. row \in [Record -> Row] /\ row' \in [Record -> Row] /\ TreeOK(row)
    BY <1>1 DEF Inv, TypeOK
  <2>3. [Tree!Next]_row
    BY <1>1, TreeStep
  <2>4. QED
    BY <1>1, <2>1, <2>2, <2>3, FrozenStep
<1>2. Inv /\ Inv' /\ [Next]_vars =>
        [\A r \in Tree!Record : row[r].there /\ row[r].archived /\ row'[r].archived =>
            /\ Tree!Below(row', r) = Tree!Below(row, r)
            /\ \A x \in Tree!Below(row, r) : row'[x] = row[x]]_row
  BY <1>1 DEF Tree!Record, Record
<1>3. Spec => []Inv
  BY InitInv, NextInv, PTL DEF Spec
<1>4. QED
  BY <1>2, <1>3, NextInv, PTL
  DEF Spec, FamiliesBelowTheArchiveAreFrozen, Tree!ArchivedFamiliesAreFrozen

-----------------------------------------------------------------------------
(* The receipts.                                                           *)

(* The version of the first receipt a root can have.                       *)
First(r) == IF Imported[r].there THEN 2 ELSE 1

ReceiptsOK ==
    /\ \A e \in receipt :
          /\ Authorized(e.actor, e.request)
          /\ form[e.form] # Unused
          /\ Pending(e.form) => form[e.form].request.kind = e.request.kind
    /\ OneEffectPerForm
    /\ \A r \in Root : First(r) <= version[r] + 1
    /\ VersionsAreAccountedFor

-----------------------------------------------------------------------------
(* An answer leaves a page with the kind it was opened with.               *)
LEMMA AnswerKind ==
    ASSUME Inv, NEW f \in Form, Pending(f), NEW after, Answered(f, after),
           after \in {Spent, [form[f] EXCEPT !.status = "typing"]},
           NEW g \in Form, form[g] # Unused
    PROVE  /\ form'[g] # Unused
           /\ Pending(g)' => Pending(g) /\ form'[g].request.kind = form[g].request.kind
<1>1. PagesOK(form) /\ OpenPage(form[f])
  BY PendingLemma DEF Inv, TypeOK, PagesOK
<1>2. Pending(g)' => Pending(g) /\ form'[g].request.kind = form[g].request.kind
  BY <1>1, AnswerLemma
<1>3. g # f => form'[g] = form[g]
  BY <1>1 DEF Answered, PagesOK
<1>4. form'[f] = after \/ form'[f] = [form[f] EXCEPT !.status = "uncertain"]
  BY <1>1 DEF Answered, PagesOK
<1>5. form'[f].status \in {"spent", "typing", "uncertain"}
  BY <1>1, <1>4 DEF OpenPage, Spent
<1>6. form'[f] # Unused
  BY <1>5 DEF Unused
<1>7. QED
  BY <1>2, <1>3, <1>6

(* So does every other step.                                               *)
LEMMA KindKept ==
    ASSUME Inv, [Next]_vars, NEW g \in Form, form[g] # Unused
    PROVE  /\ form'[g] # Unused
           /\ Pending(g)' => Pending(g) /\ form'[g].request.kind = form[g].request.kind
<1> DEFINE Kept == /\ form'[g] # Unused
                   /\ Pending(g)' => Pending(g) /\ form'[g].request.kind = form[g].request.kind
<1>1. PagesOK(form)
  BY DEF Inv, TypeOK, PagesOK
<1>2. ASSUME NEW f \in Form, OpenNew(f) \/ OpenEdit(f) \/ OpenLifecycle(f) PROVE Kept
  <2>1. form[f] = Unused
    BY <1>2 DEF OpenNew, OpenEdit, OpenLifecycle
  <2>2. ASSUME NEW q, Displayed(f, q) PROVE form'[g] = form[g]
    BY <1>1, <2>1, <2>2 DEF Displayed, PagesOK
  <2>3. form'[g] = form[g]
    <3>1. CASE OpenNew(f)
      BY <2>2, <3>1 DEF OpenNew
    <3>2. CASE OpenEdit(f)
      BY <2>2, <3>2 DEF OpenEdit
    <3>3. CASE OpenLifecycle(f)
      BY <2>2, <3>3 DEF OpenLifecycle
    <3>4. QED
      BY <1>2, <3>1, <3>2, <3>3
  <2>4. QED
    BY <2>3 DEF Pending
<1>3. ASSUME NEW f \in Form, Retype(f) PROVE Kept
  <2>1. PICK t \in Text : form[f].status = "typing" /\ form' = [form EXCEPT ![f].request.text = t]
    BY <1>3 DEF Retype
  <2>2. OpenPage(form[f])
    BY <1>1, <2>1, PendingLemma DEF Pending
  <2>3. CASE g = f
    <3>1. /\ form'[f].status = "typing"
          /\ form'[f].request.kind = form[f].request.kind
      BY <1>1, <2>1, <2>2 DEF PagesOK, OpenPage, RequestType
    <3>2. QED
      BY <2>1, <2>3, <3>1 DEF Pending, Unused
  <2>4. CASE g # f
    <3>1. form'[g] = form[g]
      BY <1>1, <2>1, <2>4 DEF PagesOK
    <3>2. QED
      BY <3>1 DEF Pending
  <2>5. QED
    BY <2>3, <2>4
<1>4. ASSUME NEW f \in Form, Fail(f) PROVE Kept
  <2>1. Pending(f) /\ Answered(f, Spent)
    BY <1>4 DEF Fail, Answered
  <2>2. QED
    BY <2>1, AnswerKind
<1>5. ASSUME NEW f \in Form, NEW a \in Actor, Acknowledge(f, a) PROVE Kept
  BY <1>5, AnswerKind DEF Acknowledge
<1>6. ASSUME NEW f \in Form, NEW a \in Actor, Refuse(f, a) PROVE Kept
  BY <1>6, AnswerKind DEF Refuse
<1>7. ASSUME NEW f \in Form, NEW a \in Actor,
             SaveNew(f, a) \/ SaveEdit(f, a) \/ SaveLifecycle(f, a)
      PROVE  Kept
  <2>1. Pending(f) /\ Answered(f, Spent)
    BY <1>7 DEF SaveNew, SaveEdit, SaveLifecycle, Commit
  <2>2. QED
    BY <2>1, AnswerKind
<1>8. CASE UNCHANGED vars
  BY <1>8 DEF vars, Pending
<1>9. QED
  BY <1>2, <1>3, <1>4, <1>5, <1>6, <1>7, <1>8 DEF Next

(* A receipt added to those of a root, numbered with its next version.     *)
LEMMA VersionAdded ==
    ASSUME version \in [Root -> Nat], \A r \in Root : First(r) <= version[r] + 1,
           VersionsAreAccountedFor,
           NEW root \in Root, NEW e, e.root = root, e.version = version[root] + 1,
           version' = [version EXCEPT ![root] = version[root] + 1],
           receipt' = receipt \cup {e}
    PROVE  VersionsAreAccountedFor'
<1> DEFINE Of(r, all) == {d \in all : d.root = r}
           Versions(all) == {d.version : d \in all}
<1>1. \A r \in Root : version[r] \in Nat /\ First(r) \in Nat
  BY DEF First
<1>2. \A r \in Root : Versions(Of(r, receipt)) = First(r)..version[r]
  BY DEF VersionsAreAccountedFor, First
<1>3. ASSUME NEW r \in Root, r # root
      PROVE  Of(r, receipt') = Of(r, receipt) /\ version'[r] = version[r]
  BY <1>3
<1>4. /\ Of(root, receipt') = Of(root, receipt) \cup {e}
      /\ version'[root] = version[root] + 1
  OBVIOUS
<1>5. Versions(Of(root, receipt) \cup {e}) = Versions(Of(root, receipt)) \cup {version[root] + 1}
  OBVIOUS
<1>6. (First(root)..version[root]) \cup {version[root] + 1} = First(root)..(version[root] + 1)
  BY <1>1
<1>7. \A r \in Root : Versions(Of(r, receipt')) = First(r)..version'[r]
  BY <1>2, <1>3, <1>4, <1>5, <1>6
<1>8. \A d \in receipt : d.root = root => d.version # version[root] + 1
  <2>1. \A d \in Of(root, receipt) : d.version \in Versions(Of(root, receipt))
    OBVIOUS
  <2>2. \A n \in First(root)..version[root] : n # version[root] + 1
    BY <1>1
  <2>3. QED
    BY <1>2, <2>1, <2>2
<1>9. ASSUME NEW r \in Root, NEW c \in receipt', NEW d \in receipt',
             c.root = r, d.root = r, c.version = d.version
      PROVE  c = d
  <2>1. CASE c \in receipt /\ d \in receipt
    BY <1>9, <2>1 DEF VersionsAreAccountedFor
  <2>2. CASE c \notin receipt \/ d \notin receipt
    BY <1>8, <1>9, <2>2
  <2>3. QED
    BY <2>1, <2>2
<1>10. QED
  BY <1>7, <1>9 DEF VersionsAreAccountedFor, First

(* A save adds a receipt of a form and a version that had none.            *)
LEMMA ReceiptAdded ==
    ASSUME Inv, Inv', ReceiptsOK, [Next]_vars, NEW f \in Form, NEW a \in Actor,
           NEW r \in Record, Pending(f), Saves(f, a), Commit(f, a, r),
           r \in Step => form[f].request.parent \in Work
    PROVE  ReceiptsOK'
<1> DEFINE q == form[f].request
           root == IF r \in Step THEN q.parent ELSE r
           e == [form |-> f, actor |-> a, request |-> q, root |-> root,
                 version |-> NextVersion(q, r)]
<1>1. /\ root \in Root /\ version \in [Root -> Nat]
      /\ NextVersion(q, r) = version[root] + 1
  BY ParentLemma DEF Root, Inv, TypeOK, NextVersion
<1>2. /\ version' = [version EXCEPT ![root] = version[root] + 1]
      /\ receipt' = receipt \cup {e}
  BY <1>1 DEF Commit
<1>3. /\ e.form = f /\ e.actor = a /\ e.request = q
      /\ e.root = root /\ e.version = version[root] + 1
  BY <1>1
<1>4. /\ Authorized(a, q)
      /\ \A d \in receipt : d.form = f => q.kind = "matter" /\ d.actor # a
  BY DEF Saves, ReceiptsFor
<1>5. \A d \in receipt : d.form \in Form /\ (d.form = f => d.request.kind = q.kind)
  BY DEF ReceiptsOK, Inv, TypeOK
<1>6. form[f] # Unused
  BY DEF Pending, Unused
<1>7. ASSUME NEW d \in receipt'
      PROVE  /\ Authorized(d.actor, d.request)
             /\ form'[d.form] # Unused
             /\ Pending(d.form)' => form'[d.form].request.kind = d.request.kind
  <2>1. CASE d \in receipt
    BY <1>5, <2>1, KindKept DEF ReceiptsOK
  <2>2. CASE d = e
    BY <1>3, <1>4, <1>6, <2>2, KindKept
  <2>3. QED
    BY <1>2, <2>1, <2>2
<1>8. OneEffectPerForm'
  <2>1. SUFFICES ASSUME NEW c \in receipt', NEW d \in receipt', c.form = d.form,
                        c.request.kind = "matter" => c.actor = d.actor
                 PROVE  c = d
    BY DEF OneEffectPerForm
  <2>2. CASE c \in receipt /\ d \in receipt
    BY <2>1, <2>2 DEF ReceiptsOK, OneEffectPerForm
  <2>3. CASE c = e \/ d = e
    BY <1>2, <1>3, <1>4, <1>5, <2>1, <2>3
  <2>4. QED
    BY <1>2, <2>2, <2>3
<1>9. \A x \in Root : First(x) <= version'[x] + 1
  BY <1>1, <1>2 DEF ReceiptsOK, First
<1>10. VersionsAreAccountedFor'
  BY <1>1, <1>2, <1>3, VersionAdded DEF ReceiptsOK
<1>11. \A d \in receipt' : Authorized(d.actor, d.request)'
  BY <1>7 DEF Authorized
<1>12. QED
  BY <1>7, <1>8, <1>9, <1>10, <1>11 DEF ReceiptsOK

(* Everything else leaves the receipts and the versions alone.             *)
LEMMA ReceiptsKept ==
    ASSUME Inv, ReceiptsOK, [Next]_vars, UNCHANGED <<version, receipt>>
    PROVE  ReceiptsOK'
<1>1. \A e \in receipt' : /\ Authorized(e.actor, e.request)
                          /\ form'[e.form] # Unused
                          /\ Pending(e.form)' => form'[e.form].request.kind = e.request.kind
  BY KindKept DEF ReceiptsOK, Inv, TypeOK
<1>2. OneEffectPerForm' /\ VersionsAreAccountedFor'
  BY DEF ReceiptsOK, OneEffectPerForm, VersionsAreAccountedFor
<1>3. QED
  BY <1>1, <1>2 DEF ReceiptsOK, Authorized

LEMMA InitReceipts ==
    ASSUME Init
    PROVE  ReceiptsOK
<1>1. \A r \in Root : First(r) = version[r] + 1 /\ version[r] \in {0, 1}
  BY DEF Init, First
<1>2. \A r \in Root : First(r)..version[r] = {}
  BY <1>1
<1>3. {e.version : e \in {}} = {}
  OBVIOUS
<1>4. \A r \in Root : {e \in receipt : e.root = r} = {}
  BY DEF Init
<1>5. VersionsAreAccountedFor
  BY <1>2, <1>3, <1>4 DEF Init, VersionsAreAccountedFor, First
<1>6. QED
  BY <1>1, <1>5 DEF Init, ReceiptsOK, OneEffectPerForm

LEMMA NextReceipts ==
    ASSUME Inv, Inv', ReceiptsOK, [Next]_vars
    PROVE  ReceiptsOK'
<1>1. ASSUME NEW f \in Form, NEW a \in Actor, SaveNew(f, a) PROVE ReceiptsOK'
  <2> DEFINE q == form[f].request
  <2>1. PICK r \in Identities(q.kind) : Commit(f, a, r)
    BY <1>1 DEF SaveNew
  <2>2. Pending(f) /\ Saves(f, a) /\ q.op = "create" /\ PageOK(form[f], row, version)
    BY <1>1 DEF SaveNew, Inv
  <2>3. q.kind \in Kinds
    BY <2>2, PendingLemma DEF Inv, TypeOK, PagesOK, OpenPage, RequestType
  <2>4. r \in Record /\ (r \in Step => q.parent \in Work)
    BY <2>1, <2>2, <2>3, KindLemma, KindsAssumption DEF PageOK, ParentsOf
  <2>5. QED
    BY <2>1, <2>2, <2>4, ReceiptAdded
<1>2. ASSUME NEW f \in Form, NEW a \in Actor, SaveEdit(f, a) \/ SaveLifecycle(f, a)
      PROVE  ReceiptsOK'
  <2> DEFINE q == form[f].request
  <2>1. Pending(f) /\ Saves(f, a) /\ q.op # "create" /\ Commit(f, a, q.record)
    BY <1>2 DEF SaveEdit, SaveLifecycle, Lifecycle
  <2>2. q.record \in Record /\ (q.record \in Step => q.parent \in Work)
    BY <2>1, RecordFacts
  <2>3. QED
    BY <2>1, <2>2, ReceiptAdded
<1>3. ASSUME NEW f \in Form,
             OpenNew(f) \/ OpenEdit(f) \/ OpenLifecycle(f) \/ Retype(f) \/ Fail(f)
      PROVE  UNCHANGED <<version, receipt>>
  BY <1>3 DEF OpenNew, OpenEdit, OpenLifecycle, Retype, Fail
<1>4. ASSUME NEW f \in Form, NEW a \in Actor, Acknowledge(f, a) \/ Refuse(f, a)
      PROVE  UNCHANGED <<version, receipt>>
  BY <1>4 DEF Acknowledge, Refuse
<1>5. CASE UNCHANGED vars
  BY <1>5, ReceiptsKept DEF vars
<1>6. QED
  BY <1>1, <1>2, <1>3, <1>4, <1>5, ReceiptsKept DEF Next

LEMMA ReceiptsInvariant == Spec => [](Inv /\ ReceiptsOK)
<1>1. Init => Inv /\ ReceiptsOK
  BY InitInv, InitReceipts
<1>2. Inv /\ ReceiptsOK /\ [Next]_vars => (Inv /\ ReceiptsOK)'
  BY NextInv, NextReceipts
<1>3. QED
  BY <1>1, <1>2, PTL DEF Spec

-----------------------------------------------------------------------------
(* A form takes effect once, however often it is sent: OneEffectPerForm.   *)
THEOREM CaseFileSavesOnce == Spec => []OneEffectPerForm
<1>1. ReceiptsOK => OneEffectPerForm
  BY DEF ReceiptsOK
<1>2. QED
  BY <1>1, ReceiptsInvariant, PTL

(* The receipts of a record are its versions since the import, each once:  *)
(* VersionsAreAccountedFor.                                                *)
THEOREM CaseFileHistoryIsWhole == Spec => []VersionsAreAccountedFor
<1>1. ReceiptsOK => VersionsAreAccountedFor
  BY DEF ReceiptsOK
<1>2. QED
  BY <1>1, ReceiptsInvariant, PTL

(* A save whose answer was lost is confirmed when its form is sent again,  *)
(* whatever was saved in between: ResendsAreAcknowledged.                  *)
THEOREM CaseFileAcknowledgesResends == Spec => []ResendsAreAcknowledged
<1>1. ASSUME ReceiptsOK, NEW e \in receipt, Pending(e.form), form[e.form].request = e.request
      PROVE  Acknowledges(e.form, e.actor)
  <2>1. Authorized(e.actor, e.request)
    BY <1>1 DEF ReceiptsOK
  <2>2. e \in ReceiptsFor(e.form, e.actor, e.request)
    BY DEF ReceiptsFor
  <2>3. QED
    BY <1>1, <2>1, <2>2 DEF Acknowledges, Replayed
<1>2. ReceiptsOK => ResendsAreAcknowledged
  BY <1>1 DEF ResendsAreAcknowledged
<1>3. QED
  BY <1>2, ReceiptsInvariant, PTL

-----------------------------------------------------------------------------
(* What a confirmation displays was true of some earlier table `then': the *)
(* page shows its rows, and the facts it sends back are counted in it.     *)
(* While the version has not moved, the record is as it was, and so is     *)
(* every step of a work.                                                   *)
ShownThen(r, facts, seen, then) ==
    /\ seen = [self  |-> then[r],
               above |-> {<<a, then[a].text>> : a \in Above(then, r)},
               below |-> {<<x, r \in Work /\ then[x].archived>> : x \in Below(then, r)}]
    /\ r \in Matter =>
          /\ facts.hearings = Cardinality(Below(then, r) \cap Hearing)
          /\ facts.tasks = Cardinality(Below(then, r) \cap Work)
          /\ facts.steps = Cardinality(Below(then, r) \cap Step)
    /\ r \notin Matter =>
          facts.caseNumber = {then[a].text : a \in Above(then, r) \cap Matter}
    /\ r \in Step => facts.requiredWork = then[then[r].parent].text

StillSo(q, rows, vers, then) ==
    q.version = vers[RootOf(q)] =>
       /\ rows[q.record] = then[q.record]
       /\ q.record \in Work => \A s \in Step :
             rows[s].there /\ rows[s].parent = q.record => then[s].there /\ rows[s] = then[s]

PastOK(o, rows, vers) ==
    \E then \in [Record -> Row] :
       /\ TreeOK(then) /\ then[o.request.record].there /\ Keeps(then, rows)
       /\ ShownThen(o.request.record, o.facts, o.seen, then)
       /\ StillSo(o.request, rows, vers, then)

Confirming(f) == Pending(f) /\ form[f].request.op \in Lifecycle

ConfirmationsOK == \A f \in Form : Confirming(f) => PastOK(form[f], row, version)

(* What can be above a record: a matter, and a work above a step.          *)
LEMMA AboveLemma ==
    ASSUME NEW rows \in [Record -> Row], TreeOK(rows), NEW r \in Record, rows[r].there
    PROVE  /\ Above(rows, r) \subseteq Matter \cup Work
           /\ r \in Matter => Above(rows, r) = {}
           /\ r \in Hearing \cup Work => Above(rows, r) \subseteq Matter
           /\ r \in Step => /\ rows[r].parent \in Work
                            /\ rows[r].parent \in Above(rows, r)
                            /\ Above(rows, r) \subseteq Matter \cup {rows[r].parent}
           /\ \A a, b \in Above(rows, r) \cap Matter : a = b
<1>1. rows[r].parent \in ParentsOf(r)
  BY DEF TreeOK
<1>2. \A m \in Matter : rows[m].there => rows[m].parent = None
  BY DEF TreeOK, ParentsOf, Record
<1>3. \A w \in Work : rows[w].there => rows[w].parent \in Matter \cup {None}
  BY KindsAssumption DEF TreeOK, ParentsOf, Record
<1>4. \A a \in Above(rows, r) : rows[a].there
  BY DEF TreeOK
<1>5. CASE r \in Matter
  BY <1>1, <1>5, KindsAssumption DEF ParentsOf, Above, Lineage
<1>6. CASE r \in Hearing \cup Work
  <2>1. rows[r].parent \in Matter \cup {None}
    BY <1>1, <1>6, KindsAssumption DEF ParentsOf
  <2>2. CASE rows[r].parent = None
    BY <1>6, <2>2, KindsAssumption DEF Above, Lineage
  <2>3. CASE rows[r].parent \in Matter
    <3>1. rows[r].parent \in Above(rows, r)
      BY <2>3, KindsAssumption DEF Above, Lineage, Record
    <3>2. rows[rows[r].parent].parent = None
      BY <1>2, <1>4, <2>3, <3>1
    <3>3. Above(rows, r) \subseteq {rows[r].parent}
      BY <3>2 DEF Above, Lineage
    <3>4. QED
      BY <1>6, <2>3, <3>3, KindsAssumption
  <2>4. QED
    BY <2>1, <2>2, <2>3
<1>7. CASE r \in Step
  <2>1. rows[r].parent \in Work
    BY <1>1, <1>7, KindsAssumption DEF ParentsOf
  <2>2. rows[r].parent \in Above(rows, r)
    BY <2>1, KindsAssumption DEF Above, Lineage, Record
  <2>3. rows[rows[r].parent].parent \in Matter \cup {None}
    BY <1>3, <1>4, <2>1, <2>2
  <2>4. Above(rows, r) \subseteq {rows[r].parent} \cup ({rows[rows[r].parent].parent} \ {None})
    BY DEF Above, Lineage
  <2>5. QED
    BY <1>7, <2>1, <2>2, <2>3, <2>4, KindsAssumption
<1>8. QED
  BY <1>5, <1>6, <1>7 DEF Record

(* What is above a stored record stays above it.                           *)
LEMMA AboveKept ==
    ASSUME NEW rows \in [Record -> Row], NEW next \in [Record -> Row],
           TreeOK(rows), Keeps(rows, next), NEW r \in Record, rows[r].there
    PROVE  Above(next, r) = Above(rows, r)
<1>1. next[r].parent = rows[r].parent
  BY DEF Keeps
<1>2. rows[r].parent \in Record \cup {None}
  BY DEF Row
<1>3. rows[r].parent # None => rows[rows[r].parent].there
  BY <1>2, LineageType DEF TreeOK, Above
<1>4. QED
  BY <1>1, <1>2, <1>3, LineageKept DEF Above

(* So what was below a record is still below it.                           *)
LEMMA BelowKept ==
    ASSUME NEW rows \in [Record -> Row], NEW next \in [Record -> Row],
           TreeOK(rows), Keeps(rows, next), NEW r \in Record
    PROVE  Below(rows, r) \subseteq Below(next, r)
  BY AboveKept DEF Below, Keeps

(* Only matters and works have anything below them.                        *)
LEMMA BelowLemma ==
    ASSUME NEW rows \in [Record -> Row], TreeOK(rows), NEW r \in Record
    PROVE  /\ r \in Hearing \cup Step => Below(rows, r) = {}
           /\ r \in Work => Below(rows, r) = {s \in Step : rows[s].there /\ rows[s].parent = r}
           /\ Below(rows, r) \subseteq Hearing \cup Work \cup Step
<1>1. ASSUME NEW x \in Below(rows, r)
      PROVE  /\ x \in Record /\ rows[x].there /\ r \in Matter \cup Work
             /\ x \notin Matter
             /\ r \in Work => x \in Step /\ rows[x].parent = r
  <2>1. x \in Record /\ rows[x].there /\ r \in Above(rows, x)
    BY <1>1 DEF Below
  <2>2. x \in Hearing \cup Work => r \in Matter
    BY <2>1, AboveLemma
  <2>3. x \notin Matter
    BY <2>1, AboveLemma
  <2>4. x \in Step => r \in Matter \cup {rows[x].parent}
    BY <2>1, AboveLemma
  <2>5. r \in Matter \cup Work
    BY <2>1, AboveLemma
  <2>6. QED
    BY <2>1, <2>2, <2>3, <2>4, <2>5, KindsAssumption DEF Record
<1>2. ASSUME NEW s \in Step, rows[s].there PROVE s \in Record /\ rows[s].parent \in Above(rows, s)
  BY <1>2, AboveLemma DEF Record
<1>3. r \in Hearing \cup Step => Below(rows, r) = {}
  BY <1>1, KindsAssumption
<1>4. r \in Work => Below(rows, r) = {s \in Step : rows[s].there /\ rows[s].parent = r}
  <2>1. \A s \in Step : rows[s].there /\ rows[s].parent = r => s \in Below(rows, r)
    BY <1>2 DEF Below
  <2>2. QED
    BY <1>1, <2>1
<1>5. Below(rows, r) \subseteq Hearing \cup Work \cup Step
  BY <1>1 DEF Record
<1>6. QED
  BY <1>3, <1>4, <1>5

(* The same numbers below a matter, where nothing goes away: the same      *)
(* records.                                                                *)
LEMMA CountsSuffice ==
    ASSUME NEW small, NEW large, IsFiniteSet(large), small \subseteq large,
           large \subseteq Hearing \cup Work \cup Step,
           Cardinality(small \cap Hearing) = Cardinality(large \cap Hearing),
           Cardinality(small \cap Work) = Cardinality(large \cap Work),
           Cardinality(small \cap Step) = Cardinality(large \cap Step)
    PROVE  small = large
<1>1. ASSUME NEW K, Cardinality(small \cap K) = Cardinality(large \cap K)
      PROVE  small \cap K = large \cap K
  <2>1. IsFiniteSet(large \cap K)
    BY FS_Intersection
  <2>2. (small \cap K) \in SUBSET (large \cap K)
    OBVIOUS
  <2>3. QED
    BY <1>1, <2>1, <2>2, FS_Subset
<1>2. /\ small \cap Hearing = large \cap Hearing
      /\ small \cap Work = large \cap Work
      /\ small \cap Step = large \cap Step
  BY <1>1
<1>3. QED
  BY <1>2

(* A confirmation whose version and facts are still right displays the     *)
(* record, what is above it and what is below it as they are now.          *)
LEMMA ConfirmedIsShown ==
    ASSUME Inv, NEW o, NEW then \in [Record -> Row], NEW r \in Record,
           r = o.request.record, row[r].there, TreeOK(then), then[r].there, Keeps(then, row),
           ShownThen(o.request.record, o.facts, o.seen, then), StillSo(o.request, row, version, then),
           o.request.version = version[RootOf(o.request)],
           o.facts = Facts(r)
    PROVE  Shown(r) = o.seen
<1>1. row \in [Record -> Row] /\ TreeOK(row) /\ IsFiniteSet(Record)
  BY KindsAssumption DEF Inv, TypeOK
<1>2. row[r] = then[r]
  BY DEF StillSo
<1>3. Above(row, r) = Above(then, r)
  BY <1>1, AboveKept
<1>4. Below(then, r) \subseteq Below(row, r) /\ Below(row, r) \subseteq Record
  BY <1>1, BelowKept DEF Below
<1>5. ASSUME NEW a \in Above(then, r) PROVE row[a].text = then[a].text
  <2>1. r \notin Matter
    BY <1>5, AboveLemma
  <2>2. CASE a \in Matter
    <3>1. o.facts.caseNumber = CaseNumber(r)
      BY <2>1 DEF Facts, HearingFacts, AdminFacts
    <3>2. {then[b].text : b \in Above(then, r) \cap Matter}
            = {row[b].text : b \in Above(row, r) \cap Matter}
      BY <2>1, <3>1 DEF ShownThen, CaseNumber
    <3>3. \A b \in Above(then, r) \cap Matter : b = a
      BY <2>2, <1>5, AboveLemma
    <3>4. then[a].text \in {row[b].text : b \in Above(row, r) \cap Matter}
      BY <1>5, <2>2, <3>2
    <3>5. PICK b \in Above(row, r) \cap Matter : row[b].text = then[a].text
      BY <3>4
    <3>6. QED
      BY <1>3, <3>3, <3>5
  <2>3. CASE a \notin Matter
    <3>1. r \in Step /\ a = then[r].parent
      BY <1>5, <2>1, <2>3, AboveLemma DEF Record
    <3>2. o.facts.requiredWork = row[WorkOf(r)].text
      BY <3>1, KindsAssumption DEF Facts, AdminFacts
    <3>3. WorkOf(r) = a
      BY <1>2, <3>1 DEF WorkOf
    <3>4. QED
      BY <3>1, <3>2, <3>3 DEF ShownThen
  <2>4. QED
    BY <2>2, <2>3
<1>6. {<<a, row[a].text>> : a \in Above(row, r)} = {<<a, then[a].text>> : a \in Above(then, r)}
  BY <1>3, <1>5
<1>7. Below(row, r) = Below(then, r)
  <2>1. CASE r \in Matter
    <3>1. o.facts = MatterCounts(r)
      BY <2>1 DEF Facts
    <3>2. /\ Cardinality(Below(then, r) \cap Hearing) = Cardinality(Below(row, r) \cap Hearing)
          /\ Cardinality(Below(then, r) \cap Work) = Cardinality(Below(row, r) \cap Work)
          /\ Cardinality(Below(then, r) \cap Step) = Cardinality(Below(row, r) \cap Step)
      BY <2>1, <3>1 DEF ShownThen, MatterCounts
    <3>3. IsFiniteSet(Below(row, r))
      BY <1>1, <1>4, FS_Subset
    <3>4. Below(row, r) \subseteq Hearing \cup Work \cup Step
      BY <1>1, BelowLemma
    <3>5. QED
      BY <1>4, <3>2, <3>3, <3>4, CountsSuffice
  <2>2. CASE r \in Hearing \cup Step
    BY <1>1, <2>2, BelowLemma
  <2>3. CASE r \in Work
    <3>1. /\ Below(row, r) = {s \in Step : row[s].there /\ row[s].parent = r}
          /\ Below(then, r) = {s \in Step : then[s].there /\ then[s].parent = r}
      BY <1>1, <2>3, BelowLemma
    <3>2. \A s \in Step : row[s].there /\ row[s].parent = r =>
             then[s].there /\ row[s] = then[s]
      BY <2>3 DEF StillSo
    <3>3. QED
      BY <1>4, <3>1, <3>2
  <2>4. QED
    BY <2>1, <2>2, <2>3 DEF Record
<1>8. ASSUME NEW x \in Below(then, r), r \in Work PROVE row[x].archived = then[x].archived
  <2>1. x \in Step /\ row[x].there /\ row[x].parent = r
    BY <1>1, <1>7, <1>8, BelowLemma
  <2>2. QED
    BY <1>8, <2>1 DEF StillSo
<1>9. {<<x, r \in Work /\ row[x].archived>> : x \in Below(row, r)}
        = {<<x, r \in Work /\ then[x].archived>> : x \in Below(then, r)}
  BY <1>7, <1>8
<1>10. o.seen = [self  |-> then[r],
                 above |-> {<<a, then[a].text>> : a \in Above(then, r)},
                 below |-> {<<x, r \in Work /\ then[x].archived>> : x \in Below(then, r)}]
  BY DEF ShownThen
<1>11. Shown(r) = [self  |-> row[r],
                   above |-> {<<a, row[a].text>> : a \in Above(row, r)},
                   below |-> {<<x, r \in Work /\ row[x].archived>> : x \in Below(row, r)}]
  BY DEF Shown
<1>12. QED
  BY <1>2, <1>6, <1>9, <1>10, <1>11

-----------------------------------------------------------------------------
(* A save at the record r moves the version of its root.                   *)
LEMMA CommitMoves ==
    ASSUME Inv, NEW f \in Form, NEW a \in Actor, NEW r \in Record, Commit(f, a, r),
           row' \in [Record -> Row],
           \A x \in Record \ {r} : row'[x] = row[x],
           row'[r].parent = form[f].request.parent,
           r \in Step => form[f].request.parent \in Work
    PROVE  /\ \A x \in Root : version[x] <= version'[x]
           /\ \A x \in Record : row'[x] # row[x] =>
                 version'[RootIn(row', x)] # version[RootIn(row', x)]
<1> DEFINE root == RootIn(row', r)
<1>1. root = IF r \in Step THEN form[f].request.parent ELSE r
  BY DEF RootIn
<1>2. root \in Root /\ version \in [Root -> Nat]
  BY <1>1, ParentLemma DEF Root, Inv, TypeOK
<1>3. version' = [version EXCEPT ![root] = version[root] + 1]
  BY <1>1, <1>2 DEF Commit, NextVersion
<1>4. version[root] \in Nat
  BY <1>2
<1>5. version'[root] = version[root] + 1
  BY <1>2, <1>3
<1>6. \A x \in Root : version[x] <= version'[x]
  BY <1>2, <1>3, <1>4
<1>7. QED
  BY <1>4, <1>5, <1>6

(* No step changes a record without moving the version of its root.        *)
LEMMA ChangesMoveVersions ==
    ASSUME Inv, [Next]_vars
    PROVE  /\ row' \in [Record -> Row] /\ Keeps(row, row')
           /\ \A x \in Root : version[x] <= version'[x]
           /\ \A x \in Record : row'[x] # row[x] =>
                 version'[RootIn(row', x)] # version[RootIn(row', x)]
<1> DEFINE Moves == /\ Keeps(row, row')
                    /\ \A x \in Root : version[x] <= version'[x]
                    /\ \A x \in Record : row'[x] # row[x] =>
                          version'[RootIn(row', x)] # version[RootIn(row', x)]
<1>1. row' \in [Record -> Row] /\ row \in [Record -> Row] /\ version \in [Root -> Nat]
  BY NextInv DEF Inv, TypeOK
<1>2. CASE UNCHANGED <<row, version>>
  <2>1. \A x \in Root : version[x] <= version'[x]
    BY <1>1, <1>2
  <2>2. QED
    BY <1>1, <1>2, <2>1 DEF Keeps
<1>3. ASSUME NEW f \in Form, NEW a \in Actor, SaveNew(f, a) PROVE Moves
  <2>. DEFINE q == form[f].request
  <2>1. Pending(f) /\ q.op = "create" /\ PageOK(form[f], row, version) /\ OpenPage(form[f])
    BY <1>3, PendingLemma DEF SaveNew, Inv, TypeOK, PagesOK
  <2>2. q \in RequestType /\ q.kind \in Kinds
    BY <2>1 DEF OpenPage, RequestType
  <2>3. PICK r \in Identities(q.kind) :
          /\ ~row[r].there
          /\ row' = [row EXCEPT ![r] = [there |-> TRUE, parent |-> q.parent,
                                        text |-> q.text, archived |-> FALSE]]
          /\ Commit(f, a, r)
    BY <1>3 DEF SaveNew
  <2>4. r \in Record /\ q.parent \in ParentsOf(r)
    BY <2>1, <2>2, <2>3, KindLemma DEF PageOK
  <2>5. r \in Step => q.parent \in Work
    BY <2>4, KindsAssumption DEF ParentsOf
  <2>6. \A x \in Record \ {r} : row'[x] = row[x]
    BY <1>1, <2>3
  <2>7. row'[r].parent = q.parent /\ Keeps(row, row')
    BY <1>1, <2>3, <2>4 DEF Keeps
  <2>8. QED
    BY <1>1, <2>3, <2>4, <2>5, <2>6, <2>7, CommitMoves
<1>4. ASSUME NEW f \in Form, NEW a \in Actor, SaveEdit(f, a) \/ SaveLifecycle(f, a)
      PROVE  Moves
  <2>. DEFINE q == form[f].request
  <2>1. Pending(f) /\ q.op # "create" /\ Commit(f, a, q.record)
    BY <1>4 DEF SaveEdit, SaveLifecycle, Lifecycle
  <2>2. /\ q.record \in Record /\ row[q.record].there
        /\ row[q.record].parent = q.parent /\ (q.record \in Step => q.parent \in Work)
    BY <2>1, RecordFacts
  <2>3. \/ row' = [row EXCEPT ![q.record].text = q.text]
        \/ row' = [row EXCEPT ![q.record].archived = (q.op = "archive")]
    BY <1>4 DEF SaveEdit, SaveLifecycle
  <2>4. /\ \A x \in Record \ {q.record} : row'[x] = row[x]
        /\ row'[q.record].parent = row[q.record].parent
        /\ row'[q.record].there = row[q.record].there
    <3>1. row[q.record] \in Row
      BY <1>1, <2>2
    <3>2. \E old \in Row : /\ old.parent = row[q.record].parent
                           /\ old.there = row[q.record].there
                           /\ row' = [row EXCEPT ![q.record] = old]
      <4>1. CASE row' = [row EXCEPT ![q.record].text = q.text]
        <5>1. q.text \in Text
          BY <2>1, PendingLemma DEF Inv, TypeOK, PagesOK, OpenPage, RequestType
        <5>2. [row[q.record] EXCEPT !.text = q.text] \in Row
          BY <3>1, <5>1 DEF Row
        <5>3. QED
          BY <3>1, <4>1, <5>2 DEF Row
      <4>2. CASE row' = [row EXCEPT ![q.record].archived = (q.op = "archive")]
        <5>1. [row[q.record] EXCEPT !.archived = (q.op = "archive")] \in Row
          BY <3>1 DEF Row
        <5>2. QED
          BY <3>1, <4>2, <5>1 DEF Row
      <4>3. QED
        BY <2>3, <4>1, <4>2
    <3>3. QED
      BY <1>1, <2>2, <3>2
  <2>5. Keeps(row, row')
    BY <2>4 DEF Keeps
  <2>6. QED
    BY <1>1, <2>1, <2>2, <2>4, <2>5, CommitMoves
<1>5. QED
  BY <1>1, <1>2, <1>3, <1>4
  DEF Next, OpenNew, OpenEdit, OpenLifecycle, Retype, Fail, Acknowledge, Refuse, vars

(* A confirmation that was true stays true of the same earlier table.      *)
LEMMA PastKept ==
    ASSUME Inv, [Next]_vars, NEW f \in Form, Confirming(f), PastOK(form[f], row, version)
    PROVE  PastOK(form[f], row', version')
<1>. PICK o : o = form[f]
  OBVIOUS
<1>. PICK q \in RequestType : q = o.request
  BY PendingLemma DEF Confirming, Inv, TypeOK, PagesOK, OpenPage
<1>. PICK r \in Record : r = q.record
  BY RecordFacts DEF Confirming, Lifecycle
<1>. PICK root \in Root : root = RootOf(q)
  BY RecordFacts DEF Confirming, Lifecycle
<1>1. PICK then \in [Record -> Row] :
        /\ TreeOK(then) /\ then[r].there /\ Keeps(then, row)
        /\ ShownThen(o.request.record, o.facts, o.seen, then)
        /\ StillSo(o.request, row, version, then)
  BY DEF PastOK
<1>2. /\ row[r].there /\ row[r].parent = q.parent
      /\ (q.kind = "step") <=> (r \in Step)
      /\ q.version <= version[root] /\ q.version \in Nat
  <2>1. PageOK(o, row, version) /\ Pending(f) /\ q.op # "create"
    BY DEF Confirming, Lifecycle, Inv
  <2>2. QED
    BY <2>1, RecordFacts DEF PageOK, RequestType
<1>3. /\ row' \in [Record -> Row] /\ Keeps(row, row')
      /\ \A x \in Root : version[x] <= version'[x]
      /\ \A x \in Record : row'[x] # row[x] =>
            version'[RootIn(row', x)] # version[RootIn(row', x)]
  BY ChangesMoveVersions
<1>4. Keeps(then, row')
  BY <1>1, <1>3 DEF Keeps
<1>5. version[root] \in Nat /\ version'[root] \in Nat
  BY NextInv DEF Inv, TypeOK
<1>6. ASSUME q.version = version'[root]
      PROVE  /\ row'[r] = then[r]
             /\ r \in Work => \A s \in Step :
                   row'[s].there /\ row'[s].parent = r => then[s].there /\ row'[s] = then[s]
  <2>1. q.version = version[root] /\ version'[root] = version[root]
    BY <1>2, <1>3, <1>5, <1>6
  <2>2. RootIn(row', r) = root
    BY <1>2, <1>3 DEF RootIn, RootOf, Keeps
  <2>3. row'[r] = row[r] /\ row[r] = then[r]
    BY <1>1, <1>3, <2>1, <2>2 DEF StillSo
  <2>4. ASSUME r \in Work, NEW s \in Step, row'[s].there, row'[s].parent = r
        PROVE  then[s].there /\ row'[s] = then[s]
    <3>1. root = r
      BY <2>4, <1>2, KindsAssumption DEF RootOf
    <3>2. RootIn(row', s) = root /\ s \in Record
      BY <2>4, <3>1 DEF RootIn, Record
    <3>3. row'[s] = row[s]
      BY <1>3, <2>1, <3>2
    <3>4. QED
      BY <1>1, <2>1, <2>4, <3>3 DEF StillSo
  <2>5. QED
    BY <2>3, <2>4
<1>7. StillSo(o.request, row', version', then)
  BY <1>6 DEF StillSo
<1>8. QED
  BY <1>1, <1>4, <1>7 DEF PastOK

(* A confirmation that was just opened shows the present.                  *)
LEMMA PresentOK ==
    ASSUME Inv, NEW o, NEW r \in Record, r = o.request.record, row[r].there,
           o.facts = Facts(r), o.seen = Shown(r)
    PROVE  PastOK(o, row, version)
<1>1. row \in [Record -> Row] /\ TreeOK(row) /\ Keeps(row, row)
  BY DEF Inv, TypeOK, Keeps
<1>2. r \in Matter => o.facts = MatterCounts(r)
  BY DEF Facts
<1>3. r \in Matter => /\ o.facts.hearings = Cardinality(Below(row, r) \cap Hearing)
                      /\ o.facts.tasks = Cardinality(Below(row, r) \cap Work)
                      /\ o.facts.steps = Cardinality(Below(row, r) \cap Step)
  BY <1>2 DEF MatterCounts
<1>4. r \notin Matter => o.facts.caseNumber = CaseNumber(r)
  BY DEF Facts, HearingFacts, AdminFacts
<1>5. r \in Step => o.facts.requiredWork = row[row[r].parent].text
  BY KindsAssumption DEF Facts, AdminFacts, WorkOf
<1>6. ShownThen(r, o.facts, o.seen, row)
  BY <1>3, <1>4, <1>5 DEF ShownThen, Shown, CaseNumber
<1>7. StillSo(o.request, row, version, row)
  BY DEF StillSo
<1>8. QED
  BY <1>1, <1>6, <1>7 DEF PastOK

(* A confirmation was open before, as it is, or is opened by this step.    *)
LEMMA ConfirmationOrigin ==
    ASSUME Inv, [Next]_vars, NEW g \in Form, Confirming(g)'
    PROVE  \/ /\ Confirming(g)
              /\ form'[g].request = form[g].request
              /\ form'[g].seen = form[g].seen
              /\ form'[g].facts = form[g].facts
           \/ /\ row' = row /\ version' = version
              /\ form'[g].request.record \in Record
              /\ row[form'[g].request.record].there
              /\ form'[g].facts = Facts(form'[g].request.record)
              /\ form'[g].seen = Shown(form'[g].request.record)
<1> DEFINE Same == /\ Confirming(g)
                   /\ form'[g].request = form[g].request
                   /\ form'[g].seen = form[g].seen
                   /\ form'[g].facts = form[g].facts
<1>1. PagesOK(form)
  BY DEF Inv, TypeOK, PagesOK
<1>2. ASSUME form'[g] = form[g] PROVE Same
  BY <1>2 DEF Confirming, Pending
<1>3. ASSUME NEW f \in Form, Pending(f), NEW after, Answered(f, after),
             after \in {Spent, [form[f] EXCEPT !.status = "typing"]}
      PROVE  Same
  <2>1. /\ Pending(g) /\ OpenPage(form[g])
        /\ form'[g].request = form[g].request /\ form'[g].seen = form[g].seen
    BY <1>1, <1>3, AnswerLemma DEF Confirming
  <2>2. form'[g] # Spent
    BY DEF Confirming, Pending, Spent
  <2>3. CASE g # f
    BY <1>1, <1>2, <1>3, <2>3 DEF Answered, PagesOK
  <2>4. CASE g = f
    <3>1. \E st \in {"typing", "uncertain"} : form'[g] = [form[g] EXCEPT !.status = st]
      BY <1>1, <1>3, <2>2, <2>4 DEF Answered, PagesOK
    <3>2. form'[g].facts = form[g].facts
      BY <2>1, <3>1 DEF OpenPage
    <3>3. QED
      BY <2>1, <3>2 DEF Confirming
  <2>5. QED
    BY <2>3, <2>4
<1>4. ASSUME NEW f \in Form, NEW q, form[f] = Unused, Displayed(f, q),
             q.op \in Lifecycle => q.record \in Record /\ row[q.record].there,
             row' = row, version' = version
      PROVE  \/ Same
             \/ /\ row' = row /\ version' = version
                /\ form'[g].request.record \in Record
                /\ row[form'[g].request.record].there
                /\ form'[g].facts = Facts(form'[g].request.record)
                /\ form'[g].seen = Shown(form'[g].request.record)
  <2>1. CASE g # f
    BY <1>1, <1>2, <1>4, <2>1 DEF Displayed, PagesOK
  <2>2. CASE g = f
    <3>1. form'[g] = [status |-> "typing", request |-> q,
                      facts  |-> IF q.op \in Lifecycle THEN Facts(q.record) ELSE None,
                      seen   |-> IF q.op = "create" THEN None ELSE Shown(q.record)]
      BY <1>1, <1>4, <2>2 DEF Displayed, PagesOK
    <3>2. /\ form'[g].request = q
          /\ form'[g].facts = IF q.op \in Lifecycle THEN Facts(q.record) ELSE None
          /\ form'[g].seen = IF q.op = "create" THEN None ELSE Shown(q.record)
      BY <3>1
    <3>3. q.op \in Lifecycle /\ q.op # "create"
      BY <3>2 DEF Confirming, Lifecycle
    <3>4. QED
      BY <1>4, <3>2, <3>3
  <2>3. QED
    BY <2>1, <2>2
<1>5. ASSUME NEW f \in Form, OpenNew(f) \/ OpenEdit(f) \/ OpenLifecycle(f)
      PROVE  \E q : /\ form[f] = Unused /\ Displayed(f, q)
                    /\ q.op \in Lifecycle => q.record \in Record /\ row[q.record].there
                    /\ row' = row /\ version' = version
  <2>1. CASE OpenNew(f)
    BY <2>1 DEF OpenNew, Lifecycle
  <2>2. CASE OpenEdit(f)
    BY <2>2 DEF OpenEdit, Lifecycle
  <2>3. CASE OpenLifecycle(f)
    BY <2>3, KindLemma DEF OpenLifecycle
  <2>4. QED
    BY <1>5, <2>1, <2>2, <2>3
<1>6. ASSUME NEW f \in Form, Retype(f) PROVE Same
  <2>1. PICK t \in Text :
          /\ form[f].status = "typing" /\ form[f].request.op \in {"create", "edit"}
          /\ form' = [form EXCEPT ![f].request.text = t]
    BY <1>6 DEF Retype
  <2>2. CASE g # f
    BY <1>1, <1>2, <2>1, <2>2 DEF PagesOK
  <2>3. CASE g = f
    <3>1. OpenPage(form[f])
      BY <1>1, <2>1, PendingLemma DEF Pending
    <3>2. form'[g].request.op = form[f].request.op
      BY <1>1, <2>1, <2>3, <3>1 DEF PagesOK, OpenPage, RequestType
    <3>3. QED
      BY <2>1, <3>2 DEF Confirming, Lifecycle
  <2>4. QED
    BY <2>2, <2>3
<1>7. ASSUME NEW f \in Form, Fail(f) PROVE Same
  BY <1>3, <1>7 DEF Fail, Answered
<1>8. ASSUME NEW f \in Form, NEW a \in Actor, Acknowledge(f, a) \/ Refuse(f, a) PROVE Same
  BY <1>3, <1>8 DEF Acknowledge, Refuse
<1>9. ASSUME NEW f \in Form, NEW a \in Actor,
             SaveNew(f, a) \/ SaveEdit(f, a) \/ SaveLifecycle(f, a)
      PROVE  Same
  BY <1>3, <1>9 DEF SaveNew, SaveEdit, SaveLifecycle, Commit
<1>10. UNCHANGED vars => Same
  BY <1>2 DEF vars
<1>11. QED
  BY <1>4, <1>5, <1>6, <1>7, <1>8, <1>9, <1>10 DEF Next

LEMMA ConfirmationsKept ==
    ASSUME Inv, ConfirmationsOK, [Next]_vars
    PROVE  ConfirmationsOK'
<1>. SUFFICES ASSUME NEW g \in Form, Confirming(g)'
              PROVE  PastOK(form'[g], row', version')
  BY DEF ConfirmationsOK
<1>1. CASE /\ Confirming(g)
           /\ form'[g].request = form[g].request
           /\ form'[g].seen = form[g].seen
           /\ form'[g].facts = form[g].facts
  <2>1. PastOK(form[g], row', version')
    BY <1>1, PastKept DEF ConfirmationsOK
  <2>2. QED
    BY <1>1, <2>1 DEF PastOK
<1>2. CASE /\ row' = row /\ version' = version
           /\ form'[g].request.record \in Record
           /\ row[form'[g].request.record].there
           /\ form'[g].facts = Facts(form'[g].request.record)
           /\ form'[g].seen = Shown(form'[g].request.record)
  BY <1>2, PresentOK
<1>3. QED
  BY <1>1, <1>2, ConfirmationOrigin

(* Whoever archives or restores a record was shown what it applies to:     *)
(* the numbers that are sent back suffice, because records are never       *)
(* deleted or moved, and the version covers the rest: ConfirmationHolds.   *)
THEOREM CaseFileConfirmationsHold == Spec => ConfirmationHolds
<1>1. ASSUME Inv, ConfirmationsOK, [Next]_vars, NEW f \in Form, NEW e \in Saved(f),
             e.request.op \in Lifecycle
      PROVE  Shown(e.request.record) = form[f].seen
  <2>1. PICK a \in Actor : /\ SaveNew(f, a) \/ SaveEdit(f, a) \/ SaveLifecycle(f, a)
                           /\ e.request = form[f].request
    BY <1>1, SavedLemma
  <2>2. SaveLifecycle(f, a)
    BY <1>1, <2>1 DEF SaveNew, SaveEdit, Lifecycle
  <2>3. /\ Confirming(f) /\ Fresh(form[f].request)
        /\ form[f].facts = Facts(form[f].request.record)
    BY <2>2 DEF SaveLifecycle, Saves, Accepted, Confirmed, Confirming
  <2>4. /\ RootOf(form[f].request) \in Root
        /\ form[f].request.record \in Record
        /\ row[form[f].request.record].there
    BY <1>1, <2>3, RecordFacts DEF Confirming, Lifecycle
  <2>5. RootOf(form[f].request) # None
    BY <2>4, KindsAssumption DEF Root, Record
  <2>6. form[f].request.version = version[RootOf(form[f].request)]
    BY <2>3, <2>5 DEF Fresh
  <2>7. PastOK(form[f], row, version)
    BY <1>1, <2>3 DEF ConfirmationsOK
  <2>8. QED
    BY <1>1, <2>1, <2>3, <2>4, <2>6, <2>7, ConfirmedIsShown DEF PastOK
<1>2. Init => Inv /\ ConfirmationsOK
  BY InitInv DEF Init, ConfirmationsOK, Confirming, Pending, Unused
<1>3. Inv /\ ConfirmationsOK /\ [Next]_vars => (Inv /\ ConfirmationsOK)'
  BY NextInv, ConfirmationsKept
<1>4. Inv /\ ConfirmationsOK /\ [Next]_vars =>
        [\A f \in Form : \A e \in Saved(f) : e.request.op \in Lifecycle =>
            Shown(e.request.record) = form[f].seen]_vars
  BY <1>1
<1>5. QED
  BY <1>2, <1>3, <1>4, PTL DEF Spec, ConfirmationHolds
=============================================================================
