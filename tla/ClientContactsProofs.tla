------------------------ MODULE ClientContactsProofs ------------------------
(* The gateways implement the guard of the database, whatever the pages    *)
(* and the people behind them do, and the versions of the rows are enough  *)
(* to tell a page that was overtaken and a form that was applied already.  *)
EXTENDS ClientContacts, TLAPS

USE ActorAssumption, NoneAssumption, TablesAreApart, RowsAssumption

Fits(table, id, row) ==
    IF table = "clients" THEN id \in Client /\ row \in Family!ClientRow
    ELSE id \in Contact /\ row \in Family!ContactRow

(* An open form shows a row that is there, of the table it says, and a     *)
(* contact below its client.                                               *)
FormSound(q) ==
    /\ q.operation = "create" <=> q.id = None
    /\ q.operation = "create" <=> q.shown = None
    /\ q.id # None => Fits(q.table, q.id, q.shown) /\ Row(q.table, q.id) # None
    /\ q.table = "contacts" =>
         /\ q.parent \in Client /\ client[q.parent] # None
         /\ q.id # None => contact[q.id].owner = q.parent

(* A page that was not overtaken displays the row as it is.                *)
VersionsTell(q) ==
    q.id # None =>
       /\ Row(q.table, q.id).version >= q.shown.version
       /\ Row(q.table, q.id).version = q.shown.version => Row(q.table, q.id) = q.shown

FormsSound == \A f \in Form : Open(f) => FormSound(form[f]) /\ VersionsTell(form[f])

(* What a form did shows in the version of its row, or in a receipt.       *)
EventTold(e) ==
    /\ form[e.form] # Unused
    /\ Open(e.form) /\ form[e.form].operation # "create" =>
         Row(form[e.form].table, form[e.form].id).version > form[e.form].shown.version
    /\ Open(e.form) /\ form[e.form].operation = "create" =>
         e.version = 1 /\ ReceiptsOf(e.actor, e.form) # {}

EventsTold == \A e \in event : EventTold(e)

OwnersThere ==
    \A k \in Contact : Family!Exists(contact, k) => Family!Exists(client, contact[k].owner)

(* Rows only move forward: none goes, none changes without a new version,  *)
(* and no contact changes its client.                                      *)
Forward ==
    /\ \A c \in Client : client[c] # None =>
         client'[c] # None /\ (client'[c] = client[c] \/ client'[c].version > client[c].version)
    /\ \A k \in Contact : contact[k] # None =>
         /\ contact'[k] # None /\ contact'[k].owner = contact[k].owner
         /\ contact'[k] = contact[k] \/ contact'[k].version > contact[k].version

IInv ==
    TypeOK /\ FormsSound /\ EventsTold /\ OwnersThere /\ MainContactSound /\ OneEffectPerForm

-----------------------------------------------------------------------------
(* The two kinds of rows, field by field.                                  *)
LEMMA RowFields ==
    /\ \A r \in Family!ClientRow :
          /\ r.text \in Text /\ r.main \in Contact \cup {None}
          /\ r.archived \in BOOLEAN /\ r.version \in Nat /\ r.version > 0 /\ r # None
    /\ \A r \in Family!ContactRow :
          /\ r.owner \in Client /\ r.text \in Text
          /\ r.archived \in BOOLEAN /\ r.version \in Nat /\ r.version > 0 /\ r # None
  BY DEF Family!ClientRow, Family!ContactRow

(* The tables hold rows.                                                   *)
LEMMA TableFields ==
    ASSUME TypeOK
    PROVE  /\ \A c \in Client : client[c] # None => client[c] \in Family!ClientRow
           /\ \A k \in Contact : contact[k] # None => contact[k] \in Family!ContactRow
           /\ DOMAIN client = Client /\ DOMAIN contact = Contact
  BY DEF TypeOK, Family!TypeOK

(* An open form is a page.                                                 *)
LEMMA PageFields ==
    ASSUME TypeOK, NEW f \in Form, Open(f)
    PROVE  /\ form[f] \in Page
           /\ form[f].table \in Table /\ form[f].operation \in Operation
           /\ form[f].id \in Identity \cup {None} /\ form[f].parent \in Client \cup {None}
  BY DEF TypeOK, Open, Page

(* A page is an open form.                                                 *)
LEMMA PagesAreOpen ==
    ASSUME NEW q \in Page PROVE q # Unused /\ q # Closed
  <1>1. q.operation \in Operation BY DEF Page
  <1>2. Unused.operation = "unused" /\ Closed.operation = "closed" BY DEF Unused, Closed
  <1>3. QED BY <1>1, <1>2 DEF Operation

(* What a creation stores is the first version of a row that was not there.*)
LEMMA CreateFacts ==
    ASSUME IInv, NEW f \in Form, Create(f)
    PROVE  \E a \in Actor, i \in Input, id \in Identity :
              LET q == form[f]
                  row == Created(q, i)
              IN  /\ Open(f) /\ q.operation = "create"
                  /\ Fits(q.table, id, row) /\ row.version = 1
                  /\ ~row.archived
                  /\ q.table = "clients" => row.main = None
                  /\ q.table = "contacts" => row.owner = q.parent /\ ~client[q.parent].archived
                  /\ Row(q.table, id) = None
                  /\ ReceiptsOf(a, f) = {}
                  /\ Store(a, f, id, row)
                  /\ receipt' = receipt \cup {[actor |-> a, form |-> f, input |-> i, id |-> id]}
                  /\ Answered(f)
  <1>1. PICK a \in Actor, i \in Input, id \in Identity :
            /\ Open(f) /\ form[f].operation = "create" /\ i.main = None
            /\ CreateAccepted(a, f)
            /\ id \in (IF form[f].table = "clients" THEN Client ELSE Contact)
            /\ ~Family!Exists(IF form[f].table = "clients" THEN client ELSE contact, id)
            /\ Store(a, f, id, Created(form[f], i))
            /\ receipt' = receipt \cup {[actor |-> a, form |-> f, input |-> i, id |-> id]}
            /\ Answered(f)
    BY DEF Create
  <1> DEFINE q == form[f]
             row == Created(q, i)
  <1>2. q \in Page /\ q.table \in Table /\ FormSound(q)
    BY <1>1, PageFields DEF IInv, FormsSound
  <1>3. i.text \in Text
    BY DEF Input
  <1>4. CASE q.table = "clients"
    <2>1. row = [text |-> i.text, main |-> None, archived |-> FALSE, version |-> 1]
      BY <1>4 DEF Created
    <2>2. row \in Family!ClientRow
      BY <2>1, <1>3 DEF Family!ClientRow
    <2>3. QED
      BY <1>1, <1>4, <2>1, <2>2 DEF Fits, Row, Family!Exists, CreateAccepted
  <1>5. CASE q.table = "contacts"
    <2>1. row = [owner |-> q.parent, text |-> i.text, archived |-> FALSE, version |-> 1]
      BY <1>5 DEF Created
    <2>2. q.parent \in Client /\ ~client[q.parent].archived
      BY <1>1, <1>2, <1>5 DEF FormSound, CreateAccepted, Admitted, ParentOpen
    <2>3. row \in Family!ContactRow
      BY <2>1, <2>2, <1>3 DEF Family!ContactRow
    <2>4. QED
      BY <1>1, <1>5, <2>1, <2>2, <2>3 DEF Fits, Row, Family!Exists, CreateAccepted
  <1>6. QED
    BY <1>2, <1>4, <1>5 DEF Table

(* The row a change of a page starts from.                                 *)
LEMMA ChangedRow ==
    ASSUME IInv, NEW f \in Form, Open(f), form[f].operation # "create"
    PROVE  LET q == form[f]
               old == Row(q.table, q.id)
           IN  /\ q \in Page /\ q.table \in Table /\ q.id # None
               /\ q.operation \in {"update", "archive", "restore"}
               /\ Fits(q.table, q.id, old) /\ old # None
               /\ q.shown # None /\ q.shown.version \in Nat /\ old.version \in Nat
               /\ q.table = "contacts" => old.owner = q.parent /\ q.parent \in Client
  <1>1. form[f] \in Page /\ form[f].table \in Table /\ FormSound(form[f])
    BY PageFields DEF IInv, FormsSound
  <1>2. form[f].operation \in {"update", "archive", "restore"}
    BY PageFields DEF IInv, Operation
  <1>3. QED
    BY <1>1, <1>2, TableFields, RowFields DEF IInv, FormSound, Fits, Row, Table

(* What a change stores is a next version that the guard admits.           *)
LEMMA ChangeFacts ==
    ASSUME IInv, NEW f \in Form, Change(f)
    PROVE  \E a \in Actor, i \in Input :
              LET q == form[f]
                  old == Row(q.table, q.id)
                  new == [Changed(q, i) EXCEPT !.version = @ + 1]
              IN  /\ Open(f) /\ q.operation # "create"
                  /\ old.version = q.shown.version
                  /\ Answered(f) /\ receipt' = receipt
                  /\ \/ UNCHANGED <<client, contact, event>>
                     \/ /\ Fits(q.table, q.id, new) /\ new.version = old.version + 1
                        /\ old.archived => ~new.archived
                        /\ new.archived # old.archived =>
                             new = [old EXCEPT !.archived = ~@, !.version = @ + 1]
                        /\ q.table = "clients" => Family!Selectable(q.id, new.main)
                        /\ q.table = "contacts" =>
                             /\ new.owner = old.owner /\ ~client[q.parent].archived
                             /\ Family!NotMain(q.id, new)
                        /\ Store(a, f, q.id, new)
  <1> DEFINE q == form[f]
             old == Row(q.table, q.id)
  <1>1. PICK a \in Actor, i \in Input :
            /\ Open(f) /\ q.operation # "create" /\ Admitted(a, q)
            /\ IF Changed(q, i) = old THEN UNCHANGED <<client, contact, event>>
               ELSE Guarded(q, i) /\ Store(a, f, q.id, [Changed(q, i) EXCEPT !.version = @ + 1])
            /\ Answered(f) /\ receipt' = receipt
    BY DEF Change
  <1> DEFINE base == Changed(q, i)
             new == [base EXCEPT !.version = @ + 1]
  <1>2. /\ q.table \in Table /\ q.id # None /\ q.operation \in {"update", "archive", "restore"}
        /\ Fits(q.table, q.id, old) /\ q.shown # None
        /\ q.table = "contacts" => old.owner = q.parent /\ q.parent \in Client
    BY <1>1, ChangedRow
  <1>3. old.version = q.shown.version
    BY <1>1, <1>2 DEF Admitted, Fresh
  <1>4. i.text \in Text /\ i.main \in Contact \cup {None}
    BY DEF Input
  <1>5. SUFFICES ASSUME base # old, Guarded(q, i)
                 PROVE  /\ Fits(q.table, q.id, new) /\ new.version = old.version + 1
                        /\ old.archived => ~new.archived
                        /\ new.archived # old.archived =>
                             new = [old EXCEPT !.archived = ~@, !.version = @ + 1]
                        /\ q.table = "clients" => Family!Selectable(q.id, new.main)
                        /\ q.table = "contacts" =>
                             /\ new.owner = old.owner /\ ~client[q.parent].archived
                             /\ Family!NotMain(q.id, new)
    BY <1>1, <1>3
  <1>6. q.operation = "update" => ~old.archived
    BY <1>1 DEF Admitted
  <1>7. CASE q.table = "clients"
    <2>1. old \in Family!ClientRow /\ q.id \in Client
      BY <1>2, <1>7 DEF Fits
    <2>2. /\ base = IF q.operation = "archive" THEN [old EXCEPT !.archived = TRUE]
                    ELSE IF q.operation = "restore" THEN [old EXCEPT !.archived = FALSE]
                    ELSE [old EXCEPT !.text = i.text, !.main = i.main]
      BY <1>7 DEF Changed
    <2>3. base \in Family!ClientRow /\ base.version = old.version
      BY <2>1, <2>2, <1>4 DEF Family!ClientRow
    <2>4. new \in Family!ClientRow /\ new.version = old.version + 1
          /\ new.main = base.main /\ new.archived = base.archived
      BY <2>1, <2>3 DEF Family!ClientRow
    <2>5. old.archived => ~new.archived
      <3>1. CASE q.operation = "archive"
        <4>1. old.archived => base = old
          BY <2>1, <2>2, <3>1 DEF Family!ClientRow
        <4>2. QED BY <4>1, <1>5
      <3>2. CASE q.operation = "restore"
        BY <2>1, <2>2, <2>4, <3>2 DEF Family!ClientRow
      <3>3. QED BY <1>2, <1>6, <3>1, <3>2
    <2>6. new.archived # old.archived => new = [old EXCEPT !.archived = ~@, !.version = @ + 1]
      BY <2>1, <2>2, <2>4, <1>2 DEF Family!ClientRow
    <2>7. Family!Selectable(q.id, new.main)
      BY <2>4, <1>1, <1>5, <1>7 DEF Guarded
    <2>8. QED
      BY <1>7, <2>1, <2>4, <2>5, <2>6, <2>7 DEF Fits
  <1>8. CASE q.table = "contacts"
    <2>1. old \in Family!ContactRow /\ q.id \in Contact
      BY <1>2, <1>8 DEF Fits
    <2>2. /\ base = IF q.operation = "archive" THEN [old EXCEPT !.archived = TRUE]
                    ELSE IF q.operation = "restore" THEN [old EXCEPT !.archived = FALSE]
                    ELSE [old EXCEPT !.text = i.text]
      BY <1>8 DEF Changed
    <2>3. base \in Family!ContactRow /\ base.version = old.version /\ base.owner = old.owner
      BY <2>1, <2>2, <1>4 DEF Family!ContactRow
    <2>4. new \in Family!ContactRow /\ new.version = old.version + 1
          /\ new.owner = base.owner /\ new.archived = base.archived
      BY <2>1, <2>3 DEF Family!ContactRow
    <2>5. old.archived => ~new.archived
      <3>1. CASE q.operation = "archive"
        <4>1. old.archived => base = old
          BY <2>1, <2>2, <3>1 DEF Family!ContactRow
        <4>2. QED BY <4>1, <1>5
      <3>2. CASE q.operation = "restore"
        BY <2>1, <2>2, <2>4, <3>2 DEF Family!ContactRow
      <3>3. QED BY <1>2, <1>6, <3>1, <3>2
    <2>6. new.archived # old.archived => new = [old EXCEPT !.archived = ~@, !.version = @ + 1]
      BY <2>1, <2>2, <2>4, <1>2 DEF Family!ContactRow
    <2>7. Family!NotMain(q.id, new)
      BY <2>4, <1>1, <1>5, <1>8 DEF Guarded, Family!NotMain
    <2>8. ~client[q.parent].archived
      BY <1>1, <1>8 DEF Admitted, ParentOpen
    <2>9. QED
      BY <1>8, <2>1, <2>3, <2>4, <2>5, <2>6, <2>7, <2>8 DEF Fits
  <1>9. QED
    BY <1>2, <1>7, <1>8 DEF Table

(* Storing a row that fits changes that row and no other.                  *)
LEMMA Stored ==
    ASSUME TypeOK, NEW a, NEW f, NEW id, NEW row, NEW table \in Table,
           form[f].table = table, Fits(table, id, row), Store(a, f, id, row)
    PROVE  /\ Family!TypeOK'
           /\ table = "clients" =>
                /\ id \in Client /\ row \in Family!ClientRow /\ client'[id] = row
                /\ client' = [client EXCEPT ![id] = row] /\ contact' = contact
                /\ \A c \in Client : c # id => client'[c] = client[c]
           /\ table = "contacts" =>
                /\ id \in Contact /\ row \in Family!ContactRow /\ contact'[id] = row
                /\ contact' = [contact EXCEPT ![id] = row] /\ client' = client
                /\ \A k \in Contact : k # id => contact'[k] = contact[k]
           /\ event' = event \cup {[form |-> f, actor |-> a, id |-> id, version |-> row.version]}
  <1>1. /\ client \in [Client -> Family!ClientRow \cup {None}]
        /\ contact \in [Contact -> Family!ContactRow \cup {None}]
    BY DEF TypeOK, Family!TypeOK
  <1>2. CASE table = "clients"
    BY <1>1, <1>2 DEF Store, Fits, Family!TypeOK
  <1>3. CASE table = "contacts"
    BY <1>1, <1>3 DEF Store, Fits, Family!TypeOK
  <1>4. QED
    BY <1>2, <1>3 DEF Table

-----------------------------------------------------------------------------
(* Every creation is an insertion the guard admits.                        *)
LEMMA CreateRefines ==
    ASSUME IInv, NEW f \in Form, Create(f)
    PROVE  Family!Next
  <1>1. PICK a \in Actor, i \in Input, id \in Identity :
            LET q == form[f]
                row == Created(q, i)
            IN  /\ Open(f) /\ q.operation = "create"
                /\ Fits(q.table, id, row) /\ row.version = 1 /\ ~row.archived
                /\ q.table = "clients" => row.main = None
                /\ q.table = "contacts" => row.owner = q.parent /\ ~client[q.parent].archived
                /\ Row(q.table, id) = None
                /\ Store(a, f, id, row)
    BY CreateFacts
  <1> DEFINE q == form[f]
             row == Created(q, i)
  <1>2. q.table \in Table /\ FormSound(q) /\ TypeOK
    BY <1>1, PageFields DEF IInv, FormsSound
  <1>3. CASE q.table = "clients"
    <2>1. /\ id \in Client /\ row \in Family!ClientRow /\ client'[id] = row
          /\ client' = [client EXCEPT ![id] = row] /\ contact' = contact
      BY <1>1, <1>2, <1>3, Stored
    <2>2. Family!InsertClient(id, client'[id])
      BY <1>1, <1>3, <2>1 DEF Family!InsertClient, Family!Exists, Family!Selectable, Row
    <2>3. QED
      BY <2>1, <2>2 DEF Family!Next
  <1>4. CASE q.table = "contacts"
    <2>1. /\ id \in Contact /\ row \in Family!ContactRow /\ contact'[id] = row
          /\ contact' = [contact EXCEPT ![id] = row] /\ client' = client
      BY <1>1, <1>2, <1>4, Stored
    <2>2. Family!OpenClient(row.owner)
      BY <1>1, <1>2, <1>4 DEF FormSound, Family!OpenClient, Family!Exists
    <2>3. Family!InsertContact(id, contact'[id])
      BY <1>1, <1>4, <2>1, <2>2 DEF Family!InsertContact, Family!Exists, Row
    <2>4. QED
      BY <2>1, <2>3 DEF Family!Next
  <1>5. QED
    BY <1>2, <1>3, <1>4 DEF Table

(* Every change is an update the guard admits, or changes no row.          *)
LEMMA ChangeRefines ==
    ASSUME IInv, NEW f \in Form, Change(f)
    PROVE  Family!Next \/ UNCHANGED <<client, contact>>
  <1> DEFINE q == form[f]
             old == Row(q.table, q.id)
  <1>1. PICK a \in Actor, i \in Input :
            LET new == [Changed(q, i) EXCEPT !.version = @ + 1]
            IN  /\ Open(f) /\ q.operation # "create"
                /\ \/ UNCHANGED <<client, contact, event>>
                   \/ /\ Fits(q.table, q.id, new) /\ new.version = old.version + 1
                      /\ old.archived => ~new.archived
                      /\ new.archived # old.archived =>
                           new = [old EXCEPT !.archived = ~@, !.version = @ + 1]
                      /\ q.table = "clients" => Family!Selectable(q.id, new.main)
                      /\ q.table = "contacts" =>
                           /\ new.owner = old.owner /\ ~client[q.parent].archived
                           /\ Family!NotMain(q.id, new)
                      /\ Store(a, f, q.id, new)
    BY ChangeFacts
  <1> DEFINE new == [Changed(q, i) EXCEPT !.version = @ + 1]
  <1>2. /\ q.table \in Table /\ Fits(q.table, q.id, old) /\ old # None /\ FormSound(q)
        /\ old.version \in Nat /\ TypeOK /\ q.id # None
        /\ q.table = "contacts" => old.owner = q.parent
    BY <1>1, ChangedRow DEF IInv, FormsSound
  <1> HIDE DEF new
  <1>3. SUFFICES ASSUME /\ Fits(q.table, q.id, new) /\ new.version = old.version + 1
                        /\ old.archived => ~new.archived
                        /\ new.archived # old.archived =>
                             new = [old EXCEPT !.archived = ~@, !.version = @ + 1]
                        /\ q.table = "clients" => Family!Selectable(q.id, new.main)
                        /\ q.table = "contacts" =>
                             /\ new.owner = old.owner /\ ~client[q.parent].archived
                             /\ Family!NotMain(q.id, new)
                        /\ Store(a, f, q.id, new)
                 PROVE  Family!Next
    BY <1>1 DEF new
  <1>4. new # old
    BY <1>2, <1>3
  <1>5. CASE q.table = "clients"
    <2>1. /\ q.id \in Client /\ new \in Family!ClientRow /\ client'[q.id] = new
          /\ client' = [client EXCEPT ![q.id] = new] /\ contact' = contact
      BY <1>2, <1>3, <1>5, Stored
    <2>2. old = client[q.id]
      BY <1>5 DEF Row
    <2>3. Family!UpdateClient(q.id, client'[q.id])
      BY <1>2, <1>3, <1>4, <1>5, <2>1, <2>2
         DEF Family!UpdateClient, Family!Exists, Family!NextVersion, Family!Lifecycle
    <2>4. QED
      BY <2>1, <2>3 DEF Family!Next
  <1>6. CASE q.table = "contacts"
    <2>1. /\ q.id \in Contact /\ new \in Family!ContactRow /\ contact'[q.id] = new
          /\ contact' = [contact EXCEPT ![q.id] = new] /\ client' = client
      BY <1>2, <1>3, <1>6, Stored
    <2>2. old = contact[q.id]
      BY <1>6 DEF Row
    <2>3. Family!OpenClient(new.owner)
      BY <1>2, <1>3, <1>6 DEF FormSound, Family!OpenClient, Family!Exists
    <2>4. Family!UpdateContact(q.id, contact'[q.id])
      BY <1>2, <1>3, <1>4, <1>6, <2>1, <2>2, <2>3
         DEF Family!UpdateContact, Family!Exists, Family!NextVersion, Family!Lifecycle
    <2>5. QED
      BY <2>1, <2>4 DEF Family!Next
  <1>7. QED
    BY <1>2, <1>5, <1>6 DEF Table

(* Nothing else writes the tables.                                         *)
LEMMA StepRefines ==
    ASSUME IInv, [Next]_vars
    PROVE  [Family!Next]_<<client, contact>>
  <1>1. CASE UNCHANGED vars
    BY <1>1 DEF vars
  <1>2. ASSUME NEW f \in Form, Create(f) PROVE Family!Next
    BY <1>2, CreateRefines
  <1>3. ASSUME NEW f \in Form, Change(f) PROVE Family!Next \/ UNCHANGED <<client, contact>>
    BY <1>3, ChangeRefines
  <1>4. ASSUME NEW f \in Form, OpenClientForm(f) \/ OpenContactForm(f) \/ Replay(f) \/ Leave(f)
        PROVE  UNCHANGED <<client, contact>>
    BY <1>4 DEF OpenClientForm, OpenContactForm, Display, Replay, Leave
  <1>5. QED
    BY <1>1, <1>2, <1>3, <1>4 DEF Next

-----------------------------------------------------------------------------
(* What the guard alone keeps of families, whoever writes.                 *)
LEMMA GuardKeeps ==
    ASSUME Family!TypeOK, OwnersThere, MainContactSound, [Family!Next]_<<client, contact>>
    PROVE  Family!TypeOK' /\ OwnersThere' /\ MainContactSound' /\ Forward
  <1>1. /\ client \in [Client -> Family!ClientRow \cup {None}]
        /\ contact \in [Contact -> Family!ContactRow \cup {None}]
    BY DEF Family!TypeOK
  <1>2. /\ \A k \in Contact : contact[k] # None => contact[k].owner \in Client /\ client[contact[k].owner] # None
        /\ \A c \in Client : client[c] # None /\ client[c].main # None =>
             LET k == client[c].main
             IN  k \in Contact /\ contact[k] # None /\ contact[k].owner = c /\ ~contact[k].archived
    BY <1>1, RowFields DEF OwnersThere, MainContactSound, Family!MainContactSound,
       Family!Selectable, Family!Exists
  <1>3. CASE UNCHANGED <<client, contact>>
    BY <1>3 DEF Family!TypeOK, OwnersThere, MainContactSound, Family!MainContactSound,
       Family!Selectable, Family!Exists, Forward
  <1>4. ASSUME NEW c \in Client, Family!InsertClient(c, client'[c]) \/ Family!UpdateClient(c, client'[c])
        PROVE  Family!TypeOK' /\ OwnersThere' /\ MainContactSound' /\ Forward
    <2>1. /\ client'[c] \in Family!ClientRow /\ contact' = contact
          /\ client' = [client EXCEPT ![c] = client'[c]]
          /\ Family!Selectable(c, client'[c].main)
          /\ client[c] # None => client'[c].version = client[c].version + 1
      BY <1>4 DEF Family!InsertClient, Family!UpdateClient, Family!NextVersion, Family!Exists
    <2>2. \A d \in Client : d # c => client'[d] = client[d]
      BY <1>1, <2>1
    <2>3. Family!TypeOK'
      BY <1>1, <2>1, <2>2 DEF Family!TypeOK
    <2>4. client'[c] # None /\ (client[c] # None => client[c].version \in Nat)
      BY <1>1, <2>1, RowFields
    <2>5. OwnersThere'
      BY <1>2, <2>1, <2>2, <2>4 DEF OwnersThere, Family!Exists
    <2>6. MainContactSound'
      BY <1>2, <2>1, <2>2 DEF MainContactSound, Family!MainContactSound, Family!Selectable, Family!Exists
    <2>7. Forward
      BY <2>1, <2>2, <2>4 DEF Forward
    <2>8. QED
      BY <2>3, <2>5, <2>6, <2>7
  <1>5. ASSUME NEW k \in Contact, Family!InsertContact(k, contact'[k]) \/ Family!UpdateContact(k, contact'[k])
        PROVE  Family!TypeOK' /\ OwnersThere' /\ MainContactSound' /\ Forward
    <2>1. /\ contact'[k] \in Family!ContactRow /\ client' = client
          /\ contact' = [contact EXCEPT ![k] = contact'[k]]
          /\ client[contact'[k].owner] # None
          /\ contact[k] # None =>
               /\ contact'[k].version = contact[k].version + 1 /\ contact'[k].owner = contact[k].owner
               /\ contact'[k].archived => client[contact'[k].owner].main # k
      BY <1>5 DEF Family!InsertContact, Family!UpdateContact, Family!NextVersion, Family!Exists,
         Family!OpenClient, Family!NotMain
    <2>2. \A l \in Contact : l # k => contact'[l] = contact[l]
      BY <1>1, <2>1
    <2>3. Family!TypeOK'
      BY <1>1, <2>1, <2>2 DEF Family!TypeOK
    <2>4. contact'[k] # None /\ (contact[k] # None => contact[k].version \in Nat)
      BY <1>1, <2>1, RowFields
    <2>5. OwnersThere'
      BY <1>2, <2>1, <2>2, <2>4 DEF OwnersThere, Family!Exists
    <2>6. MainContactSound'
      BY <1>2, <2>1, <2>2, <2>4 DEF MainContactSound, Family!MainContactSound, Family!Selectable, Family!Exists
    <2>7. Forward
      BY <2>1, <2>2, <2>4 DEF Forward
    <2>8. QED
      BY <2>3, <2>5, <2>6, <2>7
  <1>6. QED
    BY <1>3, <1>4, <1>5 DEF Family!Next

(* While a client is archived nothing below it is written.                 *)
LEMMA GuardFreezes ==
    ASSUME Family!TypeOK, [Family!Next]_<<client, contact>>,
           NEW c \in Client, client[c] # None, client[c].archived \/ client'[c].archived
    PROVE  /\ client'[c].main = client[c].main /\ client'[c].text = client[c].text
           /\ \A k \in Contact :
                 contact'[k] # None /\ contact'[k].owner = c => contact'[k] = contact[k]
  <1>1. /\ client \in [Client -> Family!ClientRow \cup {None}]
        /\ contact \in [Contact -> Family!ContactRow \cup {None}]
    BY DEF Family!TypeOK
  <1>2. CASE UNCHANGED <<client, contact>>
    BY <1>2
  <1>3. ASSUME NEW d \in Client, Family!InsertClient(d, client'[d])
        PROVE  client'[c] = client[c] /\ contact' = contact
    <2>1. d # c
      BY <1>3 DEF Family!InsertClient, Family!Exists
    <2>2. QED
      BY <1>1, <1>3, <2>1 DEF Family!InsertClient
  <1>4. ASSUME NEW d \in Client, Family!UpdateClient(d, client'[d])
        PROVE  client'[c].main = client[c].main /\ client'[c].text = client[c].text /\ contact' = contact
    <2>1. CASE d # c
      BY <1>1, <1>4, <2>1 DEF Family!UpdateClient
    <2>2. CASE d = c
      <3>1. /\ client[c].archived => ~client'[c].archived
            /\ client'[c].archived # client[c].archived =>
                 client'[c] = [client[c] EXCEPT !.archived = ~@, !.version = @ + 1]
            /\ contact' = contact /\ client'[c] \in Family!ClientRow
        BY <1>4, <2>2 DEF Family!UpdateClient, Family!Lifecycle
      <3>2. client[c] \in Family!ClientRow
        BY <1>1
      <3>3. client'[c] = [client[c] EXCEPT !.archived = ~@, !.version = @ + 1]
        BY <3>1, <3>2, RowFields
      <3>4. QED
        BY <3>1, <3>2, <3>3 DEF Family!ClientRow
    <2>3. QED
      BY <2>1, <2>2
  <1>5. ASSUME NEW k \in Contact, Family!InsertContact(k, contact'[k]) \/ Family!UpdateContact(k, contact'[k])
        PROVE  /\ client' = client
               /\ \A l \in Contact : contact'[l].owner = c => contact'[l] = contact[l]
    <2>1. /\ client' = client /\ contact' = [contact EXCEPT ![k] = contact'[k]]
          /\ ~client[contact'[k].owner].archived
      BY <1>5 DEF Family!InsertContact, Family!UpdateContact, Family!OpenClient
    <2>2. contact'[k].owner # c
      BY <2>1
    <2>3. QED
      BY <1>1, <2>1, <2>2
  <1>6. QED
    BY <1>2, <1>3, <1>4, <1>5 DEF Family!Next

-----------------------------------------------------------------------------
(* A form that stays open stays sound, whatever happens to the rows.       *)
LEMMA KeptFormSound ==
    ASSUME IInv, Forward, Family!TypeOK', NEW f \in Form, Open(f), form'[f] = form[f]
    PROVE  FormSound(form[f])' /\ VersionsTell(form[f])'
  <1> DEFINE q == form[f]
  <1>1. q \in Page /\ q.table \in Table /\ FormSound(q) /\ VersionsTell(q)
    BY PageFields DEF IInv, FormsSound
  <1>2. q.table = "contacts" => q.parent \in Client /\ client'[q.parent] # None
    BY <1>1 DEF FormSound, Forward
  <1>3. SUFFICES ASSUME q.id # None
                 PROVE  /\ Row(q.table, q.id)' # None
                        /\ q.table = "contacts" => contact'[q.id].owner = q.parent
                        /\ Row(q.table, q.id)'.version >= q.shown.version
                        /\ Row(q.table, q.id)'.version = q.shown.version => Row(q.table, q.id)' = q.shown
    BY <1>1, <1>2 DEF FormSound, VersionsTell, Fits, Row
  <1>4. CASE q.table = "clients"
    <2>1. /\ q.id \in Client /\ client[q.id] # None /\ q.shown \in Family!ClientRow
          /\ client[q.id].version >= q.shown.version
          /\ client[q.id].version = q.shown.version => client[q.id] = q.shown
      BY <1>1, <1>3, <1>4 DEF FormSound, VersionsTell, Fits, Row
    <2>2. client'[q.id] # None /\ (client'[q.id] = client[q.id] \/ client'[q.id].version > client[q.id].version)
      BY <2>1 DEF Forward
    <2>3. client[q.id].version \in Nat /\ client'[q.id].version \in Nat /\ q.shown.version \in Nat
      BY <2>1, <2>2, RowFields, TableFields DEF IInv, Family!TypeOK
    <2>4. client'[q.id].version >= q.shown.version /\
          (client'[q.id].version = q.shown.version => client'[q.id] = q.shown)
      BY <2>1, <2>2, <2>3
    <2>5. QED
      BY <2>2, <2>4, <1>4 DEF Row
  <1>5. CASE q.table = "contacts"
    <2>1. /\ q.id \in Contact /\ contact[q.id] # None /\ q.shown \in Family!ContactRow
          /\ contact[q.id].owner = q.parent
          /\ contact[q.id].version >= q.shown.version
          /\ contact[q.id].version = q.shown.version => contact[q.id] = q.shown
      BY <1>1, <1>3, <1>5 DEF FormSound, VersionsTell, Fits, Row
    <2>2. /\ contact'[q.id] # None /\ contact'[q.id].owner = q.parent
          /\ contact'[q.id] = contact[q.id] \/ contact'[q.id].version > contact[q.id].version
      BY <2>1 DEF Forward
    <2>3. contact[q.id].version \in Nat /\ contact'[q.id].version \in Nat /\ q.shown.version \in Nat
      BY <2>1, <2>2, RowFields, TableFields DEF IInv, Family!TypeOK
    <2>4. contact'[q.id].version >= q.shown.version /\
          (contact'[q.id].version = q.shown.version => contact'[q.id] = q.shown)
      BY <2>1, <2>2, <2>3
    <2>5. QED
      BY <2>2, <2>4, <1>5 DEF Row
  <1>6. QED
    BY <1>1, <1>4, <1>5 DEF Table

(* Versions of the row an open form is about never go back.                *)
LEMMA KeptVersion ==
    ASSUME IInv, Forward, Family!TypeOK', NEW f \in Form, Open(f), form[f].operation # "create",
           form'[f] = form[f]
    PROVE  LET q == form[f]
           IN  /\ Row(q.table, q.id).version \in Nat /\ Row(q.table, q.id)'.version \in Nat
               /\ Row(q.table, q.id)'.version >= Row(q.table, q.id).version
  <1> DEFINE q == form[f]
  <1>1. q.table \in Table /\ FormSound(q) /\ q.id # None
    BY PageFields, ChangedRow DEF IInv, FormsSound
  <1>2. CASE q.table = "clients"
    <2>1. q.id \in Client /\ client[q.id] # None
      BY <1>1, <1>2 DEF FormSound, Fits, Row
    <2>2. client'[q.id] # None /\ (client'[q.id] = client[q.id] \/ client'[q.id].version > client[q.id].version)
      BY <2>1 DEF Forward
    <2>3. client[q.id].version \in Nat /\ client'[q.id].version \in Nat
      BY <2>1, <2>2, RowFields, TableFields DEF IInv, Family!TypeOK
    <2>4. Row(q.table, q.id) = client[q.id] /\ Row(q.table, q.id)' = client'[q.id]
      BY <1>2 DEF Row
    <2>5. QED
      BY <2>2, <2>3, <2>4
  <1>3. CASE q.table = "contacts"
    <2>1. q.id \in Contact /\ contact[q.id] # None
      BY <1>1, <1>3 DEF FormSound, Fits, Row
    <2>2. contact'[q.id] # None /\ (contact'[q.id] = contact[q.id] \/ contact'[q.id].version > contact[q.id].version)
      BY <2>1 DEF Forward
    <2>3. contact[q.id].version \in Nat /\ contact'[q.id].version \in Nat
      BY <2>1, <2>2, RowFields, TableFields DEF IInv, Family!TypeOK
    <2>4. Row(q.table, q.id) = contact[q.id] /\ Row(q.table, q.id)' = contact'[q.id]
      BY <1>3 DEF Row
    <2>5. QED
      BY <2>2, <2>3, <2>4
  <1>4. QED
    BY <1>1, <1>2, <1>3 DEF Table

(* What an event tells stays told while its form stays or is closed.       *)
LEMMA KeptEventTold ==
    ASSUME IInv, Forward, Family!TypeOK', NEW e \in event, receipt \subseteq receipt',
           form'[e.form] \in {form[e.form], Closed}
    PROVE  EventTold(e)'
  <1>1. e.form \in Form /\ EventTold(e)
    BY DEF IInv, EventsTold, TypeOK, Event
  <1>2. CASE form'[e.form] = Closed
    <2>1. Closed # Unused
      <3>1. Closed.operation = "closed" /\ Unused.operation = "unused" BY DEF Closed, Unused
      <3>2. QED BY <3>1
    <2>2. QED
      BY <1>2, <2>1 DEF EventTold, Open
  <1>3. CASE form'[e.form] = form[e.form]
    <2>1. Open(e.form)' = Open(e.form)
      BY <1>3 DEF Open
    <2>2. ReceiptsOf(e.actor, e.form) \subseteq ReceiptsOf(e.actor, e.form)'
      BY DEF ReceiptsOf
    <2>3. form[e.form] # Unused
      BY <1>1 DEF EventTold
    <2>4. ASSUME Open(e.form), form[e.form].operation # "create"
          PROVE  Row(form[e.form].table, form[e.form].id)'.version > form[e.form].shown.version
      <3> DEFINE q == form[e.form]
      <3>1. Row(q.table, q.id).version > q.shown.version /\ q.shown.version \in Nat
        BY <1>1, <2>4, ChangedRow DEF EventTold
      <3>2. /\ Row(q.table, q.id).version \in Nat /\ Row(q.table, q.id)'.version \in Nat
            /\ Row(q.table, q.id)'.version >= Row(q.table, q.id).version
        BY <1>1, <1>3, <2>4, KeptVersion
      <3>3. QED
        BY <3>1, <3>2, <1>3
    <2>5. ASSUME Open(e.form), form[e.form].operation = "create"
          PROVE  e.version = 1 /\ ReceiptsOf(e.actor, e.form)' # {}
      BY <1>1, <2>2, <2>5 DEF EventTold
    <2>6. QED
      BY <1>3, <2>1, <2>3, <2>4, <2>5 DEF EventTold
  <1>4. QED
    BY <1>2, <1>3

(* A page is displayed with the row as it is.                              *)
LEMMA DisplayFacts ==
    ASSUME IInv, NEW f \in Form, OpenClientForm(f) \/ OpenContactForm(f)
    PROVE  /\ UNCHANGED <<client, contact, receipt, event>> /\ form[f] = Unused
           /\ \E q \in Page : form' = [form EXCEPT ![f] = q] /\ FormSound(q) /\ VersionsTell(q)
  <1>1. CASE OpenClientForm(f)
    <2>1. PICK op \in Operation, c \in Client \cup {None} :
             /\ (op = "create") = (c = None)
             /\ c # None => Family!Exists(client, c)
             /\ Display(f, [table |-> "clients", operation |-> op, id |-> c, parent |-> None,
                            shown |-> IF c = None THEN None ELSE client[c]])
      BY <1>1 DEF OpenClientForm
    <2> DEFINE q == [table |-> "clients", operation |-> op, id |-> c, parent |-> None,
                     shown |-> IF c = None THEN None ELSE client[c]]
    <2>2. c # None => c \in Client /\ client[c] \in Family!ClientRow /\ client[c] # None
      BY <2>1, TableFields DEF IInv, Family!Exists
    <2>3. q \in Page
      <3>1. q.shown \in Family!ClientRow \cup Family!ContactRow \cup {None}
        BY <2>2
      <3>2. QED
        BY <3>1 DEF Page, Table, Identity
    <2>4. FormSound(q)
      BY <2>1, <2>2 DEF FormSound, Fits, Row
    <2>5. VersionsTell(q)
      BY <2>2, RowFields DEF VersionsTell, Row
    <2>6. QED
      BY <2>1, <2>3, <2>4, <2>5 DEF Display
  <1>2. CASE OpenContactForm(f)
    <2>1. PICK op \in Operation, k \in Contact \cup {None}, p \in Client :
             /\ Family!Exists(client, p)
             /\ (op = "create") = (k = None)
             /\ k # None => Family!Exists(contact, k) /\ contact[k].owner = p
             /\ Display(f, [table |-> "contacts", operation |-> op, id |-> k, parent |-> p,
                            shown |-> IF k = None THEN None ELSE contact[k]])
      BY <1>2 DEF OpenContactForm
    <2> DEFINE q == [table |-> "contacts", operation |-> op, id |-> k, parent |-> p,
                     shown |-> IF k = None THEN None ELSE contact[k]]
    <2>2. k # None => k \in Contact /\ contact[k] \in Family!ContactRow /\ contact[k] # None
      BY <2>1, TableFields DEF IInv, Family!Exists
    <2>3. q \in Page
      <3>1. q.shown \in Family!ClientRow \cup Family!ContactRow \cup {None}
        BY <2>2
      <3>2. QED
        BY <3>1 DEF Page, Table, Identity
    <2>4. FormSound(q)
      BY <2>1, <2>2 DEF FormSound, Fits, Row, Family!Exists
    <2>5. VersionsTell(q)
      BY <2>2, RowFields DEF VersionsTell, Row
    <2>6. QED
      BY <2>1, <2>3, <2>4, <2>5 DEF Display
  <1>3. QED
    BY <1>1, <1>2

(* Displaying a page keeps the invariant.                                  *)
LEMMA DisplayKeeps ==
    ASSUME IInv, NEW f \in Form, OpenClientForm(f) \/ OpenContactForm(f)
    PROVE  IInv'
  <1>1. PICK q \in Page : form' = [form EXCEPT ![f] = q] /\ FormSound(q) /\ VersionsTell(q)
    BY DisplayFacts
  <1>2. UNCHANGED <<client, contact, receipt, event>> /\ form[f] = Unused
    BY DisplayFacts
  <1>3. DOMAIN form = Form /\ form'[f] = q /\ \A g \in Form : g # f => form'[g] = form[g]
    BY <1>1 DEF IInv, TypeOK
  <1>4. TypeOK'
    BY <1>1, <1>2, <1>3 DEF IInv, TypeOK, Family!TypeOK
  <1>5. \A g \in Form : g # f => Open(g)' = Open(g)
    BY <1>3 DEF Open
  <1>6. FormsSound'
    <2>1. ASSUME NEW g \in Form, Open(g)' PROVE FormSound(form[g])' /\ VersionsTell(form[g])'
      <3>1. CASE g = f
        BY <1>1, <1>2, <1>3, <3>1 DEF FormSound, VersionsTell, Row
      <3>2. CASE g # f
        <4>1. FormSound(form[g]) /\ VersionsTell(form[g])
          BY <1>5, <2>1, <3>2 DEF IInv, FormsSound
        <4>2. QED
          BY <1>2, <1>3, <3>2, <4>1 DEF FormSound, VersionsTell, Row
      <3>3. QED
        BY <3>1, <3>2
    <2>2. QED
      BY <2>1 DEF FormsSound
  <1>7. EventsTold'
    <2>1. ASSUME NEW e \in event PROVE EventTold(e)'
      <3>1. EventTold(e) /\ e.form \in Form /\ e.form # f
        BY <1>2 DEF IInv, EventsTold, EventTold, TypeOK, Event
      <3>2. form'[e.form] = form[e.form]
        BY <1>3, <3>1
      <3>3. QED
        BY <1>2, <3>1, <3>2 DEF EventTold, Open, Row, ReceiptsOf
    <2>2. QED
      BY <1>2, <2>1 DEF EventsTold
  <1>8. OwnersThere' /\ MainContactSound' /\ OneEffectPerForm'
    BY <1>2 DEF IInv, OwnersThere, MainContactSound, Family!MainContactSound, Family!Selectable,
       Family!Exists, OneEffectPerForm
  <1>9. QED
    BY <1>4, <1>6, <1>7, <1>8 DEF IInv

(* So does a step that only closes a form, or writes what is no event.     *)
LEMMA ClosingKeeps ==
    ASSUME IInv, [Family!Next]_<<client, contact>>, NEW f \in Form, Answered(f),
           receipt' \subseteq Receipt, receipt \subseteq receipt', event' \subseteq Event,
           \A e \in event' \ event : EventTold(e)', OneEffectPerForm'
    PROVE  IInv'
  <1>1. TypeOK /\ Family!TypeOK' /\ OwnersThere' /\ MainContactSound' /\ Forward
    BY GuardKeeps DEF IInv, TypeOK
  <1>2. /\ \A g \in Form : form'[g] \in {form[g], Closed}
        /\ form' = [g \in Form |-> form'[g]]
    BY DEF IInv, TypeOK, Answered
  <1>3. TypeOK'
    BY <1>1, <1>2 DEF TypeOK
  <1>4. FormsSound'
    <2>1. ASSUME NEW g \in Form, Open(g)' PROVE FormSound(form[g])' /\ VersionsTell(form[g])'
      <3>1. form'[g] = form[g] /\ Open(g)
        BY <1>2, <2>1 DEF Open
      <3>2. QED
        BY <1>1, <3>1, KeptFormSound
    <2>2. QED
      BY <2>1 DEF FormsSound
  <1>5. EventsTold'
    <2>1. ASSUME NEW e \in event PROVE EventTold(e)'
      <3>1. e.form \in Form
        BY DEF IInv, TypeOK, Event
      <3>2. QED
        BY <1>1, <1>2, <3>1, KeptEventTold
    <2>2. QED
      BY <2>1 DEF EventsTold
  <1>6. QED
    BY <1>1, <1>3, <1>4, <1>5 DEF IInv

(* A creation is the only event of its form and its actor.                 *)
LEMMA CreateKeeps ==
    ASSUME IInv, NEW f \in Form, Create(f)
    PROVE  IInv'
  <1>1. PICK a \in Actor, i \in Input, id \in Identity :
            LET q == form[f]
                row == Created(q, i)
            IN  /\ Open(f) /\ q.operation = "create"
                /\ Fits(q.table, id, row) /\ row.version = 1
                /\ ReceiptsOf(a, f) = {}
                /\ Store(a, f, id, row)
                /\ receipt' = receipt \cup {[actor |-> a, form |-> f, input |-> i, id |-> id]}
                /\ Answered(f)
    BY CreateFacts
  <1> DEFINE q == form[f]
             r == [actor |-> a, form |-> f, input |-> i, id |-> id]
             n == [form |-> f, actor |-> a, id |-> id, version |-> 1]
  <1>2. TypeOK /\ q.table \in Table
    BY <1>1, PageFields DEF IInv
  <1>3. event' = event \cup {n}
    BY <1>1, <1>2, Stored
  <1>4. r \in Receipt /\ n \in Event
    BY DEF Receipt, Event
  <1>5. receipt' \subseteq Receipt /\ receipt \subseteq receipt' /\ event' \subseteq Event
    BY <1>1, <1>2, <1>3, <1>4 DEF TypeOK
  <1>6. EventTold(n)'
    <2>1. n.form = f /\ n.actor = a /\ n.version = 1
      OBVIOUS
    <2>2. form'[f] \in {form[f], Closed}
      BY <1>1, <1>2 DEF Answered, TypeOK
    <2>3. r \in ReceiptsOf(a, f)'
      BY <1>1 DEF ReceiptsOf
    <2>4. form[f] # Unused
      BY <1>1 DEF Open
    <2>5. Closed # Unused
      <3>1. Closed.operation = "closed" /\ Unused.operation = "unused" BY DEF Closed, Unused
      <3>2. QED BY <3>1
    <2>6. CASE form'[f] = Closed
      BY <2>1, <2>5, <2>6 DEF EventTold, Open
    <2>7. CASE form'[f] = form[f]
      BY <1>1, <2>1, <2>3, <2>4, <2>7 DEF EventTold, Open
    <2>8. QED
      BY <2>2, <2>6, <2>7
  <1>7. OneEffectPerForm'
    <2>1. ASSUME NEW e \in event, e.form = f PROVE e.version = 1 /\ e.actor # a
      <3>1. e.version = 1 /\ ReceiptsOf(e.actor, f) # {}
        BY <1>1, <2>1 DEF IInv, EventsTold, EventTold
      <3>2. QED
        BY <1>1, <3>1
    <2> HIDE DEF r
    <2>2. n.form = f /\ n.actor = a /\ n.version = 1
      OBVIOUS
    <2> HIDE DEF n
    <2>3. QED
      BY <1>3, <2>1, <2>2 DEF IInv, OneEffectPerForm
  <1>8. [Family!Next]_<<client, contact>>
    BY CreateRefines
  <1>9. \A e \in event' \ event : EventTold(e)'
    <2> HIDE DEF n
    <2>1. QED
      BY <1>3, <1>6
  <1>10. QED
    BY <1>1, <1>5, <1>7, <1>8, <1>9, ClosingKeeps

(* A change is the only event of its form.                                 *)
LEMMA ChangeKeeps ==
    ASSUME IInv, NEW f \in Form, Change(f)
    PROVE  IInv'
  <1> DEFINE q == form[f]
             old == Row(q.table, q.id)
  <1>1. PICK a \in Actor, i \in Input :
            LET new == [Changed(q, i) EXCEPT !.version = @ + 1]
            IN  /\ Open(f) /\ q.operation # "create"
                /\ old.version = q.shown.version
                /\ Answered(f) /\ receipt' = receipt
                /\ \/ UNCHANGED <<client, contact, event>>
                   \/ /\ Fits(q.table, q.id, new) /\ new.version = old.version + 1
                      /\ Store(a, f, q.id, new)
    BY ChangeFacts
  <1> DEFINE new == [Changed(q, i) EXCEPT !.version = @ + 1]
  <1>2. /\ TypeOK /\ q.table \in Table /\ old.version \in Nat /\ q.id \in Identity
    BY <1>1, PageFields, ChangedRow DEF IInv
  <1>3. [Family!Next]_<<client, contact>> /\ receipt' \subseteq Receipt /\ receipt \subseteq receipt'
    BY <1>1, <1>2, ChangeRefines DEF TypeOK
  <1>4. CASE UNCHANGED <<client, contact, event>>
    BY <1>1, <1>2, <1>3, <1>4, ClosingKeeps DEF IInv, TypeOK, OneEffectPerForm
  <1>5. CASE Fits(q.table, q.id, new) /\ new.version = old.version + 1 /\ Store(a, f, q.id, new)
    <2> HIDE DEF new
    <2> PICK n : n = [form |-> f, actor |-> a, id |-> q.id, version |-> new.version]
      OBVIOUS
    <2>1. /\ event' = event \cup {n}
          /\ q.table = "clients" => q.id \in Client /\ client'[q.id] = new
          /\ q.table = "contacts" => q.id \in Contact /\ contact'[q.id] = new
      BY <1>2, <1>5, Stored
    <2>2. n \in Event /\ event' \subseteq Event
      BY <1>2, <1>5, <2>1 DEF Event, TypeOK
    <2>3. EventTold(n)'
      <3>1. n.form = f
        OBVIOUS
      <3>2. form'[f] \in {form[f], Closed}
        BY <1>1, <1>2 DEF Answered, TypeOK
      <3>3. form[f] # Unused
        BY <1>1 DEF Open
      <3>4. CASE form'[f] = Closed
        <4>1. Closed.operation = "closed" /\ Unused.operation = "unused"
          BY DEF Closed, Unused
        <4>2. Closed # Unused
          BY <4>1
        <4>3. QED
          BY <3>1, <3>4, <4>2 DEF EventTold, Open
      <3>5. CASE form'[f] = form[f]
        <4>1. Row(q.table, q.id)' = new
          BY <1>2, <2>1, <3>5 DEF Row, Table
        <4>2. new.version > q.shown.version
          BY <1>1, <1>2, <1>5
        <4>3. Row(form[f].table, form[f].id)'.version > form'[f].shown.version
          BY <3>5, <4>1, <4>2
        <4>4. QED
          BY <1>1, <3>1, <3>3, <3>5, <4>3 DEF EventTold
      <3>6. QED
        BY <3>2, <3>4, <3>5
    <2>4. OneEffectPerForm'
      <3>1. ASSUME NEW e \in event PROVE e.form # f
        <4>1. SUFFICES ASSUME e.form = f PROVE FALSE
          OBVIOUS
        <4>2. old.version > q.shown.version
          BY <1>1, <4>1 DEF IInv, EventsTold, EventTold
        <4>3. QED
          BY <1>1, <1>2, <4>2
      <3>2. n.form = f
        OBVIOUS
      <3>3. QED
        BY <2>1, <3>1, <3>2 DEF IInv, OneEffectPerForm
    <2>5. \A e \in event' \ event : EventTold(e)'
      BY <2>1, <2>3
    <2>6. QED
      BY <1>1, <1>3, <2>2, <2>4, <2>5, ClosingKeeps
  <1>6. QED
    BY <1>1, <1>4, <1>5

(* The other steps close a form and write nothing.                         *)
LEMMA QuietKeeps ==
    ASSUME IInv, NEW f \in Form, Replay(f) \/ Leave(f)
    PROVE  IInv'
  <1>1. Answered(f) /\ UNCHANGED <<client, contact, receipt, event>>
    BY DEF Replay, Leave, Answered
  <1>2. OneEffectPerForm' /\ receipt' \subseteq Receipt /\ event' \subseteq Event
    BY <1>1 DEF IInv, TypeOK, OneEffectPerForm
  <1>3. QED
    BY <1>1, <1>2, ClosingKeeps

LEMMA InitIInv == ASSUME Init PROVE IInv
  <1>1. \A f \in Form : ~Open(f)
    BY DEF Init, Open
  <1>2. TypeOK
    BY ImportedAssumption DEF Init, TypeOK, Family!TypeOK
  <1>3. OwnersThere
    BY ImportedAssumption DEF Init, OwnersThere, Family!Exists
  <1>4. MainContactSound
    BY ImportedAssumption DEF Init, MainContactSound, Family!MainContactSound, Family!Selectable, Family!Exists
  <1>5. FormsSound
    BY <1>1 DEF FormsSound
  <1>6. EventsTold /\ OneEffectPerForm
    BY DEF Init, EventsTold, OneEffectPerForm
  <1>7. QED
    BY <1>2, <1>3, <1>4, <1>5, <1>6 DEF IInv

LEMMA NextIInv == ASSUME IInv, [Next]_vars PROVE IInv'
  <1>1. CASE UNCHANGED vars
    BY <1>1 DEF vars, IInv, TypeOK, Family!TypeOK, FormsSound, FormSound, VersionsTell, Fits, EventsTold,
       EventTold, Open, Row, ReceiptsOf, OwnersThere, MainContactSound, Family!MainContactSound,
       Family!Selectable, Family!Exists, OneEffectPerForm
  <1>2. CASE Next
    BY <1>2, DisplayKeeps, CreateKeeps, ChangeKeeps, QuietKeeps DEF Next
  <1>3. QED
    BY <1>1, <1>2

LEMMA Invariance == Spec => []IInv
  BY InitIInv, NextIInv, PTL DEF Spec

-----------------------------------------------------------------------------
(* Tables, receipts, events and pages keep their types, for any clients,   *)
(* contacts, people and forms.                                             *)
THEOREM ClientsTypeCorrect == Spec => []TypeOK
<1>1. IInv => TypeOK
  BY DEF IInv
<1>2. QED
  BY <1>1, Invariance, PTL

(* The main contact of a client is its own and not archived (D55).         *)
THEOREM MainContactsAreSound == Spec => []MainContactSound
<1>1. IInv => MainContactSound
  BY DEF IInv
<1>2. QED
  BY <1>1, Invariance, PTL

(* A form sent again, by whomever, is not applied again: the version of    *)
(* the row it changed has passed it, or the receipt of its sender is there.*)
THEOREM FormsTakeEffectOnce == Spec => []OneEffectPerForm
<1>1. IInv => OneEffectPerForm
  BY DEF IInv
<1>2. QED
  BY <1>1, Invariance, PTL

(* The gateways write nothing that client_contact_guard would refuse.      *)
THEOREM ClientsImplementFamily == Spec => ImplementsFamily
<1>1. Init => Family!Init
  <2>1. SUFFICES ASSUME Init PROVE Family!Init
    OBVIOUS
  <2>2. IInv
    BY <2>1, InitIInv
  <2>3. QED
    BY <2>2 DEF IInv, TypeOK, OwnersThere, MainContactSound, Family!Init
<1>2. IInv /\ [Next]_vars => [Family!Next]_Family!vars
  BY StepRefines DEF Family!vars
<1>3. QED
  BY <1>1, <1>2, Invariance, PTL DEF Spec, ImplementsFamily, Family!Spec

(* An archived client keeps its family as it was until it is restored      *)
(* (D52).                                                                  *)
THEOREM ArchivedFamiliesRest == Spec => FamilyRests
<1>1. IInv /\ [Next]_vars =>
        [\A c \in Client :
            Family!Exists(client, c) /\ (client[c].archived \/ client'[c].archived) =>
               /\ client'[c].main = client[c].main /\ client'[c].text = client[c].text
               /\ \A k \in Contact :
                     Family!Exists(contact', k) /\ contact'[k].owner = c => contact'[k] = contact[k]]_Family!vars
  <2>1. SUFFICES ASSUME IInv, [Next]_vars, NEW c \in Client,
                        client[c] # None, client[c].archived \/ client'[c].archived
                 PROVE  /\ client'[c].main = client[c].main /\ client'[c].text = client[c].text
                        /\ \A k \in Contact :
                              contact'[k] # None /\ contact'[k].owner = c => contact'[k] = contact[k]
    BY DEF Family!Exists
  <2>2. [Family!Next]_<<client, contact>> /\ Family!TypeOK
    BY <2>1, StepRefines DEF IInv, TypeOK
  <2>3. QED
    BY <2>1, <2>2, GuardFreezes
<1>2. QED
  BY <1>1, Invariance, PTL DEF Spec, FamilyRests, Family!FamilyRestsWhileArchived

(* Pages are opened and left, and resent creations are answered, without   *)
(* an event: only what is created or changed leaves one.                   *)
LEMMA EventsComeFromSaves ==
    ASSUME [Next]_vars, event' # event
    PROVE  \E f \in Form : Create(f) \/ Change(f)
  BY DEF Next, vars, OpenClientForm, OpenContactForm, Display, Replay, Leave

(* What is saved was typed into the row as it still is.                    *)
THEOREM ClientsLoseNoUpdate == Spec => NoLostUpdate
<1>1. IInv /\ [Next]_vars =>
        [\A f \in Form, e \in event' \ event :
            e.form = f /\ form[f].shown # None => Row(form[f].table, form[f].id) = form[f].shown]_vars
  <2>1. SUFFICES ASSUME IInv, [Next]_vars, NEW f \in Form, NEW e \in event' \ event,
                        e.form = f, form[f].shown # None
                 PROVE  Row(form[f].table, form[f].id) = form[f].shown
    OBVIOUS
  <2>2. ASSUME NEW g \in Form, Create(g) PROVE FALSE
    <3>1. PICK a \in Actor, i \in Input, id \in Identity :
             /\ Open(g) /\ form[g].operation = "create"
             /\ Store(a, g, id, Created(form[g], i))
      BY <2>2 DEF Create
    <3>2. e.form = g
      BY <3>1 DEF Store
    <3>3. FormSound(form[g])
      BY <2>1, <3>1 DEF IInv, FormsSound
    <3>4. QED
      BY <2>1, <3>1, <3>2, <3>3 DEF FormSound
  <2>3. ASSUME NEW g \in Form, Change(g) PROVE Row(form[f].table, form[f].id) = form[f].shown
    <3>1. PICK a \in Actor, i \in Input :
             /\ Open(g) /\ form[g].operation # "create"
             /\ Row(form[g].table, form[g].id).version = form[g].shown.version
             /\ \/ UNCHANGED <<client, contact, event>>
                \/ Store(a, g, form[g].id, [Changed(form[g], i) EXCEPT !.version = @ + 1])
      BY <2>1, <2>3, ChangeFacts
    <3>2. e.form = g
      BY <3>1 DEF Store
    <3>3. VersionsTell(form[g]) /\ form[g].id # None
      BY <2>1, <3>1, ChangedRow DEF IInv, FormsSound
    <3>4. QED
      BY <2>1, <3>1, <3>2, <3>3 DEF VersionsTell
  <2>4. \E g \in Form : Create(g) \/ Change(g)
    BY <2>1, EventsComeFromSaves
  <2>5. QED
    BY <2>2, <2>3, <2>4
<1>2. QED
  BY <1>1, Invariance, PTL DEF Spec, NoLostUpdate
=============================================================================
