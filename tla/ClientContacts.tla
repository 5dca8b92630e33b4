--------------------------- MODULE ClientContacts ---------------------------
(***************************************************************************)
(* mutateClient, the three gateways it calls and the pages in front of it: *)
(* clients and contacts are created, edited, archived and restored from    *)
(* forms that show a row as it was some time ago.  Creations carry a       *)
(* submission and leave a receipt; everything else carries the version it  *)
(* displayed, and no submission.                                           *)
(*                                                                         *)
(* A transaction is Serializable and retried, so it is one step.  Whoever  *)
(* is signed in when an open form is sent is the actor, and an answer that *)
(* is lost leaves the form open to be sent again, edited or not.           *)
(***************************************************************************)
EXTENDS Integers, FiniteSets

CONSTANTS Actor, Administrator,  \* who may add and edit, and who may archive
          Client, Contact, Text, Form, None,
          ImportedClients, ImportedContacts  \* the tables at the start

ASSUME ActorAssumption == Administrator \subseteq Actor
ASSUME NoneAssumption == None \notin Client \cup Contact
ASSUME TablesAreApart == Client \cap Contact = {}

VARIABLES
    client, contact,  \* the tables
    receipt,          \* client_contact_submission
    form,             \* the forms open in browsers
    event             \* the audit events: which form changed which row, and how far

vars == <<client, contact, receipt, form, event>>

Family == INSTANCE ContactFamily

ASSUME RowsAssumption == None \notin Family!ClientRow \cup Family!ContactRow

(* The tables at the start are such as the guard admits.                   *)
ASSUME ImportedAssumption ==
    /\ ImportedClients \in [Client -> Family!ClientRow \cup {None}]
    /\ ImportedContacts \in [Contact -> Family!ContactRow \cup {None}]
    /\ \A k \in Contact : ImportedContacts[k] # None => ImportedClients[ImportedContacts[k].owner] # None
    /\ \A c \in Client :
          ImportedClients[c] # None /\ ImportedClients[c].main # None =>
             LET k == ImportedClients[c].main
             IN  ImportedContacts[k] # None /\ ImportedContacts[k].owner = c /\ ~ImportedContacts[k].archived

Table == {"clients", "contacts"}
Operation == {"create", "update", "archive", "restore"}
Identity == Client \cup Contact

(* What an open form holds: the row it displayed (None when creating) and  *)
(* the client a contact is below.  The submission is the form itself.      *)
Page == [table : Table, operation : Operation, id : Identity \cup {None},
         parent : Client \cup {None}, shown : Family!ClientRow \cup Family!ContactRow \cup {None}]

Unused == [operation |-> "unused"]
Closed == [operation |-> "closed"]
Open(f) == form[f] \notin {Unused, Closed}

(* What is typed into a form: the text, and of a client the main contact.  *)
Input == [text : Text, main : Contact \cup {None}]
Receipt == [actor : Actor, form : Form, input : Input, id : Identity]
Event == [form : Form, actor : Actor, id : Identity, version : Nat]

Row(table, id) == IF table = "clients" THEN client[id] ELSE contact[id]

TypeOK ==
    /\ Family!TypeOK
    /\ receipt \subseteq Receipt /\ event \subseteq Event
    /\ form = [f \in Form |-> form[f]]
    /\ \A f \in Form : form[f] \in Page \cup {Unused, Closed}

Init ==
    /\ client = ImportedClients /\ contact = ImportedContacts
    /\ receipt = {} /\ event = {}
    /\ form = [f \in Form |-> Unused]

-----------------------------------------------------------------------------
Display(f, page) ==
    /\ form[f] = Unused
    /\ form' = [form EXCEPT ![f] = page]
    /\ UNCHANGED <<client, contact, receipt, event>>

OpenClientForm(f) ==
    \E op \in Operation, c \in Client \cup {None} :
       /\ (op = "create") = (c = None)
       /\ c # None => Family!Exists(client, c)
       /\ Display(f, [table |-> "clients", operation |-> op, id |-> c, parent |-> None,
                      shown |-> IF c = None THEN None ELSE client[c]])

OpenContactForm(f) ==
    \E op \in Operation, k \in Contact \cup {None}, p \in Client :
       /\ Family!Exists(client, p)
       /\ (op = "create") = (k = None)
       /\ k # None => Family!Exists(contact, k) /\ contact[k].owner = p
       /\ Display(f, [table |-> "contacts", operation |-> op, id |-> k, parent |-> p,
                      shown |-> IF k = None THEN None ELSE contact[k]])

-----------------------------------------------------------------------------
MayPerform(a, q) == q.operation \in {"archive", "restore"} => a \in Administrator

(* A mutant: the page in the browser is not compared with the row.         *)
AnyVersion(q) == q.shown # None

Fresh(q) == q.shown # None => Row(q.table, q.id).version = q.shown.version

(* parentRecord, asked before anything else, and before the receipt.       *)
ParentOpen(q) == q.table = "contacts" => ~client[q.parent].archived

(* A mutant: the receipt is written and never looked for.                  *)
NoReceipts(a, f) == {}

(* The receipts of this submission and this actor.                         *)
ReceiptsOf(a, f) == {r \in receipt : r.actor = a /\ r.form = f}

(* What the row becomes.  Fields that were not touched are not sent, so an *)
(* edit is the row with what was typed; a contact has no main contact.     *)
Changed(q, i) ==
    LET old == Row(q.table, q.id)
    IN  IF q.operation = "archive" THEN [old EXCEPT !.archived = TRUE]
        ELSE IF q.operation = "restore" THEN [old EXCEPT !.archived = FALSE]
        ELSE IF q.table = "clients" THEN [old EXCEPT !.text = i.text, !.main = i.main]
        ELSE [old EXCEPT !.text = i.text]

(* A row as created: a client starts without a main contact.               *)
Created(q, i) ==
    IF q.table = "clients"
    THEN [text |-> i.text, main |-> None, archived |-> FALSE, version |-> 1]
    ELSE [owner |-> q.parent, text |-> i.text, archived |-> FALSE, version |-> 1]

(* The checks of mutateClient and of the gateway.                          *)
Admitted(a, q) ==
    /\ MayPerform(a, q) /\ ParentOpen(q) /\ Fresh(q)
    /\ q.operation = "update" => ~Row(q.table, q.id).archived

(* A mutant: the main contact is only checked in the browser.              *)
Unguarded(q, i) == TRUE

(* What client_contact_guard adds to these checks.                         *)
Guarded(q, i) ==
    /\ q.table = "clients" /\ q.operation # "create" => Family!Selectable(q.id, Changed(q, i).main)
    /\ q.table = "contacts" /\ q.operation # "create" => Family!NotMain(q.id, Changed(q, i))

Replayed(a, f, i) == \E r \in ReceiptsOf(a, f) : r.input = i

CreateAccepted(a, f) == Admitted(a, form[f]) /\ ReceiptsOf(a, f) = {}

(* What is written is an audit event.                                      *)
Store(a, f, id, row) ==
    /\ IF form[f].table = "clients"
       THEN client' = [client EXCEPT ![id] = row] /\ UNCHANGED contact
       ELSE contact' = [contact EXCEPT ![id] = row] /\ UNCHANGED client
    /\ event' = event \cup {[form |-> f, actor |-> a, id |-> id, version |-> row.version]}

(* The answer closes the form, or is lost.                                 *)
Answered(f) == form' \in {form, [form EXCEPT ![f] = Closed]}

Create(f) ==
    \E a \in Actor, i \in Input, id \in Identity :
       LET q == form[f]
       IN  /\ Open(f) /\ q.operation = "create" /\ i.main = None
           /\ CreateAccepted(a, f) /\ ~Replayed(a, f, i)
           /\ id \in (IF q.table = "clients" THEN Client ELSE Contact)
           /\ ~Family!Exists(IF q.table = "clients" THEN client ELSE contact, id)
           /\ Store(a, f, id, Created(q, i))
           /\ receipt' = receipt \cup {[actor |-> a, form |-> f, input |-> i, id |-> id]}
           /\ Answered(f)

(* The same submission with the same input: the receipt answers.           *)
ReplayAnswered(a, f, i) ==
    MayPerform(a, form[f]) /\ ParentOpen(form[f]) /\ Replayed(a, f, i)

Replay(f) ==
    \E a \in Actor, i \in Input :
       /\ Open(f) /\ form[f].operation = "create" /\ ReplayAnswered(a, f, i)
       /\ form' = [form EXCEPT ![f] = Closed]
       /\ UNCHANGED <<client, contact, receipt, event>>

Change(f) ==
    \E a \in Actor, i \in Input :
       LET q == form[f]
       IN  /\ Open(f) /\ q.operation # "create"
           /\ Admitted(a, q)
           /\ IF Changed(q, i) = Row(q.table, q.id)
              THEN UNCHANGED <<client, contact, event>>
              ELSE /\ Guarded(q, i)
                   /\ Store(a, f, q.id, [Changed(q, i) EXCEPT !.version = @ + 1])
           /\ Answered(f) /\ UNCHANGED receipt

(* A form is left, or stays open with a refusal that changes nothing.      *)
Leave(f) ==
    /\ Open(f)
    /\ form' = [form EXCEPT ![f] = Closed]
    /\ UNCHANGED <<client, contact, receipt, event>>

Next == \E f \in Form :
           OpenClientForm(f) \/ OpenContactForm(f) \/ Create(f) \/ Replay(f) \/ Change(f) \/ Leave(f)

Spec == Init /\ [][Next]_vars
-----------------------------------------------------------------------------
(* The main contact of a client is its own and not archived, although it   *)
(* is chosen on one page and archived on another, each against the version *)
(* of its own row only (D55).                                              *)
MainContactSound == Family!MainContactSound

(* Every change is one the triggers admit, so whatever they promise of a   *)
(* family holds of the application too.                                    *)
ImplementsFamily == Family!Spec

(* What is saved was typed into, or confirmed on, the row as it still is.  *)
NoLostUpdate ==
    [][\A f \in Form, e \in event' \ event :
          e.form = f /\ form[f].shown # None => Row(form[f].table, form[f].id) = form[f].shown]_vars

(* A form takes effect at most once, however often it is sent: an edit,    *)
(* which has no submission, at most once for everybody, a creation at most *)
(* once per person who sends it.                                           *)
OneEffectPerForm ==
    \A d, e \in event :
       d.form = e.form /\ (d.version = 1 => d.actor = e.actor) => d = e

(* A creation resent by the same person with the same input is answered    *)
(* with the identity that was created, whatever happened since             *)
(* (DECISIONS.md:1503).                                                    *)
ReplayedCreationsAreAnswered ==
    \A r \in receipt : Open(r.form) => ReplayAnswered(r.actor, r.form, r.input)

(* An archived client keeps its main contact and its contacts as they were *)
(* until it is restored (D52), although all of them are edited on pages    *)
(* of their own.                                                           *)
FamilyRests == Family!FamilyRestsWhileArchived
=============================================================================
