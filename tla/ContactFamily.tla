--------------------------- MODULE ContactFamily ---------------------------
(***************************************************************************)
(* Clients and their contacts as the database guards them: whatever a      *)
(* writer proposes for a row, client_contact_guard decides.  A contact     *)
(* belongs to one client for ever, a client may name one of its contacts   *)
(* as the main one, and archiving is of single rows, never of a family.    *)
(***************************************************************************)
EXTENDS Integers

CONSTANTS Client, Contact,  \* the identities the two sequences hand out
          Text,             \* the business fields of a row, as a whole
          None              \* SQL's NULL, and the row of an identity not in use

ClientRow  == [text : Text, main : Contact \cup {None}, archived : BOOLEAN, version : Nat \ {0}]
ContactRow == [owner : Client, text : Text, archived : BOOLEAN, version : Nat \ {0}]

VARIABLES client, contact
vars == <<client, contact>>

TypeOK ==
    /\ client \in [Client -> ClientRow \cup {None}]
    /\ contact \in [Contact -> ContactRow \cup {None}]

Exists(table, id) == table[id] # None

(* The main contact is one of the client's own and not archived.           *)
Selectable(c, k) ==
    k # None => Exists(contact, k) /\ contact[k].owner = c /\ ~contact[k].archived

MainContactSound ==
    \A c \in Client : Exists(client, c) => Selectable(c, client[c].main)

Init == TypeOK /\ MainContactSound /\ \A k \in Contact :
                     Exists(contact, k) => Exists(client, contact[k].owner)

(* An archived row may only be restored, and archiving or restoring a row  *)
(* changes nothing else in it.                                             *)
Lifecycle(old, new) ==
    /\ old.archived => ~new.archived
    /\ new.archived # old.archived => new = [old EXCEPT !.archived = ~@, !.version = @ + 1]

NextVersion(old, new) == new # old /\ new.version = old.version + 1

(* Restore the parent client before any contact maintenance.               *)
OpenClient(c) == Exists(client, c) /\ ~client[c].archived

(* A mutant: the main contact can be archived.                             *)
AnyContact(k, new) == TRUE

(* Explicitly clear or replace the main contact before archiving it.       *)
NotMain(k, new) == new.archived => client[new.owner].main # k

InsertClient(c, new) ==
    /\ ~Exists(client, c)
    /\ new \in ClientRow /\ ~new.archived /\ new.version = 1 /\ Selectable(c, new.main)
    /\ client' = [client EXCEPT ![c] = new] /\ UNCHANGED contact

UpdateClient(c, new) ==
    /\ Exists(client, c)
    /\ new \in ClientRow
    /\ NextVersion(client[c], new) /\ Lifecycle(client[c], new) /\ Selectable(c, new.main)
    /\ client' = [client EXCEPT ![c] = new] /\ UNCHANGED contact

InsertContact(k, new) ==
    /\ ~Exists(contact, k)
    /\ new \in ContactRow /\ OpenClient(new.owner) /\ ~new.archived /\ new.version = 1
    /\ contact' = [contact EXCEPT ![k] = new] /\ UNCHANGED client

UpdateContact(k, new) ==
    /\ Exists(contact, k)
    /\ new \in ContactRow /\ new.owner = contact[k].owner
    /\ NextVersion(contact[k], new) /\ Lifecycle(contact[k], new)
    /\ OpenClient(new.owner) /\ NotMain(k, new)
    /\ contact' = [contact EXCEPT ![k] = new] /\ UNCHANGED client

Next ==
    \/ \E c \in Client : InsertClient(c, client'[c]) \/ UpdateClient(c, client'[c])
    \/ \E k \in Contact : InsertContact(k, contact'[k]) \/ UpdateContact(k, contact'[k])

Spec == Init /\ [][Next]_vars
-----------------------------------------------------------------------------
(* Archiving a client preserves its main contact and the archive state of  *)
(* every contact, and restoring it gives back exactly that (D52): from the *)
(* step that archives to the step that restores nothing of the family      *)
(* changes but the client's own flag and version.                          *)
FamilyRestsWhileArchived ==
    [][\A c \in Client :
          Exists(client, c) /\ (client[c].archived \/ client'[c].archived) =>
             /\ client'[c].main = client[c].main /\ client'[c].text = client[c].text
             /\ \A k \in Contact :
                   Exists(contact', k) /\ contact'[k].owner = c => contact'[k] = contact[k]]_vars
=============================================================================
