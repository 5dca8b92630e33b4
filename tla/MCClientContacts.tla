-------------------------- MODULE MCClientContacts --------------------------
(* One client with two contacts, one of them the main contact, and         *)
(* identities that are not in use yet.                                     *)
EXTENDS ClientContacts, TLC

CONSTANTS acme, beta, gamma, kim, lee, max, plain, other

C(main, archived) == [text |-> plain, main |-> main, archived |-> archived, version |-> 1]
K(owner) == [owner |-> owner, text |-> plain, archived |-> FALSE, version |-> 1]

MCClients  == (acme :> C(kim, FALSE)) @@ (beta :> None) @@ (gamma :> None)
MCContacts == (kim :> K(acme)) @@ (lee :> K(acme)) @@ (max :> None)

MCForms == Permutations(Form)
=============================================================================
