----------------------------- MODULE LogoHistory -----------------------------
(***************************************************************************)
(* What the logo pages of a client promise: the client has at most one     *)
(* current logo, every version that was ever registered keeps its bytes    *)
(* for good, and each accepted change moves the version by one.  How the   *)
(* bytes get to disk, who asks for a change, how often and what goes wrong *)
(* on the way is not visible here; module LogoStore implements it.         *)
(***************************************************************************)
EXTENDS Integers

CONSTANTS
    VersionId,  \* the identities of logo versions
    Content,    \* what the bytes of a logo can be
    None        \* neither a version nor a content

VARIABLES
    current,   \* the version the client shows, or None
    archived,  \* whether it is withdrawn
    version,   \* the counter the forms carry
    bytes      \* the bytes of every registered version

vars == <<current, archived, version, bytes>>

(* A client starts without a logo or with the imported one.                *)
Init ==
    /\ archived = FALSE
    /\ \/ /\ current = None
          /\ version = 0
          /\ bytes = [v \in VersionId |-> None]
       \/ \E v \in VersionId, c \in Content :
             /\ current = v
             /\ version = 1
             /\ bytes = [i \in VersionId |-> IF i = v THEN c ELSE None]

(* A new version takes the place of the current one, if it differs.        *)
Replace(v, c) ==
    /\ ~archived
    /\ bytes[v] = None
    /\ current # None => bytes[current] # c
    /\ current' = v
    /\ version' = version + 1
    /\ bytes' = [bytes EXCEPT ![v] = c]
    /\ UNCHANGED archived

Archive ==
    /\ current # None
    /\ ~archived
    /\ archived' = TRUE
    /\ version' = version + 1
    /\ UNCHANGED <<current, bytes>>

(* Any registered version, the archived or an older one, becomes current.  *)
Restore(v) ==
    /\ bytes[v] # None
    /\ archived \/ v # current
    /\ current' = v
    /\ archived' = FALSE
    /\ version' = version + 1
    /\ UNCHANGED bytes

Next ==
    \/ \E v \in VersionId, c \in Content : Replace(v, c)
    \/ Archive
    \/ \E v \in VersionId : Restore(v)

Spec == Init /\ [][Next]_vars
=============================================================================
