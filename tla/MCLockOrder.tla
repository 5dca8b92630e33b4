---------------------------- MODULE MCLockOrder ----------------------------
(* Requests of two users about one matter, its client and the records      *)
(* below them, three at a time.                                            *)
EXTENDS LockOrder, Sequences

Q(kind, actor, record) ==
    [kind |-> kind, actor |-> actor, record |-> record, matters |-> {1}, clients |-> {1},
     people |-> {2}, letters |-> {1}, contacts |-> {1}, steps |-> {1}]

MCRequests == <<
    Q("sign in", 1, 1), Q("account", 1, 2), Q("roster", 2, 1), Q("matter", 1, 1),
    Q("matter", 2, 1), Q("client", 2, 1), Q("contact", 1, 1), Q("logo", 1, 1),
    Q("hearing", 1, 1), Q("work", 2, 1), Q("poa", 1, 1), Q("reference", 2, 1),
    Q("document", 1, 1), Q("letter", 1, 1) >>

(* The first save of the matter with any two other requests.              *)
MCMixes ==
    {[t \in Txn |-> MCRequests[c[t]]] :
        c \in {d \in [Txn -> DOMAIN MCRequests] : d[1] = 4 /\ d[2] < d[3]}}
=============================================================================
