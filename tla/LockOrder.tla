----------------------------- MODULE LockOrder -----------------------------
(***************************************************************************)
(* The row locks of the transactions that change staff, accounts, clients  *)
(* and case records, in the order in which the gateways take them, and the *)
(* retries of withSerializableRetry around each transaction.               *)
(*                                                                         *)
(* A transaction is a set of locks, each with the statement that takes it. *)
(* A statement that locks several rows takes them in the order of their    *)
(* ids.  Only what decides who waits for whom and which commits a snapshot *)
(* has missed is kept of the data.                                         *)
(***************************************************************************)
EXTENDS Integers, FiniteSets

CONSTANTS Txn,          \* the transactions in flight
          MaxId,        \* ids of rows are 1..MaxId
          MaxAttempts,  \* how often withSerializableRetry tries: 10 in the code
          Mixes         \* the assignments of requests to transactions considered

Id == 1..MaxId

(* The rows a request names.  actor is the account that asks (and the      *)
(* person it belongs to), record the row of its own table, the others are  *)
(* the rows it refers to.                                                  *)
Request == [kind : {"sign in", "account", "roster", "matter", "client", "contact", "logo",
                    "hearing", "work", "poa", "reference", "document", "letter"},
            actor : Id, record : Id, matters : SUBSET Id, clients : SUBSET Id,
            people : SUBSET Id, letters : SUBSET Id, contacts : SUBSET Id, steps : SUBSET Id]

Table == {"mutex", "person", "account", "matter", "reference", "letter", "client", "contact",
          "logo", "hearing", "work", "step", "poa", "document"}

(* FOR SHARE; FOR UPDATE of a row that is not changed; and FOR UPDATE of a *)
(* row that the transaction changes.                                       *)
Mode == {"share", "update", "write"}
Lock == [at : Nat, table : Table, id : Id, mode : Mode]

ASSUME TxnAssumption == IsFiniteSet(Txn)
ASSUME MaxIdAssumption == MaxId \in Nat \ {0}
ASSUME MaxAttemptsAssumption == MaxAttempts \in Nat \ {0}
ASSUME MixesAssumption == Mixes \subseteq [Txn -> Request]

Locked(at, table, ids, mode) ==
    {[at |-> at, table |-> table, id |-> i, mode |-> mode] : i \in ids}

(* PERFORM 1 FROM _migration.staff_roster_mutex ... FOR UPDATE             *)
Mutex(at) == Locked(at, "mutex", {1}, "update")

(* lock_staff_roster, also run by every statement that writes an account.  *)
Roster(at) == Locked(at, "mutex", {1}, "write")

(* The locks of the gateways' require_account on the person and account of *)
(* the actor.                                                              *)
Acting(at, q) == Locked(at, "person", {q.actor}, "share")
                 \cup Locked(at + 1, "account", {q.actor}, "share")

SignIn(q) == Locked(1, "account", {q.actor}, "write") \cup Roster(2)

ManageAccount(q) ==
    Locked(1, "account", {q.actor}, "update") \cup Locked(2, "account", {q.record} \ {q.actor}, "write")
    \cup Roster(3) \cup Locked(4, "person", q.people, "write")

(* With people the account of a person who is deactivated.                 *)
ChangeRoster(q) ==
    Roster(1) \cup Locked(2, "person", {q.record}, "write")
    \cup Locked(3, "account", q.people, "write")

SaveMatter(q) ==
    Acting(1, q) \cup Locked(3, "matter", {q.record}, "write")
    \cup Locked(4, "client", q.clients, "share") \cup Locked(5, "person", q.people, "share")

SaveClient(q) ==
    Acting(1, q) \cup Locked(3, "client", {q.record}, "write")
    \cup Locked(4, "contact", q.contacts, "update")

(* A mutant: the contact that is saved is locked before its client.        *)
ContactBeforeClient(q) ==
    Acting(1, q) \cup Locked(3, "contact", {q.record}, "write")
    \cup Locked(4, "client", q.clients, "update")

SaveContact(q) ==
    Acting(1, q) \cup Locked(3, "client", q.clients, "update")
    \cup Locked(4, "contact", {q.record}, "write")

SaveLogo(q) ==
    Acting(1, q) \cup Locked(3, "client", q.clients, "update")
    \cup Locked(4, "logo", {q.record}, "write")

SaveHearing(q) ==
    Mutex(0) \cup Acting(1, q) \cup Locked(3, "matter", q.matters, "share")
    \cup Locked(4, "hearing", {q.record}, "write") \cup Locked(5, "person", q.people, "share")

SaveWork(q) ==
    Mutex(0) \cup Acting(1, q) \cup Locked(3, "matter", q.matters, "share")
    \cup Locked(4, "work", {q.record}, "write") \cup Locked(5, "step", q.steps, "write")
    \cup Locked(6, "person", q.people, "share")

SavePOA(q) ==
    Mutex(0) \cup Acting(1, q) \cup Locked(3, "client", q.clients, "share")
    \cup Locked(4, "poa", {q.record}, "write") \cup Locked(5, "person", q.people, "share")

SaveReference(q) ==
    Mutex(0) \cup Acting(1, q) \cup Locked(3, "matter", {q.record}, "update")
    \cup Locked(4, "reference", {q.record}, "write") \cup Locked(5, "letter", q.letters, "update")
    \cup Locked(6, "client", q.clients, "update")

SaveDocument(q) ==
    Mutex(0) \cup Acting(1, q) \cup Locked(3, "matter", q.matters, "update")
    \cup Locked(4, "client", q.clients, "update") \cup Locked(5, "person", q.people, "update")
    \cup Locked(6, "document", {q.record}, "write")

SaveLetter(q) ==
    Mutex(0) \cup Acting(1, q) \cup Locked(3, "client", q.clients, "update")
    \cup Locked(4, "letter", {q.record}, "write") \cup Locked(5, "matter", q.matters, "update")

Locks(q) ==
    CASE q.kind = "sign in"   -> SignIn(q)
      [] q.kind = "account"   -> ManageAccount(q)
      [] q.kind = "roster"    -> ChangeRoster(q)
      [] q.kind = "matter"    -> SaveMatter(q)
      [] q.kind = "client"    -> SaveClient(q)
      [] q.kind = "contact"   -> SaveContact(q)
      [] q.kind = "logo"      -> SaveLogo(q)
      [] q.kind = "hearing"   -> SaveHearing(q)
      [] q.kind = "work"      -> SaveWork(q)
      [] q.kind = "poa"       -> SavePOA(q)
      [] q.kind = "reference" -> SaveReference(q)
      [] q.kind = "document"  -> SaveDocument(q)
      [] q.kind = "letter"    -> SaveLetter(q)

-----------------------------------------------------------------------------
VARIABLES
    request,   \* what each transaction is to do
    held,      \* the locks it has
    snapshot,  \* whose commits it sees
    attempt,   \* of withSerializableRetry, from 1
    status,    \* how far it is, or how it was answered
    victims    \* the transactions that ever ended a deadlock

vars == <<request, held, snapshot, attempt, status, victims>>

Answers == {"done", "refused", "contended"}

TypeOK ==
    /\ request \in [Txn -> Request]
    /\ held \in [Txn -> SUBSET Lock]
    /\ \A t \in Txn : held[t] \subseteq Locks(request[t])
    /\ snapshot \in [Txn -> SUBSET Txn]
    /\ attempt \in [Txn -> 1..MaxAttempts]
    /\ status \in [Txn -> {"ready", "running"} \cup Answers]
    /\ victims \subseteq Txn

Init ==
    /\ request \in Mixes
    /\ held = [t \in Txn |-> {}]
    /\ snapshot = [t \in Txn |-> {}]
    /\ attempt = [t \in Txn |-> 1]
    /\ status = [t \in Txn |-> "ready"]
    /\ victims = {}

-----------------------------------------------------------------------------
Done == {t \in Txn : status[t] = "done"}

Row(l) == <<l.table, l.id>>
Written(t) == {Row(l) : l \in {k \in Locks(request[t]) : k.mode = "write"}}

(* What was committed after the snapshot, and so cannot be locked.         *)
Overtaken(t) == UNION {Written(u) : u \in Done \ snapshot[t]}

Before(k, l) == k.at < l.at \/ (k.at = l.at /\ k.id < l.id)

(* The lock a transaction takes next: a set with at most one element.      *)
Wanted(t) ==
    {l \in Locks(request[t]) \ held[t] :
        \A k \in Locks(request[t]) : Before(k, l) => k \in held[t]}

Conflict(k, l) == Row(k) = Row(l) /\ ~(k.mode = "share" /\ l.mode = "share")

WaitsFor(t, u) ==
    /\ t # u /\ status[t] = "running" /\ held[u] # {}
    /\ \E l \in Wanted(t) : \E k \in held[u] : Conflict(k, l)

Blocked(t) == \E u \in Txn : WaitsFor(t, u)

(* Waiting in a circle.                                                    *)
Deadlocked(group) == group # {} /\ \A t \in group : \E u \in group : WaitsFor(t, u)

(* Rows that carry a version, which was displayed before the request was   *)
(* sent: the gateway compares it as soon as it has the lock.               *)
Versioned(l) == l.mode = "write" /\ l.table \notin {"mutex", "person", "account"}
Outdated(t) ==
    \E l \in Wanted(t) : Versioned(l) /\ \E u \in snapshot[t] : Row(l) \in Written(u)

(* A mutant: a transaction that is tried again keeps its snapshot.         *)
FirstSnapshot(t) == IF attempt[t] = 1 THEN Done ELSE snapshot[t]

Snapshot(t) == Done

Begin(t) ==
    /\ status[t] = "ready"
    /\ status' = [status EXCEPT ![t] = "running"]
    /\ snapshot' = [snapshot EXCEPT ![t] = Snapshot(t)]
    /\ UNCHANGED <<request, held, attempt, victims>>

Take(t) ==
    /\ status[t] = "running" /\ ~Blocked(t) /\ ~Outdated(t)
    /\ \E l \in Wanted(t) :
          /\ Row(l) \notin Overtaken(t)
          /\ held' = [held EXCEPT ![t] = @ \cup {l}]
    /\ UNCHANGED <<request, snapshot, attempt, status, victims>>

(* The end of an attempt, which gives all locks back.                      *)
End(t, answer) ==
    /\ status' = [status EXCEPT ![t] = answer]
    /\ held' = [held EXCEPT ![t] = {}]
    /\ UNCHANGED <<request, snapshot>>

Commit(t) ==
    /\ status[t] = "running" /\ held[t] = Locks(request[t])
    /\ End(t, "done")
    /\ UNCHANGED <<attempt, victims>>

(* Any check of the gateway fails: no retry, and nothing is written.       *)
Refuse(t) ==
    /\ status[t] = "running" /\ ~Blocked(t)
    /\ End(t, "refused")
    /\ UNCHANGED <<attempt, victims>>

(* A mutant: there is always one more attempt.                             *)
Uncounted(t) == attempt[t]

Counted(t) == attempt[t] + 1

MayRetry(t) == attempt[t] < MaxAttempts

Retry(t) ==
    IF MayRetry(t)
    THEN End(t, "ready") /\ attempt' = [attempt EXCEPT ![t] = Counted(t)]
    ELSE End(t, "contended") /\ UNCHANGED attempt

(* SQLSTATE 40001: the version is outdated, the row was changed after the  *)
(* snapshot, or the commits since then leave no serial order.              *)
Fail(t) ==
    /\ status[t] = "running"
    /\ Overtaken(t) # {} \/ (Outdated(t) /\ ~Blocked(t))
    /\ Retry(t)
    /\ UNCHANGED victims

(* SQLSTATE 40P01: PostgreSQL ends a transaction that waits in a circle.   *)
(* Whether the driver reports it as a conflict to retry is left open.      *)
Victim(t) ==
    /\ Blocked(t)
    /\ \E group \in SUBSET Txn : t \in group /\ Deadlocked(group)
    /\ Retry(t) \/ (End(t, "refused") /\ UNCHANGED attempt)
    /\ victims' = victims \cup {t}

Next ==
    \E t \in Txn :
       Begin(t) \/ Take(t) \/ Commit(t) \/ Refuse(t) \/ Fail(t) \/ Victim(t)

Spec == Init /\ [][Next]_vars

(* The server goes on as long as anything can: locks are granted when they *)
(* are free, circles of waits are broken, attempts follow each other.      *)
FairSpec == Spec /\ WF_vars(Next)
-----------------------------------------------------------------------------
CaseKinds == {"matter", "client", "contact", "logo", "hearing", "work", "poa", "reference"}

(* Saving, archiving or restoring matters, hearings, works, powers of      *)
(* attorney, fee-letter references, clients, contacts and logos never      *)
(* ends in a circle of waits, although only some of these gateways take    *)
(* the staff mutex: the tables have one order, and of the people only      *)
(* shared locks are taken.                                                 *)
CaseSavesNeverDeadlock ==
    \A group \in SUBSET Txn :
       (\A t \in group : request[t].kind \in CaseKinds) => ~Deadlocked(group)

(* The row was written by somebody who has committed since the request.    *)
Superseded(t) ==
    \E l \in Locks(request[t]) : Versioned(l) /\ \E u \in Done : Row(l) \in Written(u)

(* Without a deadlock, whoever is told that the record has changed         *)
(* meanwhile either does hold an outdated page or has met as many commits  *)
(* of others as there are attempts.                                        *)
ContentionAloneRefusesNobody ==
    \A t \in Txn :
       status[t] = "contended" =>
          t \in victims \/ Superseded(t) \/ Cardinality(Done) >= MaxAttempts

(* Every request is answered, in whatever way.                             *)
EveryRequestIsAnswered == \A t \in Txn : <>[](status[t] \in Answers)
=============================================================================
