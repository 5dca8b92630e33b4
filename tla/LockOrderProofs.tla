-------------------------- MODULE LockOrderProofs --------------------------
(***************************************************************************)
(* Proofs about LockOrder, for any transactions, requests and number of    *)
(* attempts.  The locks a transaction has are those that come before the   *)
(* one it waits for; among the requests for case records that order is     *)
(* one order of the tables, so that the greatest lock anybody in a group   *)
(* waits for is held by somebody who does not wait.                        *)
(***************************************************************************)
EXTENDS LockOrder, TLAPS, WellFoundedInduction, FiniteSetTheorems

(* Every set of natural numbers has a least element.                       *)
LEMMA Minimum == ASSUME NEW S \in SUBSET Nat, S # {}
                 PROVE  \E m \in S : \A n \in S : m <= n
<1> DEFINE R == {ss \in Nat \X Nat : ss[1] < ss[2]}
<1>1. IsWellFoundedOn(R, Nat)
  BY NatLessThanWellFounded DEF OpToRel
<1>2. \E x \in S : \A y \in S : ~(<<y, x>> \in R)
  <2> HIDE DEF R
  <2> QED BY <1>1, WFMin
<1>3. \A x, y \in S : ~(<<y, x>> \in R) => x <= y
  <2> SUFFICES ASSUME NEW x \in S, NEW y \in S, ~(<<y, x>> \in R) PROVE x <= y
    OBVIOUS
  <2>1. <<y, x>> \in Nat \X Nat
    OBVIOUS
  <2>2. ~(<<y, x>>[1] < <<y, x>>[2])
    BY <2>1
  <2> QED BY <2>2
<1> HIDE DEF R
<1> QED BY <1>2, <1>3

(* The one order of the tables.  Of people and accounts the requests for   *)
(* case records only take shared locks, which wait for none of them.       *)
Rank(table) ==
    IF table = "mutex" THEN 1
    ELSE IF table = "matter" THEN 2
    ELSE IF table = "reference" THEN 3
    ELSE IF table = "letter" THEN 4
    ELSE IF table = "client" THEN 5
    ELSE IF table = "step" THEN 7
    ELSE 6

Staff == {"person", "account"}
Greater(l, k) == Rank(k.table) < Rank(l.table) \/ (k.table = l.table /\ k.id < l.id)

(* The locks of one statement differ in their ids only.                    *)
LEMMA LockedFields == ASSUME NEW at, NEW table, NEW ids, NEW mode,
                             NEW l \in Locked(at, table, ids, mode)
                      PROVE  l.at = at /\ l.table = table /\ l.mode = mode /\ l.id \in ids
BY DEF Locked

LEMMA LockedTyped == ASSUME NEW at \in Nat, NEW table \in Table, NEW ids \in SUBSET Id,
                            NEW mode \in Mode
                     PROVE  Locked(at, table, ids, mode) \subseteq Lock
BY DEF Locked, Lock

LEMMA RequestFields == ASSUME NEW q \in Request
                       PROVE  /\ {q.actor} \subseteq Id /\ {q.record} \subseteq Id
                              /\ {q.record} \ {q.actor} \subseteq Id
                              /\ q.matters \subseteq Id /\ q.clients \subseteq Id
                              /\ q.people \subseteq Id /\ q.letters \subseteq Id
                              /\ q.contacts \subseteq Id /\ q.steps \subseteq Id
                              /\ q.kind \in {"sign in", "account", "roster", "matter", "client",
                                             "contact", "logo", "hearing", "work", "poa",
                                             "reference", "document", "letter"}
BY DEF Request

LEMMA StaffLocksTyped == ASSUME NEW q \in Request, NEW at \in Nat
                         PROVE  Acting(at, q) \subseteq Lock /\ Mutex(at) \subseteq Lock
                                /\ Roster(at) \subseteq Lock
<1>1. at + 1 \in Nat /\ {1} \subseteq Id
  BY MaxIdAssumption DEF Id
<1>2. "mutex" \in Table /\ "person" \in Table /\ "account" \in Table
      /\ "share" \in Mode /\ "update" \in Mode /\ "write" \in Mode
  BY DEF Table, Mode
<1>3. Locked(at, "person", {q.actor}, "share") \subseteq Lock
      /\ Locked(at + 1, "account", {q.actor}, "share") \subseteq Lock
  BY <1>1, <1>2, RequestFields, LockedTyped
<1>4. Locked(at, "mutex", {1}, "update") \subseteq Lock
      /\ Locked(at, "mutex", {1}, "write") \subseteq Lock
  BY <1>1, <1>2, LockedTyped
<1> QED BY <1>3, <1>4 DEF Acting, Mutex, Roster

(* The locks of every request are locks on rows.                           *)
LEMMA LocksTyped == ASSUME NEW q \in Request
                    PROVE  Locks(q) \subseteq Lock
<1>1. Acting(1, q) \subseteq Lock /\ Mutex(0) \subseteq Lock
      /\ \A at \in Nat : Roster(at) \subseteq Lock
  BY StaffLocksTyped
<1>2. /\ {"person", "account", "matter", "reference", "letter", "client", "contact", "logo",
           "hearing", "work", "step", "poa", "document"} \subseteq Table
      /\ {"share", "update", "write"} \subseteq Mode
      /\ \A n \in 1..6 : n \in Nat
  BY DEF Table, Mode
<1>3. SignIn(q) \subseteq Lock /\ ManageAccount(q) \subseteq Lock /\ ChangeRoster(q) \subseteq Lock
  <2>1. Locked(1, "account", {q.actor}, "write") \subseteq Lock
        /\ Locked(1, "account", {q.actor}, "update") \subseteq Lock
        /\ Locked(2, "account", {q.record} \ {q.actor}, "write") \subseteq Lock
        /\ Locked(4, "person", q.people, "write") \subseteq Lock
        /\ Locked(2, "person", {q.record}, "write") \subseteq Lock
        /\ Locked(3, "account", q.people, "write") \subseteq Lock
    BY <1>2, RequestFields, LockedTyped
  <2> QED BY <1>1, <2>1 DEF SignIn, ManageAccount, ChangeRoster
<1>4. SaveMatter(q) \subseteq Lock /\ SaveClient(q) \subseteq Lock
  <2>1. Locked(3, "matter", {q.record}, "write") \subseteq Lock
        /\ Locked(4, "client", q.clients, "share") \subseteq Lock
        /\ Locked(5, "person", q.people, "share") \subseteq Lock
        /\ Locked(3, "client", {q.record}, "write") \subseteq Lock
        /\ Locked(4, "contact", q.contacts, "update") \subseteq Lock
    BY <1>2, RequestFields, LockedTyped
  <2> QED BY <1>1, <2>1 DEF SaveMatter, SaveClient
<1>5. SaveContact(q) \subseteq Lock /\ SaveLogo(q) \subseteq Lock
  <2>1. Locked(3, "client", q.clients, "update") \subseteq Lock
        /\ Locked(4, "contact", {q.record}, "write") \subseteq Lock
        /\ Locked(4, "logo", {q.record}, "write") \subseteq Lock
    BY <1>2, RequestFields, LockedTyped
  <2> QED BY <1>1, <2>1 DEF SaveContact, SaveLogo
<1>6. SaveHearing(q) \subseteq Lock /\ SaveWork(q) \subseteq Lock
  <2>1. Locked(3, "matter", q.matters, "share") \subseteq Lock
        /\ Locked(4, "hearing", {q.record}, "write") \subseteq Lock
        /\ Locked(5, "person", q.people, "share") \subseteq Lock
        /\ Locked(4, "work", {q.record}, "write") \subseteq Lock
        /\ Locked(5, "step", q.steps, "write") \subseteq Lock
        /\ Locked(6, "person", q.people, "share") \subseteq Lock
    BY <1>2, RequestFields, LockedTyped
  <2> QED BY <1>1, <2>1 DEF SaveHearing, SaveWork
<1>7. SavePOA(q) \subseteq Lock /\ SaveReference(q) \subseteq Lock
  <2>1. Locked(3, "client", q.clients, "share") \subseteq Lock
        /\ Locked(4, "poa", {q.record}, "write") \subseteq Lock
        /\ Locked(5, "person", q.people, "share") \subseteq Lock
        /\ Locked(3, "matter", {q.record}, "update") \subseteq Lock
        /\ Locked(4, "reference", {q.record}, "write") \subseteq Lock
        /\ Locked(5, "letter", q.letters, "update") \subseteq Lock
        /\ Locked(6, "client", q.clients, "update") \subseteq Lock
    BY <1>2, RequestFields, LockedTyped
  <2> QED BY <1>1, <2>1 DEF SavePOA, SaveReference
<1>8. SaveDocument(q) \subseteq Lock /\ SaveLetter(q) \subseteq Lock
  <2>1. Locked(3, "matter", q.matters, "update") \subseteq Lock
        /\ Locked(4, "client", q.clients, "update") \subseteq Lock
        /\ Locked(5, "person", q.people, "update") \subseteq Lock
        /\ Locked(6, "document", {q.record}, "write") \subseteq Lock
        /\ Locked(3, "client", q.clients, "update") \subseteq Lock
        /\ Locked(4, "letter", {q.record}, "write") \subseteq Lock
        /\ Locked(5, "matter", q.matters, "update") \subseteq Lock
    BY <1>2, RequestFields, LockedTyped
  <2> QED BY <1>1, <2>1 DEF SaveDocument, SaveLetter
<1> QED BY <1>3, <1>4, <1>5, <1>6, <1>7, <1>8, RequestFields DEF Locks

(* What the proof needs of the locks of one request for a case record.     *)
Orderly(locks) ==
    /\ \A l \in locks : l.table \in Staff => l.mode = "share"
    /\ \A l, k \in locks :
          /\ l # k /\ ~Before(k, l)
          /\ l.table \notin Staff /\ k.table \notin Staff
          => Greater(k, l)

(* It is enough that a later statement locks a later table.                *)
LEMMA StatementsInOrder ==
    ASSUME NEW locks \in SUBSET Lock,
           \A l \in locks : l.table \in Staff => l.mode = "share",
           \A l, k \in locks :
              /\ l.at = k.at => l.table = k.table /\ l.mode = k.mode
              /\ l.at < k.at /\ l.table \notin Staff /\ k.table \notin Staff
                    => Rank(l.table) < Rank(k.table)
    PROVE  Orderly(locks)
<1> SUFFICES ASSUME NEW l \in locks, NEW k \in locks, l # k, ~Before(k, l),
                    l.table \notin Staff, k.table \notin Staff
             PROVE  Greater(k, l)
  BY DEF Orderly
<1>1. l.at \in Nat /\ k.at \in Nat /\ l.id \in Nat /\ k.id \in Nat
  BY DEF Lock, Id
<1>2. l = [at |-> l.at, table |-> l.table, id |-> l.id, mode |-> l.mode]
      /\ k = [at |-> k.at, table |-> k.table, id |-> k.id, mode |-> k.mode]
  BY DEF Lock
<1>3. CASE l.at = k.at
  <2>1. l.table = k.table /\ l.mode = k.mode
    BY <1>3
  <2>2. l.id # k.id
    BY <1>2, <1>3, <2>1
  <2> QED BY <1>1, <1>3, <2>1, <2>2 DEF Before, Greater
<1>4. CASE l.at # k.at
  BY <1>1, <1>4 DEF Before, Greater
<1> QED BY <1>3, <1>4

(* Every gateway of the case records takes its locks in the one order.     *)
LEMMA CaseOrder == ASSUME NEW q \in Request, q.kind \in CaseKinds
                   PROVE  Orderly(Locks(q))
<1> DEFINE Is(l, at, table, mode) == l.at = at /\ l.table = table /\ l.mode = mode
<1> DEFINE Actor(l) == Is(l, 1, "person", "share") \/ Is(l, 2, "account", "share")
<1> DEFINE First(l) == Is(l, 0, "mutex", "update") \/ Actor(l)
<1>1. (\A l \in Acting(1, q) : Actor(l)) /\ (\A l \in Mutex(0) : Is(l, 0, "mutex", "update"))
  BY LockedFields DEF Acting, Mutex
<1>2. CASE q.kind = "matter"
  <2>1. \A l \in Locks(q) : Actor(l) \/ Is(l, 3, "matter", "write")
                            \/ Is(l, 4, "client", "share") \/ Is(l, 5, "person", "share")
    BY <1>1, <1>2, LockedFields DEF Locks, SaveMatter
  <2> QED BY <2>1, LocksTyped, StatementsInOrder DEF Staff, Rank
<1>3. CASE q.kind = "client"
  <2>1. \A l \in Locks(q) : Actor(l) \/ Is(l, 3, "client", "write")
                            \/ Is(l, 4, "contact", "update")
    BY <1>1, <1>3, LockedFields DEF Locks, SaveClient
  <2> QED BY <2>1, LocksTyped, StatementsInOrder DEF Staff, Rank
<1>4. CASE q.kind = "contact"
  <2>1. \A l \in Locks(q) : Actor(l) \/ Is(l, 3, "client", "update")
                            \/ Is(l, 4, "contact", "write")
    BY <1>1, <1>4, LockedFields DEF Locks, SaveContact
  <2> QED BY <2>1, LocksTyped, StatementsInOrder DEF Staff, Rank
<1>5. CASE q.kind = "logo"
  <2>1. \A l \in Locks(q) : Actor(l) \/ Is(l, 3, "client", "update")
                            \/ Is(l, 4, "logo", "write")
    BY <1>1, <1>5, LockedFields DEF Locks, SaveLogo
  <2> QED BY <2>1, LocksTyped, StatementsInOrder DEF Staff, Rank
<1>6. CASE q.kind = "hearing"
  <2>1. \A l \in Locks(q) : First(l) \/ Is(l, 3, "matter", "share")
                            \/ Is(l, 4, "hearing", "write") \/ Is(l, 5, "person", "share")
    BY <1>1, <1>6, LockedFields DEF Locks, SaveHearing
  <2> QED BY <2>1, LocksTyped, StatementsInOrder DEF Staff, Rank
<1>7. CASE q.kind = "work"
  <2>1. \A l \in Locks(q) : First(l) \/ Is(l, 3, "matter", "share")
                            \/ Is(l, 4, "work", "write") \/ Is(l, 5, "step", "write")
                            \/ Is(l, 6, "person", "share")
    BY <1>1, <1>7, LockedFields DEF Locks, SaveWork
  <2> QED BY <2>1, LocksTyped, StatementsInOrder DEF Staff, Rank
<1>8. CASE q.kind = "poa"
  <2>1. \A l \in Locks(q) : First(l) \/ Is(l, 3, "client", "share")
                            \/ Is(l, 4, "poa", "write") \/ Is(l, 5, "person", "share")
    BY <1>1, <1>8, LockedFields DEF Locks, SavePOA
  <2> QED BY <2>1, LocksTyped, StatementsInOrder DEF Staff, Rank
<1>9. CASE q.kind = "reference"
  <2>1. \A l \in Locks(q) : First(l) \/ Is(l, 3, "matter", "update")
                            \/ Is(l, 4, "reference", "write") \/ Is(l, 5, "letter", "update")
                            \/ Is(l, 6, "client", "update")
    BY <1>1, <1>9, LockedFields DEF Locks, SaveReference
  <2> QED BY <2>1, LocksTyped, StatementsInOrder DEF Staff, Rank
<1> QED BY <1>2, <1>3, <1>4, <1>5, <1>6, <1>7, <1>8, <1>9 DEF CaseKinds
-----------------------------------------------------------------------------
(* Nobody has a lock before those that its request takes earlier.          *)
HeldInOrder ==
    \A t \in Txn : \A l \in held[t], k \in Locks(request[t]) :
       Before(k, l) => k \in held[t]

IInv == TypeOK /\ HeldInOrder

LEMMA EndTyped == ASSUME TypeOK, NEW t \in Txn,
                         NEW answer \in {"ready"} \cup Answers, End(t, answer)
                  PROVE  /\ held' \in [Txn -> SUBSET Lock]
                         /\ \A u \in Txn : held'[u] \subseteq Locks(request'[u])
                         /\ status' \in [Txn -> {"ready", "running"} \cup Answers]
                         /\ request' = request /\ snapshot' = snapshot
                         /\ \A u \in Txn : held'[u] = {} \/ held'[u] = held[u]
BY DEF TypeOK, End, Answers

LEMMA RetryTyped == ASSUME TypeOK, NEW t \in Txn, Retry(t)
                    PROVE  /\ \E answer \in {"ready"} \cup Answers : End(t, answer)
                           /\ attempt' \in [Txn -> 1..MaxAttempts]
<1>1. CASE MayRetry(t)
  BY <1>1, MaxAttemptsAssumption DEF TypeOK, Retry, MayRetry, Counted, Answers
<1>2. CASE ~MayRetry(t)
  BY <1>2 DEF TypeOK, Retry, Answers
<1> QED BY <1>1, <1>2

LEMMA TypeInit == Init => IInv
BY MixesAssumption, MaxAttemptsAssumption DEF Init, IInv, TypeOK, HeldInOrder

(* A step that gives back the locks of one transaction, and no others.     *)
LEMMA EndKeeps == ASSUME IInv, NEW t \in Txn, NEW answer \in {"ready"} \cup Answers,
                         End(t, answer), attempt' \in [Txn -> 1..MaxAttempts],
                         victims' \subseteq Txn
                  PROVE  IInv'
<1>1. TypeOK'
  BY EndTyped DEF IInv, TypeOK
<1>2. HeldInOrder'
  BY EndTyped DEF IInv, HeldInOrder
<1> QED BY <1>1, <1>2 DEF IInv

LEMMA StepKeeps == IInv /\ [Next]_vars => IInv'
<1> SUFFICES ASSUME IInv, [Next]_vars PROVE IInv'
  OBVIOUS
<1> USE DEF IInv
<1>1. ASSUME NEW t \in Txn, Begin(t) PROVE IInv'
  BY <1>1 DEF Begin, Snapshot, Done, TypeOK, HeldInOrder
<1>2. ASSUME NEW t \in Txn, Take(t) PROVE IInv'
  <2>1. PICK l \in Wanted(t) : held' = [held EXCEPT ![t] = @ \cup {l}]
    BY <1>2 DEF Take
  <2>2. l \in Locks(request[t]) /\ request[t] \in Request
        /\ \A k \in Locks(request[t]) : Before(k, l) => k \in held[t]
    BY DEF Wanted, TypeOK
  <2>3. l \in Lock
    BY <2>2, LocksTyped
  <2>4. UNCHANGED <<request, snapshot, attempt, status, victims>>
    BY <1>2 DEF Take
  <2>5. TypeOK'
    BY <2>1, <2>2, <2>3, <2>4 DEF TypeOK
  <2>6. HeldInOrder'
    BY <2>1, <2>2, <2>4 DEF TypeOK, HeldInOrder
  <2> QED BY <2>5, <2>6
<1>3. ASSUME NEW t \in Txn, Commit(t) PROVE IInv'
  <2>1. End(t, "done") /\ UNCHANGED <<attempt, victims>>
    BY <1>3 DEF Commit
  <2> QED BY <2>1, EndKeeps DEF Answers, TypeOK
<1>4. ASSUME NEW t \in Txn, Refuse(t) PROVE IInv'
  <2>1. End(t, "refused") /\ UNCHANGED <<attempt, victims>>
    BY <1>4 DEF Refuse
  <2> QED BY <2>1, EndKeeps DEF Answers, TypeOK
<1>5. ASSUME NEW t \in Txn, Fail(t) PROVE IInv'
  <2>1. Retry(t) /\ UNCHANGED victims
    BY <1>5 DEF Fail
  <2> QED BY <2>1, RetryTyped, EndKeeps DEF TypeOK
<1>6. ASSUME NEW t \in Txn, Victim(t) PROVE IInv'
  <2>1. victims' = victims \cup {t}
    BY <1>6 DEF Victim
  <2>2. CASE Retry(t)
    BY <2>1, <2>2, RetryTyped, EndKeeps DEF TypeOK
  <2>3. CASE End(t, "refused") /\ UNCHANGED attempt
    BY <2>1, <2>3, EndKeeps DEF Answers, TypeOK
  <2> QED BY <1>6, <2>2, <2>3 DEF Victim
<1>7. CASE UNCHANGED vars
  BY <1>7 DEF vars, TypeOK, HeldInOrder
<1> QED BY <1>1, <1>2, <1>3, <1>4, <1>5, <1>6, <1>7 DEF Next

LEMMA Invariance == Spec => []IInv
BY TypeInit, StepKeeps, PTL DEF Spec

(* Transactions have only locks of their requests, and attempts never      *)
(* exceed those of withSerializableRetry.                                  *)
THEOREM TypeCorrect == Spec => []TypeOK
<1>1. IInv => TypeOK
  BY DEF IInv
<1> QED BY <1>1, Invariance, PTL

-----------------------------------------------------------------------------
(* No group of requests for case records waits in a circle.                *)
LEMMA NoCircle == ASSUME IInv, NEW group \in SUBSET Txn, Deadlocked(group),
                         \A t \in group : request[t].kind \in CaseKinds
                  PROVE  FALSE
<1> DEFINE Awaited == {l \in Lock : /\ l.table \notin Staff
                                    /\ \E t \in group : l \in Wanted(t)
                                    /\ \E u \in group : \E k \in held[u] : Row(k) = Row(l)}
<1>1. \A t \in group : /\ request[t] \in Request /\ Orderly(Locks(request[t]))
                       /\ Locks(request[t]) \subseteq Lock /\ held[t] \subseteq Locks(request[t])
  BY CaseOrder, LocksTyped DEF IInv, TypeOK
<1>2. \A t \in group : \E l \in Awaited : l \in Wanted(t)
  <2> SUFFICES ASSUME NEW t \in group PROVE \E l \in Awaited : l \in Wanted(t)
    OBVIOUS
  <2>1. PICK u \in group : WaitsFor(t, u)
    BY DEF Deadlocked
  <2>2. PICK l \in Wanted(t), k \in held[u] : Conflict(k, l)
    BY <2>1 DEF WaitsFor
  <2>3. l \in Locks(request[t]) /\ k \in Locks(request[u])
    BY <1>1 DEF Wanted
  <2>4. Row(k) = Row(l) /\ k.table = l.table
    BY <2>2 DEF Conflict, Row
  <2>5. l.table \notin Staff
    BY <1>1, <2>2, <2>3, <2>4 DEF Conflict, Orderly
  <2> QED BY <1>1, <2>2, <2>3, <2>4, <2>5
<1>3. \A l \in Awaited : \E m \in Awaited : Greater(m, l)
  <2> SUFFICES ASSUME NEW l \in Awaited PROVE \E m \in Awaited : Greater(m, l)
    OBVIOUS
  <2>0. PICK u \in group : \E k \in held[u] : Row(k) = Row(l)
    OBVIOUS
  <2>1. PICK k \in held[u] : Row(k) = Row(l)
    BY <2>0
  <2>2. PICK m \in Awaited : m \in Wanted(u)
    BY <1>2
  <2>3. m \in Locks(request[u]) /\ m \notin held[u] /\ k \in Locks(request[u])
    BY <1>1, <2>2 DEF Wanted
  <2>4. ~Before(m, k) /\ m # k
    BY <2>1, <2>3 DEF IInv, HeldInOrder
  <2>5. k.table = l.table /\ k.id = l.id
    BY <2>1 DEF Row
  <2>6. k.table \notin Staff /\ m.table \notin Staff
    BY <2>2, <2>5
  <2>7. Greater(m, k)
    BY <1>1, <2>3, <2>4, <2>6 DEF Orderly
  <2> QED BY <2>2, <2>5, <2>7 DEF Greater
<1>4. Awaited \subseteq Lock /\ Awaited # {}
  BY <1>2 DEF Deadlocked
<1> HIDE DEF Awaited
<1>5. \A l \in Awaited : 7 - Rank(l.table) \in Nat /\ MaxId - l.id \in Nat
  BY <1>4, MaxIdAssumption DEF Lock, Id, Rank
(* The last table that anybody waits for, and its last row.                *)
<1>6. PICK l \in Awaited : \A m \in Awaited : 7 - Rank(l.table) <= 7 - Rank(m.table)
  <2> DEFINE S == {7 - Rank(l.table) : l \in Awaited}
  <2>1. S \in SUBSET Nat /\ S # {}
    BY <1>4, <1>5
  <2>2. PICK n \in S : \A m \in S : n <= m
    <3> HIDE DEF S
    <3> QED BY <2>1, Minimum
  <2> QED BY <2>2
<1>7. PICK m \in Awaited : /\ m.table = l.table
                           /\ \A k \in Awaited : k.table = l.table => MaxId - m.id <= MaxId - k.id
  <2> DEFINE S == {MaxId - m.id : m \in {k \in Awaited : k.table = l.table}}
  <2>1. S \in SUBSET Nat /\ S # {}
    BY <1>5
  <2>2. PICK n \in S : \A m \in S : n <= m
    <3> HIDE DEF S
    <3> QED BY <2>1, Minimum
  <2> QED BY <2>2
<1>8. PICK k \in Awaited : Greater(k, m)
  BY <1>3
<1>9. k.id \in Int /\ m.id \in Int /\ MaxId \in Int /\ Rank(k.table) \in Int /\ Rank(m.table) \in Int
  BY <1>4, MaxIdAssumption DEF Lock, Id, Rank
<1> QED BY <1>6, <1>7, <1>8, <1>9 DEF Greater

(* The requests that save, archive or restore case records never end in a  *)
(* deadlock among themselves, however many there are and whatever rows     *)
(* they name.                                                              *)
THEOREM CaseSavesAreDeadlockFree == Spec => []CaseSavesNeverDeadlock
<1>1. IInv => CaseSavesNeverDeadlock
  BY NoCircle DEF CaseSavesNeverDeadlock
<1> QED BY <1>1, Invariance, PTL
-----------------------------------------------------------------------------
(* Each attempt that fails without fault of the request is paid for by a   *)
(* commit of somebody else: what a transaction has used up of its attempts *)
(* is bounded by the commits it has seen.                                  *)
Paid(t) ==
    /\ status[t] = "ready" => attempt[t] <= Cardinality(Done) + 1
    /\ status[t] = "running" => attempt[t] <= Cardinality(snapshot[t]) + 1
    /\ status[t] = "contended" => MaxAttempts <= Cardinality(Done)

Budget ==
    \A t \in Txn :
       /\ status[t] = "running" => snapshot[t] \subseteq Done
       /\ t \in victims \/ Superseded(t) \/ Paid(t)

LEMMA DoneCounted == ASSUME IInv, NEW S \in SUBSET Txn
                     PROVE  IsFiniteSet(S) /\ Cardinality(S) \in Nat
BY TxnAssumption, FS_Subset, FS_CardinalityType

LEMMA MoreDone == ASSUME NEW S \in SUBSET Txn, NEW T \in SUBSET S
                  PROVE  /\ Cardinality(T) \in Nat /\ Cardinality(S) \in Nat
                         /\ Cardinality(T) <= Cardinality(S)
                         /\ S # T => Cardinality(T) + 1 <= Cardinality(S)
<1>1. IsFiniteSet(S) /\ IsFiniteSet(T)
  BY TxnAssumption, FS_Subset
<1>2. Cardinality(S) \in Nat /\ Cardinality(T) \in Nat /\ Cardinality(T) <= Cardinality(S)
  BY <1>1, FS_CardinalityType, FS_Subset
<1>3. Cardinality(S) = Cardinality(T) => S = T
  BY <1>1, FS_Subset
<1> QED BY <1>2, <1>3

(* What is committed stays committed, so a superseded request stays one.   *)
LEMMA DoneStays == ASSUME IInv, [Next]_vars
                   PROVE  /\ Done \subseteq Done' /\ request' = request
                          /\ victims \subseteq victims'
                          /\ \A t \in Txn : Superseded(t) => Superseded(t)'
<1> DEFINE Kept == request' = request /\ Done \subseteq Done' /\ victims \subseteq victims'
<1>1. Kept
  <2>1. ASSUME NEW t \in Txn, NEW answer, End(t, answer), status[t] = "running"
        PROVE  request' = request /\ Done \subseteq Done'
    BY <2>1 DEF End, Done, IInv, TypeOK
  <2>2. ASSUME NEW t \in Txn, Begin(t) PROVE Kept
    BY <2>2 DEF Begin, Done, IInv, TypeOK
  <2>3. ASSUME NEW t \in Txn, Take(t) PROVE Kept
    BY <2>3 DEF Take, Done
  <2>4. ASSUME NEW t \in Txn, Commit(t) \/ Refuse(t) PROVE Kept
    BY <2>1, <2>4 DEF Commit, Refuse
  <2>5. ASSUME NEW t \in Txn, Fail(t) PROVE Kept
    BY <2>1, <2>5 DEF Fail, Retry
  <2>6. ASSUME NEW t \in Txn, Victim(t) PROVE Kept
    BY <2>1, <2>6 DEF Victim, Retry, Blocked, WaitsFor
  <2>7. CASE UNCHANGED vars
    BY <2>7 DEF vars, Done
  <2> QED BY <2>2, <2>3, <2>4, <2>5, <2>6, <2>7 DEF Next
<1>2. ASSUME NEW t \in Txn, Superseded(t) PROVE Superseded(t)'
  BY <1>1, <1>2 DEF Superseded, Written, Row, Versioned
<1> QED BY <1>1, <1>2

LEMMA BudgetInit == Init => Budget
<1> SUFFICES ASSUME Init PROVE Budget
  OBVIOUS
<1>1. Cardinality(Done) \in Nat
  BY TypeInit, DoneCounted DEF Done
<1> QED BY <1>1 DEF Init, Budget, Paid

(* What a step leaves to prove: the transaction that moves.                *)
LEMMA OthersPaid == ASSUME IInv, Budget, [Next]_vars, NEW u \in Txn,
                           status'[u] = status[u], attempt'[u] = attempt[u],
                           snapshot'[u] = snapshot[u]
                    PROVE  /\ status'[u] = "running" => snapshot'[u] \subseteq Done'
                           /\ u \in victims' \/ Superseded(u)' \/ Paid(u)'
<1>1. Done \subseteq Done' /\ victims \subseteq victims' /\ (Superseded(u) => Superseded(u)')
  BY DoneStays
<1>2. Done' \in SUBSET Txn /\ attempt[u] \in 1..MaxAttempts
  BY DEF Done, IInv, TypeOK
<1>3. Cardinality(Done) <= Cardinality(Done') /\ Cardinality(Done) \in Nat /\ Cardinality(Done') \in Nat
  BY <1>1, <1>2, MoreDone
<1>4. Paid(u) => Paid(u)'
  <2> SUFFICES ASSUME Paid(u) PROVE Paid(u)'
    OBVIOUS
  <2> QED BY <1>2, <1>3, MaxAttemptsAssumption DEF Paid
<1> QED BY <1>1, <1>4 DEF Budget

(* An attempt that fails is followed by one more, or by none, and there    *)
(* are more commits than this attempt had seen.                            *)
LEMMA RetryPaid == ASSUME IInv, [Next]_vars, NEW t \in Txn, Retry(t), Paid(t),
                          status[t] = "running", snapshot[t] \subseteq Done,
                          Overtaken(t) # {}
                   PROVE  Paid(t)'
<1>1. snapshot[t] # Done
  BY DEF Overtaken
<1>2. Done \in SUBSET Txn /\ Done' \in SUBSET Txn /\ Done \subseteq Done'
  BY DoneStays DEF Done
<1>3. attempt[t] <= Cardinality(snapshot[t]) + 1 /\ attempt[t] \in 1..MaxAttempts
  BY DEF Paid, IInv, TypeOK
<1>4. /\ Cardinality(snapshot[t]) + 1 <= Cardinality(Done) /\ Cardinality(snapshot[t]) \in Nat
      /\ Cardinality(Done) <= Cardinality(Done')
      /\ Cardinality(Done) \in Nat /\ Cardinality(Done') \in Nat
  BY <1>1, <1>2, MoreDone
<1>5. attempt[t] <= Cardinality(Done')
  BY <1>3, <1>4
<1>6. CASE MayRetry(t)
  <2>1. status'[t] = "ready" /\ attempt'[t] = attempt[t] + 1
    BY <1>6 DEF Retry, End, Counted, IInv, TypeOK
  <2> QED BY <1>3, <1>4, <1>5, <2>1 DEF Paid
<1>7. CASE ~MayRetry(t)
  <2>1. status'[t] = "contended" /\ attempt[t] = MaxAttempts
    BY <1>3, <1>7, MaxAttemptsAssumption DEF Retry, MayRetry, End, IInv, TypeOK
  <2> QED BY <1>5, <2>1 DEF Paid
<1> QED BY <1>6, <1>7

LEMMA BudgetKeeps == IInv /\ Budget /\ [Next]_vars => Budget'
<1> SUFFICES ASSUME IInv, Budget, [Next]_vars, NEW t \in Txn
             PROVE  /\ status'[t] = "running" => snapshot'[t] \subseteq Done'
                    /\ t \in victims' \/ Superseded(t)' \/ Paid(t)'
  BY DEF Budget
<1> DEFINE Fine == /\ status'[t] = "running" => snapshot'[t] \subseteq Done'
                   /\ t \in victims' \/ Superseded(t)' \/ Paid(t)'
<1>1. ASSUME NEW u \in Txn, u # t, Begin(u) \/ Take(u) \/ Commit(u) \/ Refuse(u) \/ Fail(u) \/ Victim(u)
      PROVE  Fine
  <2>1. status'[t] = status[t] /\ attempt'[t] = attempt[t] /\ snapshot'[t] = snapshot[t]
    BY <1>1 DEF IInv, TypeOK, Begin, Take, Commit, Refuse, Fail, Victim, Retry, End
  <2> QED BY <2>1, OthersPaid
<1>2. CASE Begin(t)
  <2>1. status'[t] = "running" /\ snapshot'[t] = Done /\ attempt'[t] = attempt[t]
        /\ status[t] = "ready" /\ Done \subseteq Done' /\ victims' = victims
    BY <1>2, DoneStays DEF IInv, TypeOK, Begin, Snapshot
  <2>2. Superseded(t) => Superseded(t)'
    BY DoneStays
  <2>3. Paid(t) => Paid(t)'
    BY <2>1 DEF Paid
  <2> QED BY <2>1, <2>2, <2>3 DEF Budget
<1>3. CASE Take(t) \/ UNCHANGED vars
  <2>1. status'[t] = status[t] /\ attempt'[t] = attempt[t] /\ snapshot'[t] = snapshot[t]
    BY <1>3 DEF Take, vars
  <2> QED BY <2>1, OthersPaid
<1>4. CASE Commit(t) \/ Refuse(t)
  <2>1. status'[t] \in {"done", "refused"}
    BY <1>4 DEF Commit, Refuse, End, IInv, TypeOK
  <2> QED BY <2>1 DEF Paid
<1>5. CASE Fail(t)
  <2>1. status'[t] # "running"
    BY <1>5 DEF Fail, Retry, End, IInv, TypeOK
  <2>2. status[t] = "running" /\ Retry(t) /\ snapshot[t] \subseteq Done
    BY <1>5 DEF Fail, Budget
  <2>3. CASE Overtaken(t) # {}
    <3>1. Paid(t) => Paid(t)'
      BY <2>2, <2>3, RetryPaid
    <3> QED BY <2>1, <3>1, DoneStays DEF Budget
  <2>4. CASE Outdated(t)
    <3>1. Superseded(t)
      BY <2>2, <2>4 DEF Outdated, Superseded, Wanted
    <3> QED BY <2>1, <3>1, DoneStays
  <2> QED BY <1>5, <2>3, <2>4 DEF Fail
<1>6. CASE Victim(t)
  <2>1. t \in victims' /\ status'[t] # "running"
    BY <1>6 DEF Victim, Retry, End, IInv, TypeOK
  <2> QED BY <2>1
<1> QED BY <1>1, <1>2, <1>3, <1>4, <1>5, <1>6 DEF Next

(* Whoever is told at last that the record has changed has an outdated     *)
(* page, ended a deadlock, or has met as many commits of others as there   *)
(* are attempts: the retries hide every lesser contention.                 *)
THEOREM RetriesHideContention == Spec => []ContentionAloneRefusesNobody
<1>1. Init => IInv /\ Budget
  BY TypeInit, BudgetInit
<1>2. (IInv /\ Budget) /\ [Next]_vars => (IInv /\ Budget)'
  BY StepKeeps, BudgetKeeps
<1>3. IInv /\ Budget => ContentionAloneRefusesNobody
  <2> SUFFICES ASSUME IInv, Budget, NEW t \in Txn, status[t] = "contended"
               PROVE  t \in victims \/ Superseded(t) \/ Cardinality(Done) >= MaxAttempts
    BY DEF ContentionAloneRefusesNobody
  <2>1. Cardinality(Done) \in Nat
    BY DoneCounted DEF Done
  <2> QED BY <2>1, MaxAttemptsAssumption DEF Budget, Paid
<1> QED BY <1>1, <1>2, <1>3, PTL DEF Spec
=============================================================================
